# libnss-stns: a TLA+ model of the library

libnss_stns is an NSS module. glibc loads it into any process that looks up a
user, a group or a shadow entry; it asks an STNS server over HTTP, or a cache of
earlier answers, and copies what it finds into the caller's buffer. It has no
process of its own: its state lives in static variables shared by the threads of
the host process, and in files shared by all processes of the machine. That is
where it can go wrong, and what this project models.

## Inventory

| part | code | state | operations | interacts with |
|---|---|---|---|---|
| enumeration of a database | `STNS_SET_ENTRIES` (stns.h), instantiated for pw, gr, sp | `entries`, `entry_idx`, a mutex, one of each per database and process | setXXent, getXXent_r, endXXent | request layer, `pthread_mutex_retrylock`, the ENSURE macros |
| bounded lock | `pthread_mutex_retrylock` (stns.c) | none | 1 + STNS_LOCK_RETRY trylocks, 10 ms apart | everything above and below that has a mutex |
| request layer | `stns_request` | none of its own | cache lookup, request, retries, lock file, export | all of the following |
| file cache | `stns_export_file`, `stns_import_file`, `delete_cache_files` | one file per path in `<cache_dir>/<euid>` | export, import, sweep | processes of the same user |
| connection lock file | `stns_request_available`, `stns_make_lockfile` | `/var/tmp/.stns.lock` | check and remove, make | all processes of all users |
| HTTP transfer | `inner_http_request`, `response_callback` | `data`, `size`, `status_code` of the response | one transfer | libcurl |
| query wrapper | `stns_exec_cmd` | the same | one command | popen |
| id range filter | `header_callback`, `SET_GET_HIGH_LOW_ID`, `ID_QUERY_AVAILABLE` | four static ids, two mutexes | set from headers, test before a lookup by id | HTTP transfer, lookups by id |
| single lookups | `STNS_GET_SINGLE_VALUE_METHOD`, `STNS_ENSURE_BY` | none | getpwnam_r, getpwuid_r, getgrnam_r, getgrgid_r, getspnam_r | request layer, ENSURE macros |
| buffer layout | `SET_ATTRBUTE`, `PASSWD_ENSURE`, `GROUP_ENSURE`, `SHADOW_ENSURE` | the caller's buffer | fill one struct | `grent_mutex`, which GROUP_ENSURE unlocks |
| name validation | `is_valid_username`, `is_valid_groupname`, `match` | none | accept or refuse | lookups by name, wrapper |
| configuration | `stns_load_config`, `stns_unload_config` | `stns_conf_t` on the caller's stack | load, unload | TOML parser |
| ssh key wrapper | stns_key_wrapper.c | none | one request, the keys printed | request layer, wrapper |
| TOML parser | toml.c (vendored) | `context_t` of one parse, the tree of tables | toml_parse, toml_rtos, toml_rtoi, toml_rtob | configuration |
| JSON parser | parson.c (vendored) | the tree of values, the hash table of each object | parse, add, set, remove, copy, free, serialize a string | enumeration, lookups, key wrapper |

What is hard in it:

- one list and one cursor for all threads of the process; a getXXent_r that
  reloads the list while it holds the mutex the reload needs; a group macro that
  unlocks a mutex its caller may not hold (`stns_group.c:13`, `29`, `43`);
- several processes truncating, writing, reading and unlinking the same cache
  file without any lock, and dying in the middle of it;
- what a request leaves behind that brought no answer: bytes of a cut transfer, an
  error page, an uninitialised buffer after a failure or an empty body, all of which
  are exported;
- a check of a file's age and an action on the file that are two system calls;
- unsigned differences of times; ids and thresholds at their boundaries;
- `strtok` and `umask`, one of each for all threads of the process;
- allocations that fail in the middle of a growing block, a copy or a parse, and
  macros that return from the middle of a function that holds something;
- a configuration field whose key is in the file but refused, which keeps what
  was on the stack;
- lengths, offsets and shifts at the limits of buffers and integers; ids that are a
  double in JSON, a uid_t in a comparison and an int in a url and an entry;
- two readers of one string, a scanner and a converter, with rules of their own.

`PROJECT.json` lists these hazards at their lines with the properties that cover
them.

## Modules

| module | models |
|---|---|
| `Enumeration` | setXXent, getXXent_r and endXXent of one database, any number of threads |
| `EntryCursor` | what the enumeration promises: a list handed out in order, each entry once |
| `EnumerationProofs` | theorems about `Enumeration` |
| `Request` | stns_request and everything it calls, any number of processes |
| `RequestSteps`, `RequestProofs` | what each step of a request changes, and its types; theorems about the cache, the answers and the lock file |
| `Buffers` | the growing blocks of response, command output, cache file and ssh keys |
| `Ensure` | the layout of an entry in the caller's buffer |
| `IdRange`, `IdRangeProofs` | the four ids, `strtok` and the filter of lookups by id |
| `Names` | name validation, the query wrapper's pattern, trim, TRIM_SLASH |
| `Lookup` | one lookup by name or id, and the caller that retries |
| `CacheDir` | the two windows with a cleared umask, of a load and of an export, and the cache directory |
| `Config` | load, use and unload of the configuration |
| `KeyWrapper` | the ssh key wrapper |
| `JsonObject`, `JsonMap` | the hash table of a JSON object, and the map it implements |
| `JsonTree` | ownership of JSON values |
| `JsonParse`, `JsonText` | the JSON parser; its strings, escapes and UTF-8 |
| `TomlParse`, `TomlParseProofs` | the TOML parser |
| `TomlText`, `TomlNumber` | its strings; its integers |
| `Texts`, `TextsProofs` | `Ensure`, `Names` and the UTF-8 test of `JsonText` side by side; theorems about them |
| `Process`, `ProcessProofs` | `Buffers`, `IdRange`, `CacheDir` and `Config` side by side; theorems about them |
| `Answers`, `AnswersProofs` | `JsonParse`, `JsonObject`, `Lookup` and `KeyWrapper` side by side; theorems about them |
| `MCEnumeration`, `MCRequest`, `MCProcess`, `MCAnswers` | instances of `Enumeration`, `Request`, `Process`, `Answers` for TLC |
| `MCTexts` | an instance of `Texts`, with `JsonTree`, `TomlText`, `TomlNumber` and the escapes of `JsonText` at its side |

How they fit together: `Lookup` and `Enumeration` use a request as one step that
succeeds with a document or fails; `Request` shows what such a step can return and
`JsonParse` when parsing it succeeds. The room an entry needs is a number in
`Lookup` and is justified by `Ensure`; which ids the filter refuses is free in
`Lookup` and decided in `IdRange`; the names it lets pass are those of `Names`.
`Config` treats the TOML library by what its methods leave in a field, which
`TomlText` and `TomlNumber` show. They are not composed into one system: what they
share is the interface named here, and the product of their states is out of reach.

`Texts`, `Process` and `Answers` hold several components side by side, so that one
run and one module of theorems serve them all. Every component has its own
variables and starts in its own Init; `part`, chosen in the initial state, says
which of them moves in a behaviour, and the others stand still. A run therefore
explores the sum of its components' state spaces, not the product, exactly as one
run per component would. Each states its properties by the ones of its
components: `ConfigSound`, for instance, is `FieldsDefined`, `FaultExplained` and
`NothingLeft` of `Config`. `MCTexts` adds four more parts in the same way, those
that have no theorems.

Operators named `<Definition>_<Something>` and marked "Mutant" are plausible bugs
of the definition that follows them. No specification uses them; each shows that
some property would notice.

### Enumeration

State: `mutex`, `entries`, `entry_idx` are the statics of the C file. `live` and
`docOf` are the heap of parsed documents: `json_value_free` takes a document out
of `live`, so that a later use is visible (`corrupt`). `pc`, `op`, `tries`,
`arr`, `pos`, `ret` are per thread: where it is, which entry point it is in, `i`
of the trylock loop, `array_entries`, the entry being copied, and the status.

Every access to shared state is an action, because the mutex cannot be assumed to
exclude. `setent`, `getent_r`, `endent` enter (or are refused when the
configuration or the request fails, which touches nothing shared).
`LockTaken`, `LockBusy`, `LockGivenUp` are the turns of the trylock loop;
`FreeEntries`, `ResetEntries`, `ParseFails`, `InstallEntries`, `SetUnlock` are
the lines of the inner setXXent; `ReadEntries`, `Reload`, the four `Fetch...`
actions, `Advance` and `GetUnlock` those of getXXent_r. `FetchEarlyUnlock` and
`LookupGroup` are the failure paths of GROUP_ENSURE, inside and outside an
enumeration. A document is abstracted to whether it is an array and which of its
entries have a name; a lookup that succeeds touches nothing shared and is left
out. `pthread_mutex_unlock` on the default mutex does not check the owner;
`stolen` records that it released another thread's lock.

For the group database the code does let one thread release another's lock, and
nothing can be promised after that. The properties say what holds until then, and
`NeverStolen` that passwd and shadow never get there.

### Request

State: `clock`, the lock file, each user's cache directory, the directory entries
(`link`) and the inodes they lead to (`file`), and the request each process is
in (`r`: program counter, the three fields of `stns_response_t`, and the locals
`retry_count`, `now`, descriptor and offset). A name and an inode are kept apart
because a process goes on writing or reading a file that a sweep has unlinked.
Contents are sequences of chunks, a chunk being what one `write` flushes; a hole
is what `write` leaves when the file was truncated behind its back, and reading
it adds nothing to a C string. `res->data` starts as nothing or as junk, the two
outcomes of reading memory malloc has just returned. A server may answer with an
empty body (`Chunks[v] = 0`): then libcurl has nothing for `response_callback`, and
a request that succeeds hands over, and exports, what the buffer held. `said` is a
history of what the server gave no bytes for: a 404 or an empty body.

One action per system call that another process can tell apart; a `stat` and the
`time` after it are one action, since a later clock only makes the file look
older and the file is opened in a step of its own. `HttpOk`, `HttpCut`,
`HttpStatus`, `HttpNone` are the ways a transfer can end, each with what it does
to `data`, `size` and `status_code`; in particular `size` is reset on an error
status or no status, not when a 200 answer breaks off, and `data` never is.
`Attempted` is the retry loop. `ExportOpen`, `ExportTruncate`, `ExportWrite`,
`ExportShort`, `ExportClose` follow whatever the result was, as in the code.
`Crash` kills a process anywhere.

`torn` is a history flag: what the request holds, or what the file holds, went
through one of the disturbances the code does not handle. It is cleared when an
undisturbed export truncates the file, so the properties below also say that the
cache heals. `CacheIntact` and `AnswerIntact` have two halves. Whatever happened, no
file and no answer has a byte of an answer for another path (`Mine`). Undisturbed,
it is what was given for its path (`Given`): one whole answer, or, only if the server
has given an empty one for that very path, nothing or the junk of the buffer.
`Mkdir` leaves out the umask around it, which is process-wide and in `CacheDir`.

### Buffers and Ensure

A block is its capacity (0 is NULL), the size the code believes, and how many
leading bytes were really written. `response_callback` compares with the default
size instead of the capacity, so that the first allocation must be remembered; a
failed realloc there loses the old block and libcurl is told that all is well,
`stns_exec_cmd` gives up, `stns_import_file` does not look, the key wrapper goes
on. `state = "fault"` is the write through NULL that follows. Every allocation may
fail.

In `Ensure` an entry is the lengths of its strings and members. `Start` chooses
the entry and the buffer and applies the defaults (`/home/<name>`, cut at MAXBUF);
`SetAttribute`, `PointerArea`, `Member`, `MembersDone` are the macros' steps;
`Nameless` is GROUP_ENSURE's early return. `Need` counts the bytes of the entry
without the buffer and is the reference for ERANGE.

### IdRange, Names, Lookup

`header_callback` is three steps, because another thread can run between its two
`strtok` calls: `StrtokName`, `StrtokValue`, `SetId`. `olds` is strtok's position:
whose header it points into and whether anything is left. A `strtok(NULL)` that goes on
in another thread's header reads what is there, or NULL, which `trim`
dereferences. The getters read 0, "no bound", when the mutex stays busy. Ids are
compared as int of `Width` bits, so the largest uid_t values are negative.

`Lookup` follows one call from load to return and keeps in `owned` what it holds:
each early return of the macros leaves something, and `expected` counts the
paths known to leak (a configuration that does not parse keeps its file open, a
refused name or id keeps the configuration, a buffer too small or a group without a
name keeps the parsed answer). Elements that are no objects, have no
name or no id occur in the answers; a lookup by name that meets an object without
a name passes NULL to strcmp.

An id passes four conversions. The shift is taken off in unsigned arithmetic
(`Mod`), `%d` prints the result as an int (`Signed`), the match takes the answer's
double to uid_t (`ToUid`), and the macro that fills the entry takes it to int
(`ToInt`) and adds the shift. A double outside the range of the type it is converted
to is undefined behaviour; the outcomes are those of the processors: it wraps,
saturates, or becomes INT_MIN. `Width` is the width of both types.

`Names` is pure: the validators and trimmers as operators on sequences of
characters, one or two of each class the code distinguishes.

### Config, CacheDir, KeyWrapper

A field is uninitialised, NULL, a number or the owner of a block. A key may be
absent, good, of the wrong type or refused late; GET_TOML_BYKEY assigns the default only when the
key is absent. `Header` and `UnloadHeader` are the turns of the two header loops;
the second frees the array in each turn. `fault` records a wild read or free.

In `CacheDir` the umask belongs to the process and the directory to the machine.
Two functions clear the umask and put back what they saved:
`stns_force_create_cache_dir`, in every load of a root process, whose system calls
are an action each (`Load` to `RestoreUmask`), and `stns_export_file`, in any
process, when the user's own directory is missing (`ExportClear`, `ExportRestore`).
A thread runs the one and then perhaps the other in a lookup; `overlapped` records
the processes in which two threads had a window open at once. `KeyWrapper` is the program from its arguments to
its exit; `short` records that memory or the chained wrapper failed.

### JSON

`JsonObject` is the open-addressing table as it lies in memory: cells, and the
parallel arrays of names, values, hashes and cell indices. Removal moves the last
item into the gap and shifts later cells back across the wrapped end. It refines
`JsonMap` (checked and proved). `JsonTree` takes an object as a list of members and follows ownership
and parent pointers through every operation; each operation is the set of its
outcomes, one per allocation that can fail. `JsonParse` is the recursive parser
with its C stack as a variable and the number of live blocks; `IsValue` is the
grammar, written without the parser. `JsonText` has the byte-level functions;
`WellFormedRows` is the Unicode table of well-formed sequences.

### TOML

`TomlParse` is the parser from `toml_parse` to its longjmp: the token, the stack of
open brackets, the selector path, the tree, and the count of live blocks and of
those the tree owns. Blanks, comments and the kinds of quotes are abstracted;
`TomlText` has them, from the scanner that finds the end of a string to
`toml_rtos`, with the growth of the block. `TomlNumber` is `toml_rtoi` with the
widths of int and long long as constants.

## Runs

| run | instance | shows |
|---|---|---|
| `enum_passwd` | 2 threads, 4 documents up to length 2, 3 retries, fair | no stolen lock, the mutex is always given back, the nested setXXent never locks; the interleaving implements `EntryCursor`; every call returns |
| `enum_group` | 2 threads, nameless groups, 1 retry | mutual exclusion, no use after free, entries in order, up to the first stolen lock |
| `request_cache` | 2 processes, 1 path, answers of 0, 1 and 2 chunks, transfers cut anywhere, 1 retry, failed writes, kills | undisturbed cache files and answers are whole, or what the buffer held for an empty body; disturbed ones hold chunks of answers, junk and holes only |
| `request_sweep` | 2 processes, 2 paths, wrapper, times to live 2 and 1, 3 seconds | imports are fresh; a sweep removes only what expired or was rewritten after it began |
| `request_lockfile` | 3 processes of 2 users (one is root), every failure and a 404, no cache, 3 seconds | the lock file is removed only after its time, or when it was made again after the remover looked |
| `request_returns` | 2 processes, 1 path, cache, lock file, 1 retry, fair | every request ends |
| `request_notfound` | 1 process, no kill | violated: see below |
| `toml_parse` | texts of up to 13 lexemes, selectors of 2 keys, failing allocations | `TreeSound`: keys unique, tables defined once; `NothingLost`: one known loss, the tree is all that is left; the parser stops unless the text ends in brackets |
| `toml_eof` | texts of up to 5 lexemes | violated: see below |
| `texts` | see the parts below | |
| - entry | 3 databases, 12 buffer sizes, strings of 0 to 12 bytes, 2 members | no overlap or overrun, ERANGE exactly when too small, gr_mem complete |
| - name | all texts of up to 4 characters of 8, names of at most 3 | `NamesExact`: the accepted names, and how they pass the two wrappers; exact trimming |
| - utf8 | all sequences of 4 of 22 boundary bytes | exactly the well-formed ones are accepted |
| - escapes | 3 of 26 pieces, escapes at every limit | `EscapesSound`: output fits, stays well-formed, survives serializing and parsing |
| - toml | 3 of 20 pieces in 4 kinds of quotes, growth by 11 | `StringsConvert`: what is scanned converts to what was meant and fits, two exceptions named |
| - number | all texts of up to 6 of 7 characters, int of 8 bits, long long of 16, block of 5 | `NumbersConvert`: exact within int; beyond it the upper bits are lost |
| - tree | 4 values, paths of 2 names | `OwnedOnce`: one owner each, true parents, faithful copies |
| `process` | see the parts below | |
| - buffers | 4 writers, 4 pieces of 0 to 7 bytes around the limits, any allocation failing | the terminator is in the block; nothing lost without a failed allocation |
| - ids | 2 threads, 3 transfers, 2 header sets, 4-bit ints | refusals follow from headers; crashes need two interleaved transfers; an undisturbed transfer repairs the ids |
| - dir | 4 threads of 3 processes, 2 of them root's, 2 loads each with an export or without | the umask returns and the directory is usable unless windows of one process overlap |
| - conf | 6 keys of every kind, 4 spellings, 2 headers | fields are defined, faults have one of four causes, nothing is left behind |
| `answers` | see the parts below; fair | all but the object: `ProgramsEnd`, they end |
| - parse | all texts of up to 9 lexemes (refused ones continued to 5), nesting 2, one failed allocation | no leak, exactly the grammar |
| - object | 4 names with equal, neighbouring and wrapping hashes, growth from 0 through 4 to 8 cells | implements a map, and its index is consistent |
| - lookup | 3 databases, all answers of up to 2 of 6 elements, ids from -1 to UINT_MAX of 3 bits, 2 calls | first match, ids there and back within int and what becomes of them beyond, leaks and crashes only where named, the retrying caller is answered |
| - keys | answers of up to 2 users with 2 keys, a chained wrapper | output complete, or a subsequence in order |

Bounds. Two documents are live at most, since a thread installs one only after
the old one is freed; the group run has three because a stolen lock breaks that.
Lists of two reach the first, a middle and the last position of the cursor. An
inode is in use when it is linked or open: with two processes and one path two
are enough, with two paths three, so an export never waits for one. The clock
passes each time to live by one, so that an age below, at and above it occurs,
and a file can be written in a later second than the sweep's. Two chunks are the
least that can be torn. With one path `request_cache` cannot mix up two: that half of
`CacheIntact` and `AnswerIntact` is proved for any number of paths. `Codes`, `Failures` and `MayCrash` say which error
statuses, failures without an answer and kills an instance has; a run leaves out
those its question does not turn on (a kill only shortens what the sweep and the
lock file see), and each occurs in some run. Two threads are the least that can
disturb each other; that a third changes nothing is what the proofs are for.
Symmetry is used in runs without liveness, on threads, documents, inodes, and
processes of the same user. ULONG only has to exceed
every age and threshold; 2^64 does.

Of the later modules: sizes are chosen so that every comparison has values below,
at and above it (ids below 0, at 0, within int and above INT_MAX, segments around DEFAULT and MAX, buffers around what an entry needs, names one longer
than MAX, numbers around both integer limits). Nine lexemes hold two nested
containers with an element and a trailing comma; thirteen hold `[a.b]`, `[a]`
and `[a]` again on three lines, the shortest text that defines a table twice. A table of four cells
grows after two items and of eight after five, so four names force one growth and
leave room for chains that wrap. `GROW` is just above the slack, so that the block
grows at almost every character.

Fairness. Weak fairness of each thread's or process's own steps: the scheduler
runs it, a trylock does not block, curl has CURLOPT_TIMEOUT, and file operations
return. stns_exec_cmd has no time limit, so for a wrapper the assumption is that
the command ends. No fairness is assumed for entering a call, for the clock or
for a kill. The parsers, the key wrapper and a lookup are one thread that computes:
weak fairness of the next step says only that it runs on. In `toml_eof` the parser
steps forever without progress, so the counterexample is not one of stopping.

### Findings

`toml_eof`. toml.h says of toml_parse "Return a table on success, or 0 otherwise."
At the end of the text `next_token` returns a NEWLINE each time it is called, and
`SKIP_NEWLINES` (toml.c:774-776) runs until a token that is none: a configuration
file that ends inside `[` or `{` keeps the loading thread in that loop. The
compiled parser does not return on `a = [` either.

`request_notfound` states what the comment at `stns.c:596` says of an empty cache
file, "resource notfound", and what the NSS status means: NOTFOUND is answered
only for a path the server has answered 404 for. The code violates it.
`stns_request` exports `res->data` without looking at the result; when a request
ends without an answer and the fresh buffer starts with a zero byte, the export
leaves an empty file, and for `negative_cache_ttl` seconds lookups of that path
are NOTFOUND instead of UNAVAIL. A kill between open and write, a full disk, and
the moment between ftruncate and the first write of another process end the same
way.

Met while modelling, and named in the properties that hold in spite of them:
toml_rtoi assigns the long long of strtoll to an int (toml.c:1855), so a number
between the two limits succeeds without its upper bits (`NumbersConvert`); a
second custom header is freed twice (`ConfigSound`); an object without a name in
the answer ends the process of a lookup by name (`LeaksExplained`); a table whose
name cannot be copied is lost (`NothingLost`). A success with an empty body hands
the caller the buffer malloc returned and exports it; it is served from the cache
for `cache_ttl` seconds, or, if its first byte is 0, answers NOTFOUND like the empty file
above (`CacheIntact`, `AnswerIntact`). An id from 2^31 on, or one the shift takes
below 0, is asked for as a negative number, and where the server answers with the id
as it is, from 2^31 on, the entry carries another one (`FirstMatch`). A thread that exports into a
missing directory while another loads may leave the umask of the process at 0
(`UmaskRestored`). A configuration file that does not parse is left open by each
lookup (`LeaksExplained`, `ConfigSound`).

## Proofs

`EnumerationProofs` proves, for any set of threads, any documents and any retry
bound, from `EnumAssumption` alone:

- `TypeCorrect`, one step per action;
- `Inductive`: `Spec => []IndInv`. The safety invariants are not inductive by
  themselves. `IndInv` adds who owns the mutex (`OwnerInv`: a thread is between
  its trylock and its unlock exactly when it owns the mutex), that a reload never
  reaches the inner setXXent (`ReloadInv`: it would need a mutex its own thread
  owns), where `entries` may dangle and what `array_entries` points to
  (`HeapInv`), and how cursor, deliveries and the entry in flight relate
  (`CursorInv`); all guarded by `stolen`. Each part has a lemma of its own
  (`OwnerStep`, `ReloadStep`, `HeapStep`, `CursorStep`), in this order because
  each uses the ones before it. `SoloStep` shows that outside the group database
  no step sets `stolen`;
- each safety invariant of the runs as a corollary;
- `Refinement`: for passwd and shadow, `Spec` implements `EntryCursor`.

`TextsProofs` is about entries, buffers and strings of any size, from
`EnsureAssumption` and `TextsAssumption`.

- The layout of an entry: `EnsureTypeOK`, `EnsureInBuffer`, `EnsureTryAgain` and
  `EnsureMembers`. `Accounted` strengthens the invariant: `off + left` is the
  caller's size and all pieces lie before `off`, from which the next piece
  overlaps none; `PlaceKeeps` is that step, used by every macro. `Counted` says
  that `off` is the sum of what has been placed, so that a string without room
  means that the whole entry has none; `Slots`, that inside the loop of
  GROUP_ENSURE the pointers before `i` are final and the others unset. The sum
  (`Needed`) is a recursive function. That it exists, is a number and grows needs
  induction, which the library offers for an operator parameter only;
  `NatSetInduction` is the same principle for a set, from the well-foundedness of
  `<` (`NatLessThanWellFounded`, `WFMin`). `NeededDef` and `NeededGrows` use it, and
  so does everything below that is said of a loop.
- `TextsNames`. The invariant is only `Typed`, the type of the text; the work is in
  the pure functions. The loops of `is_valid_username` and `trim` are recursive
  functions of a LET: a function that satisfies the equation exists (it is written
  down without recursion: "every character from i on", `FirstAt`, `LastAt`), so
  CHOOSE finds one, and what it finds is what was written down.
- `TextsUtf8`, likewise for the loop of `is_valid_utf8`. One step of it is a
  comparison of two tables: the code's, by length, payload bits and the tests for
  overlong sequences, surrogates and the upper limit (`ThreeBytes`, `FourBytes`,
  the arithmetic), and the rows of Unicode (`RowFits`, `NarrowRows`).

`ProcessProofs` is about any pieces, blocks, threads, processes, loads, headers and
keys, from `BuffersAssumption` and `ProcessAssumption`.

- `BufferTerminated` and `BufferComplete`. The invariants are not inductive for
  `response_callback` and `stns_exec_cmd`, which compare with the default size:
  `DefaultKept` adds that their block is never smaller than that unless it is NULL
  after a failure. `CopyKeeps` is the arithmetic all writers share.
- `ProcessUmask`. `UmaskInv`: in a process whose windows, of loads and of exports, never
  overlapped at most one thread has one open, and it has saved the initial umask. `DirInv`: a directory
  to be repaired is in the hands of a thread that will do it.
- `ProcessConfig`. `FieldsRead` says that a field whose key has been read holds what
  the spelling of the key gave; `HeapInv` which blocks may be live at each place,
  and that the array of headers is there for the first turn of the unloading loop
  and for no later one; `OpenInv` when the file and the table are open.
- `ProcessRefusals`, `ProcessCrashes` and `ProcessRestores` carry the theorems of
  `IdRangeProofs` over to the composition.

`IdRangeProofs` proves `RefusalsJustified`, `CrashesExplained` and
`TransferRestores` for any threads, responses, ids, width of int and shift.
`PositionInv` is strtok's position between its two calls; `KnownInv` says that what
is stored, or about to be, was announced; `AloneInv`, for a transfer that is alone,
that the ids have the values of the headers stored so far (`Effective`), each slot
that of the last one for it. These three theorems take the assumption on the
constants as a hypothesis, which `ProcessProofs` discharges.

`AnswersProofs` is about texts and answers of any length, objects of any size and
integers of any width, from `AnswersAssumption`. Of the hash function it is only
assumed that it is one, and of the starting capacity that it is at least 2 (16 in
the code).

- `AnswersParser`. That what is live belongs to someone is a sum over the parser's
  stack. `BlocksInv` has no recursion: some sequence of running totals starts at 0,
  grows by the `Weight` of each frame and ends in what is live. `KeysInv` says which
  frames hold a key; `AnswerPush` and `AnswerPop` extend and shorten the totals.
- `AnswersFirstMatch` and `AnswersLeaks`, by one invariant (`LookInv`): `ScanInv` says
  that the scan has passed no match and what it stops at is one, `LookOwnInv` what the
  call owns at each place, with `leaked` and `expected`. `May` and `Must` are the two
  readings of a match, which differ for an id no uid_t holds. `RoundTrip` is the way of
  an id through shift, url, match and entry, by the same three cases as the property;
  `SignedIs` and `ModShift` are what the conversions do, `Euclid` and `RemainderUnique`
  the arithmetic below them.
- `AnswersOutput`. Order and completeness of the printed keys are one map from lines
  to places in the answer; `Taken` is it while the block grows, `Faithful` when it is
  printed.
- `AnswersMap`: the hash table refines `JsonMap`, and its index is consistent. The
  invariant is `Good`. Its part `Sound` says that items and cells lead to each other
  (`Agree`), no name occurs twice (`Unique`), and no cell is empty between the cell a
  name hashes to and the one its item is in (`Reached`); its part `Room` that there are
  always fewer items than cells, so that a search ends (`EmptyCell`, a pigeonhole
  argument). `FindIs` says what a lookup finds in an object that is `Sound`.
  Insertion keeps it (`InsertKeeps`), rehashing is a loop of insertions (`RehashKeeps`).
  Removal is the hard one. `TakeOutKeeps` leaves an object with a hole, in which
  `Reached` may be wrong. The loop that closes the hole has the invariant `Closing`,
  whose `NoneCut` says that no item between hole and cursor has the hole on its way;
  the cursor meets an empty cell before it comes round, and then no item at all has
  (`ShiftBackKeeps`). `Content` is the map an object stands for, and `GoodStep` maps each
  operation to a step of `JsonMap`. The probing, rehashing and shifting loops are
  recursive functions of a LET, as in `TextsProofs`.

`RequestSteps` and `RequestProofs` are about any number of processes, users, paths,
inodes and answers, any retry and any times to live, from `RequestAssumption`:
times do not come within reach of the wrap of unsigned long, None is no inode and
no lock, and junk and holes are no chunks of an answer. `RequestSteps` shows for
each action which fields of its request it changes and to what (one lemma each),
and from these `TypeCorrect`; its invariant is `Typed`, the types together with what
a request must have at each step (`Shaped`: a path, a descriptor, a victim).
`RequestProofs` has two arguments.

- Ages. A look at a file's age and the action on the file are two steps, so the
  properties are not inductive: `LockInv`, `SweepInv` and `FreshInv` carry what was
  seen to the step that uses it, or say that the file was made again meanwhile;
  `TimeInv` says that no time stamp lies in the future, without which the unsigned
  differences mean nothing. `ImportsFresh`, `UnlocksJustified` and `SweepsJustified`
  follow; the last two are about steps and are proved as `[][...]_vars`.
- Contents. `CachesIntact` and `AnswersIntact` feed each other: an answer is
  exported and imported again. Their first halves are `OwnInv`, which takes no
  account of `torn`: what a request holds, and what is in every file with a name or
  an open descriptor, is `Mine` for its path. For the second halves, `Carries` says
  what a request holds before, during and after its transfer; `Writes` that a file which is not torn has one writer
  and is the beginning of what that has; `Reads` that a reader alone with such a
  file has its beginning; `Holds` that a file nobody is exporting holds what was given
  or is torn; `NameInv` that no file has two names and that a descriptor and an entry for
  the same file are for the same path.

`TomlParseProofs` proves `TomlNothingLost` and `TomlTreeSound` for texts of any
length and allocations failing anywhere. `Balanced` says that what is allocated is
the tree and the keys of the selector, at every step and not only at the end.
`TreeInv` adds to `TreeSound` where the parser stands: every node it will write to
is a table or an array of the tree (`TableIn`, `ArrayIn`), an entry leads to a node
of its class, an array of tables knows its last table. A step that changes the tree
replaces one node and may add fresh ones (`SoundChange`); `GrownKeeps` says that
this disturbs no other node.

Every inductive invariant was checked with TLC on the instance of its run before
it was proved.

Only model-checked:

- liveness, which the prover cannot do: `CallsReturn`, `RequestsReturn`,
  `ProgramsEnd`, `StopsUnlessCutOff`;
- the converters, `EscapesSound`, `StringsConvert` and `NumbersConvert`: they say that
  one reader of a string agrees with another, or with the pieces the string was made
  of, and both are recursive in the string;
- `AcceptsExactlyValues`, whose grammar is recursive in the text;
- `OwnedOnce`: `JsonTree` walks its trees with RECURSIVE operators, which exclude a
  module from proofs.

What would come next are these four: `OwnedOnce` with reachability as a relation in
place of the walks, `AcceptsExactlyValues` with derivations in place of the grammar's
recursion, and the converters by the induction over sets that `TextsProofs` uses.

## Not modelled

- toml.c: doubles and timestamps, which no key of the configuration uses; the
  accessors by index, which read the tree and change nothing; `toml_parse_file`,
  which reads the whole file into a block for `toml_parse`.
- parson.c: serialization of whole trees to strings and files, comments,
  `json_validate`, `json_value_equals`; libnss calls none of them.
- TLS, proxy, authentication and header options of the transfer, which do not
  change the control flow; the wording of log messages; packaging, build files
  and tests, which have no state.
- A clock that is set back, and two users sharing a cache directory.
  `stns_request` with a null path has no caller.

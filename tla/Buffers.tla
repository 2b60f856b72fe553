------------------------------ MODULE Buffers ------------------------------
(***************************************************************************)
(* The growing buffers of libnss: the body of an HTTP response             *)
(* (response_callback), the output of a wrapper command (stns_exec_cmd),   *)
(* a cache file read back (stns_import_file) and the keys the ssh wrapper  *)
(* prints (stns_key_wrapper.c).  A buffer is its capacity, the number of   *)
(* bytes the code believes it holds, and how many leading bytes were       *)
(* really written since the block was allocated.  Every realloc may fail.  *)
(***************************************************************************)
EXTENDS Integers

CONSTANTS
  DEFAULT,    \* STNS_DEFAULT_BUFFER_SIZE: what the callers malloc first
  MAX,        \* STNS_MAX_BUFFER_SIZE: a larger segment is refused
  LINE,       \* MAXBUF: fgets returns lines of at most LINE - 1 bytes
  Segments,   \* sizes of the pieces that may arrive
  MaxPieces   \* bound: pieces per buffer

ASSUME BuffersAssumption ==
  /\ DEFAULT \in Nat \ {0} /\ MAX \in Nat /\ LINE \in Nat
  /\ Segments \subseteq Nat /\ MaxPieces \in Nat

Writers == {"response_callback", "stns_exec_cmd", "stns_import_file", "keys"}

VARIABLES
  fn,       \* which function fills the buffer
  cap,      \* bytes allocated; 0 is the NULL pointer
  size,     \* res->size, total_len or size
  written,  \* leading bytes of the block that hold data of this call
  arrived,  \* history: bytes that arrived and were not given up
  failed,   \* history: some allocation failed
  state,    \* "fill", or how the function ended
  pieces    \* history: pieces taken so far

vars == <<fn, cap, size, written, arrived, failed, state, pieces>>

\* keys = NULL; r.data = malloc(STNS_DEFAULT_BUFFER_SIZE) in the callers, whose
\* result nobody tests.
Init ==
  /\ fn \in Writers
  /\ cap \in {0, DEFAULT} /\ (fn = "keys" => cap = 0)
  /\ failed = (fn # "keys" /\ cap = 0)
  /\ size = 0 /\ written = 0 /\ arrived = 0 /\ pieces = 0
  /\ state = "fill"

\* realloc moves what the block held; a block grown from NULL holds nothing.
Kept(n) == IF written < n THEN written ELSE n

\* Mutant: the piece is copied to the start of the block.
Copy_AtStart(n) == size' = size + n /\ written' = n

\* memcpy/strncpy of n bytes at the end of the data.
Copy(n) ==
  /\ size' = size + n
  /\ written' = IF Kept(cap') >= size THEN size + n ELSE Kept(cap')

Piece(n) ==
  /\ state = "fill" /\ pieces < MaxPieces /\ n \in Segments
  /\ pieces' = pieces + 1 /\ UNCHANGED fn

\* Mutant: the test forgets the byte of the terminator.
response_callback_NoTerminator(n) ==
  /\ fn = "response_callback" /\ Piece(n) /\ n <= MAX
  /\ cap' = IF size + n > DEFAULT THEN size + n ELSE cap
  /\ Copy(n) /\ arrived' = arrived + n /\ UNCHANGED <<failed, state>>

\* A segment of the body.  When realloc fails data is NULL, the old block is
\* lost, size keeps its value and libcurl is told that all went well.
response_callback(n) ==
  /\ fn = "response_callback" /\ Piece(n)
  /\ \/ /\ n > MAX /\ state' = "refused"
        /\ UNCHANGED <<cap, size, written, arrived, failed>>
     \/ /\ n <= MAX /\ arrived' = arrived + n /\ state' = state
        /\ \/ /\ size + n + 1 > DEFAULT /\ cap' = size + n + 1
              /\ Copy(n) /\ UNCHANGED failed
           \/ /\ size + n + 1 > DEFAULT /\ cap' = 0 /\ failed' = TRUE
              /\ written' = 0 /\ UNCHANGED size
           \/ /\ size + n + 1 <= DEFAULT /\ cap # 0
              /\ UNCHANGED <<cap, failed>> /\ Copy(n)
           \/ /\ size + n + 1 <= DEFAULT /\ cap = 0
              /\ UNCHANGED <<cap, size, written, failed>>

\* A line of the command's output; a failed realloc ends the call with 1 and
\* leaves the old block to the caller.
stns_exec_cmd(n) ==
  /\ fn = "stns_exec_cmd" /\ Piece(n) /\ n \in 1..(LINE - 1)
  /\ \/ /\ size + n + 1 > DEFAULT /\ failed' = TRUE /\ state' = "error"
        /\ UNCHANGED <<cap, size, written, arrived>>
     \/ /\ size + n + 1 <= DEFAULT /\ cap = 0 /\ state' = "fault"
        /\ UNCHANGED <<cap, size, written, arrived, failed>>
     \/ /\ size + n + 1 > DEFAULT \/ cap # 0
        /\ cap' = IF size + n + 1 > DEFAULT THEN size + n + 1 ELSE cap
        /\ Copy(n) /\ arrived' = arrived + n /\ UNCHANGED <<failed, state>>

\* A line of the cache file: the block is resized to fit at every line, and
\* the result of realloc is not looked at.
stns_import_file(n) ==
  /\ fn = "stns_import_file" /\ Piece(n) /\ n \in 1..(LINE - 1)
  /\ \/ /\ cap' = 0 /\ failed' = TRUE /\ state' = "fault"
        /\ UNCHANGED <<size, written, arrived>>
     \/ /\ cap' = size + n + 1
        /\ Copy(n) /\ arrived' = arrived + n /\ UNCHANGED <<failed, state>>

\* A key, its newline and the terminator; on a failed realloc the keys of
\* this user that follow are skipped and the block stays as it was.
AppendKey(n) ==
  /\ fn = "keys" /\ Piece(n)
  /\ \/ failed' = TRUE /\ UNCHANGED <<cap, size, written, arrived, state>>
     \/ /\ cap' = size + n + 2 /\ Copy(n + 1) /\ arrived' = arrived + n + 1
        /\ UNCHANGED <<failed, state>>

\* The output of chain_ssh_wrapper (its terminator included) after the keys.
AppendChained(n) ==
  /\ fn = "keys" /\ Piece(n)
  /\ \/ /\ failed' = TRUE /\ state' = "done"
        /\ UNCHANGED <<cap, size, written, arrived>>
     \/ /\ cap' = size + n + 1 /\ Copy(n) /\ arrived' = arrived + n
        /\ state' = "done" /\ UNCHANGED failed

\* End of the transfer, of the command's output, of the file or of the list.
End ==
  /\ state = "fill" /\ state' = "done"
  /\ UNCHANGED <<fn, cap, size, written, arrived, failed, pieces>>

Next ==
  \/ \E n \in Segments :
       \/ response_callback(n) \/ stns_exec_cmd(n) \/ stns_import_file(n)
       \/ AppendKey(n) \/ AppendChained(n)
  \/ End

Spec == Init /\ [][Next]_vars

TypeOK ==
  /\ fn \in Writers /\ cap \in Nat /\ size \in Nat /\ written \in Nat
  /\ arrived \in Nat /\ failed \in BOOLEAN /\ pieces \in Nat
  /\ state \in {"fill", "done", "refused", "error", "fault"}

\* The data and its terminating NUL lie inside the allocated block, whatever
\* the sizes of the pieces and whichever realloc failed (the NULL keys of a
\* user without keys are printed as an empty line and never read).
TerminatorInBlock == cap # 0 => size + 1 <= cap

\* What the code takes for data was really received: nothing is lost and no
\* byte is read before it is written, unless an allocation failed.  (After a
\* failed realloc response_callback goes on with the old size, and the next
\* block starts with bytes nobody wrote.)
AllBytesKept == ~failed => size = arrived /\ written = size
=============================================================================

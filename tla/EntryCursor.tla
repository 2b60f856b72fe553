----------------------------- MODULE EntryCursor -----------------------------
(***************************************************************************)
(* What the enumeration of one NSS database promises its callers: one list *)
(* at a time, handed out one entry after the other, each exactly once and  *)
(* in order, whatever the threads that take turns asking for it.           *)
(***************************************************************************)
EXTENDS Naturals, Sequences

CONSTANT Lengths  \* lengths of the lists that can be loaded

VARIABLES
  size,  \* length of the loaded list, 0 when there is none
  given  \* positions handed out since the list was loaded

cursorVars == <<size, given>>

CursorInit == size = 0 /\ given = << >>

\* setXXent replaces the list; enumeration starts over.
Load == size' \in Lengths /\ given' = << >>

\* endXXent, and setXXent before it loads, drop the list.
Clear == size' = 0 /\ given' = << >>

\* getXXent_r hands out the next entry.
Give ==
  /\ Len(given) < size
  /\ given' = Append(given, Len(given) + 1)
  /\ UNCHANGED size

CursorNext == Load \/ Clear \/ Give

CursorSpec == CursorInit /\ [][CursorNext]_cursorVars
=============================================================================

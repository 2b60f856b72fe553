------------------------------ MODULE MCRequest ------------------------------
(* Instances of Request for TLC. *)
EXTENDS Request, TLC

CONSTANTS p1, p2, p3, alice, short, long, empty

OneUser == [p \in Procs |-> alice]
TwoUsers == [p \in Procs |-> IF p = p1 THEN Root ELSE alice]

\* An answer of one chunk, a longer one of two, and one with an empty body.
OneTwo == [v \in Versions |-> IF v = long THEN 2 ELSE IF v = empty THEN 0 ELSE 1]

InodeSymmetry == Permutations(Inodes)
PathSymmetry == Permutations(Inodes) \cup Permutations(Procs)
                  \cup Permutations(Paths)
OneUserSymmetry == Permutations(Inodes) \cup Permutations(Procs)
=============================================================================

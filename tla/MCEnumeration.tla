---------------------------- MODULE MCEnumeration ----------------------------
(* Instances of Enumeration for TLC. *)
EXTENDS Enumeration, TLC

\* A JSON value that is no array, an empty list, and lists of one and two.
PasswdDocs ==
  {[array |-> FALSE, named |-> << >>]}
    \cup {[array |-> TRUE, named |-> l] :
            l \in {<< >>, <<TRUE>>, <<TRUE, TRUE>>}}

\* The same with a group that has no name before or after a named one.
GroupDocs ==
  {[array |-> FALSE, named |-> << >>]}
    \cup {[array |-> TRUE, named |-> l] :
            l \in {<<TRUE>>, <<TRUE, FALSE>>}}

Symmetry == Permutations(Threads) \cup Permutations(DocIds)
=============================================================================

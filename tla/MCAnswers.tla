----------------------------- MODULE MCAnswers -----------------------------
(* An instance of Answers for TLC. *)
EXTENDS Answers
LOCAL INSTANCE SequencesExt

\* Equal hashes, equal cells, neighbours and the wrap from the last cell.
Hashes == [a |-> 7, b |-> 7, c |-> 6, d |-> 8]

\* A number in the array, an object without a name, and four entries; 0 is also
\* the id of an entry without one, 7 is no int and -1 no id.
E(n, d, r) == [object |-> TRUE, name |-> n, id |-> d, need |-> r]
Elements == { [object |-> FALSE, name |-> NULL, id |-> 0, need |-> 0],
              E(NULL, 1, 2), E("ann", 1, 1), E("ann", 0, 3), E("bob", 7, 1), E("bob", -1, 1) }
TwoElements == SeqOf(Elements, 2)

\* Two objects with up to two of the keys, and an element that is none.
Users(ks) == {[object |-> TRUE, keys |-> s] : s \in SeqOf(ks \cup {NoString}, 2)}
               \cup {[object |-> FALSE, keys |-> <<>>]}
TwoUsers == {<<>>} \cup {<<v>> : v \in Users({"k1", "k2"})}
              \cup {<<v, w>> : v \in Users({"k1", "k2"}), w \in Users({"k3", "k4"})}
OneKey == <<"c1">>
=============================================================================

------------------------------ MODULE JsonMap ------------------------------
(***************************************************************************)
(* What a JSON object promises its users: a map from names to values that  *)
(* changes only as asked, where an operation that needs memory may fail    *)
(* and then changes nothing.                                               *)
(***************************************************************************)
CONSTANTS Keys, Values

VARIABLES map, res

Init == map = <<>> /\ res = "Success"

Failure == res' = "Failure" /\ UNCHANGED map

Put(n, v) ==
  /\ map' = [k \in DOMAIN map \cup {n} |-> IF k = n THEN v ELSE map[k]]
  /\ res' = "Success"

Set(n, v) == Put(n, v) \/ (n \notin DOMAIN map /\ Failure)
Add(n, v) == (n \notin DOMAIN map /\ Put(n, v)) \/ Failure

Remove(n) ==
  \/ /\ n \in DOMAIN map /\ res' = "Success"
     /\ map' = [k \in DOMAIN map \ {n} |-> map[k]]
  \/ n \notin DOMAIN map /\ Failure

Clear == map' = <<>> /\ res' = "Success"

Next ==
  \/ \E n \in Keys, v \in Values : Set(n, v) \/ Add(n, v)
  \/ \E n \in Keys : Remove(n)
  \/ Clear

\* A step of the map, or one that leaves it alone.
Step == [Next]_<<map, res>>

Spec == Init /\ [][Next]_<<map, res>>
=============================================================================

---------------------------- MODULE MC_FastScan -----------------------------
(* Batches of two rows, an outbox of one item, calls of every kind.  The   *)
(* daemon starts with two files, and the index has either the row of a     *)
(* file that has gone in the meantime or the rows of these two.            *)
EXTENDS FastScan, TLC

CONSTANTS d1, a1, a2, b1, b2

MCDirOf == a1 :> Top @@ a2 :> Top @@ b1 :> d1 @@ b2 :> d1

FileSymmetry == Permutations({a1, a2}) \cup Permutations({b1, b2})

Starts == {<<{b1, b2}, {x}>> : x \in {a1, a2}} \cup {<<{a1, a2}, {x}>> : x \in {b1, b2}}
          \cup {<<{x, y}, {x, y}>> : x \in {a1, a2}, y \in {b1, b2}}

MCInit == Init /\ <<files, rows>> \in Starts

MCSpec == MCInit /\ [][Next]_vars
=============================================================================

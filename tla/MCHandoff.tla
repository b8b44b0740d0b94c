----------------------------- MODULE MCHandoff ------------------------------
(***************************************************************************)
(* Instances of Handoff for TLC: three sessions, two of which share a row  *)
(* file, as "b" and "b." do.                                               *)
(***************************************************************************)
EXTENDS Handoff

CONSTANTS A, B, C, FileA, FileB, p1, p2, p3

SharedFile == [s \in {A, B, C} |-> IF s = A THEN FileA ELSE FileB]

Row(s, k, m) == [session |-> s, key |-> k, memory |-> m]
Directory(a, b) == [f \in Files |-> CASE f = FileA -> a [] f = FileB -> b [] OTHER -> NoRow]

OneRow == {Directory(Row(A, 1, {1}), NoRow)}

(* One keyed row beside nothing, a corrupt row, a clone or another keyed   *)
(* row.                                                                    *)
FewRows == OneRow \cup {Directory(Row(A, 1, {1}), r) :
  r \in {Corrupt, Row(B, NoKey, {1}), Row(B, 2, {2}), Row(C, 2, {2})}}

OneMove == [p \in {p1, p2, p3} |->
  CASE p = p1 -> {"move"} [] p = p2 -> {"clone", "capture"} [] p = p3 -> {"capture", "clone"}]

ASSUME OneMoveInstance == OneMover /\ OwnedAtFirst
=============================================================================

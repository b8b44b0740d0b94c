---------------------------- MODULE MCStoreHome ----------------------------
(***************************************************************************)
(* Instances of StoreHome for TLC.                                         *)
(***************************************************************************)
EXTENDS StoreHome

CONSTANTS p1, p2, p3

(* Both hooks, and a command that opens the store or looks at it.          *)
TwoHooks == [p \in Procs |->
  CASE p = p1 -> {"capture"} [] p = p2 -> {"recall"} [] p = p3 -> {"command", "peek"}]

Home(l, b, mode, r, f) ==
  [local |-> l, dir |-> [d \in Dirs |-> IF d[1] = b THEN mode ELSE "absent"],
   rows |-> IF r THEN {b} ELSE {}, log |-> [a \in Bases |-> IF a = b THEN f ELSE None]]

(* A machine that never ran amtr, a store of an older version in ~/.amtr,  *)
(* and one in ~/.local/share, with a long log.                             *)
AnyHome ==
  {Home(l, "amtr", "absent", FALSE, None) : l \in BOOLEAN}
  \cup {Home(FALSE, "amtr", "loose", TRUE, "old"), Home(TRUE, "share", "private", TRUE, "old")}

ASSUME AnyHomeIsSettled == SettledAtFirst
=============================================================================

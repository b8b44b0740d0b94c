-------------------------------- MODULE Shelf --------------------------------
(***************************************************************************)
(* What write_atomic, the claims and the publication of a deadline promise *)
(* to whoever reads the store: a file is there with all of its text or not *)
(* at all, a call that answers has put its text there in one step at some  *)
(* moment before, and one that fails has changed nothing.                  *)
(***************************************************************************)
CONSTANTS
  Procs,
  Names,             \* the files others may read
  Texts,
  SeizedAs(_, _),    \* whether a file may be renamed to another one
  None

VARIABLES
  shelf,   \* the text of each file, or None
  asked    \* the file and text each process wants there, None once they are

vars == <<shelf, asked>>

Init ==
  /\ shelf \in [Names -> Texts \cup {None}]
  /\ asked = [p \in Procs |-> None]

Ask(p, n, t) ==
  /\ asked[p] = None
  /\ asked' = [asked EXCEPT ![p] = <<n, t>>]
  /\ UNCHANGED shelf

Put(p) ==
  /\ asked[p] # None
  /\ shelf' = [shelf EXCEPT ![asked[p][1]] = asked[p][2]]
  /\ asked' = [asked EXCEPT ![p] = None]

(* Errors and deaths, of any number of processes at once.                  *)
Fail ==
  /\ \A p \in Procs : asked'[p] \in {asked[p], None}
  /\ UNCHANGED shelf

Remove(n) ==
  /\ shelf' = [shelf EXCEPT ![n] = None]
  /\ UNCHANGED asked

(* The text moves as it is; who comes second finds nothing to move.        *)
Seize(n, c) ==
  /\ SeizedAs(n, c) /\ shelf[n] # None
  /\ shelf' = [shelf EXCEPT ![c] = shelf[n], ![n] = None]
  /\ UNCHANGED asked

(* What was seized comes back, but never over what came in between.        *)
GiveBack(c, n) ==
  /\ SeizedAs(n, c) /\ shelf[n] = None
  /\ shelf' = [shelf EXCEPT ![n] = shelf[c]]
  /\ UNCHANGED asked

Next ==
  \/ Fail
  \/ \E p \in Procs : Put(p) \/ \E n \in Names, t \in Texts : Ask(p, n, t)
  \/ \E n \in Names : Remove(n) \/ \E c \in Names : Seize(n, c) \/ GiveBack(c, n)

Spec == Init /\ [][Next]_vars
=============================================================================

----------------------------- MODULE MCDelivery -----------------------------
(***************************************************************************)
(* Instances of Delivery for TLC.                                          *)
(***************************************************************************)
EXTENDS Delivery, TLC

Store(m, d, r) == [marker |-> m, deadline |-> d, row |-> r]

(* A session that never compacted.                                         *)
FreshStore == {Store(Missing, None, None)}

(* What an earlier life of the store can leave: no debt, an undelivered     *)
(* snapshot, a debt whose worker was killed, or a marker that does not     *)
(* parse; a deadline that passed, one a wrong clock wrote, or a torn one.  *)
SettledStores == {Store(Missing, d, r) : d \in {None, 0, 9, Garbage}, r \in {None, 0}}
UsedStores == SettledStores \cup {Store(m, d, r) :
  m \in {Malformed, Ongoing(0)}, d \in {None, 0, 9, Garbage}, r \in {0, Garbage}}
AnyStore == UsedStores \cup {Store(Ready(0), d, r) :
  d \in {None, 0, 9, Garbage}, r \in {None, 0, Garbage}}

(* No debt yet, or an undelivered snapshot.                                *)
EarlierStores == FreshStore \cup {Store(Ready(0), None, 0)}

HookSymmetry == Permutations(Hooks)
=============================================================================

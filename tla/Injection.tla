------------------------------ MODULE Injection -----------------------------
(***************************************************************************)
(* What a host may rely on: a snapshot enters a conversation only after a  *)
(* worker declared it ready, and no two hooks inject the same one.  It is  *)
(* not promised that every snapshot is injected.                           *)
(***************************************************************************)
CONSTANTS
  Hooks,      \* whoever can inject, each at most once
  Snapshots,  \* the snapshots of the session
  Earlier,    \* those that were ready before the first step
  None        \* not a snapshot

VARIABLES
  offered,   \* snapshots that were declared ready at some time
  injected   \* what each hook added to the conversation

vars == <<offered, injected>>

Init ==
  /\ offered = Earlier
  /\ injected = [h \in Hooks |-> None]

Offer(k) ==
  /\ offered' = offered \cup {k}
  /\ UNCHANGED injected

Inject(h, k) ==
  /\ k \in offered
  /\ injected[h] = None
  /\ \A g \in Hooks : injected[g] # k
  /\ injected' = [injected EXCEPT ![h] = k]
  /\ UNCHANGED offered

Next == \E k \in Snapshots : Offer(k) \/ \E h \in Hooks : Inject(h, k)

Spec == Init /\ [][Next]_vars
=============================================================================

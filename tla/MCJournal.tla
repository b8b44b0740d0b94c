------------------------------ MODULE MCJournal -----------------------------
(***************************************************************************)
(* Instances of Journal for TLC.                                           *)
(***************************************************************************)
EXTENDS Journal, TLC

CaptureSymmetry == Permutations(Captures)

(* What a capture that is done has read plays no part any more: no step    *)
(* reads it, and the invariants held of it when it ended and stay true as  *)
(* the journal grows, so states that differ in nothing else are one.       *)
AtWork == [s \in {c \in Captures : pc[c] # "done"} |->
            <<prior[s], pos[s], half[s], last[s], seen[s], shed[s]>>]
LiveView == <<journal, partial, row, handoffs, pc, AtWork, torn>>
=============================================================================

--------------------------- MODULE DeliveryProofs ---------------------------
(***************************************************************************)
(* Theorems about Delivery, for every set of hooks, number of debts,       *)
(* budget and leftover store, with overlapping workers, crashes and        *)
(* failing calls allowed; where a theorem needs one of these excluded, its *)
(* ASSUME says so.                                                         *)
(***************************************************************************)
EXTENDS Delivery, TLAPS

USE DEF Debts, Keys, Deadlines, Rows,
        HookSteps, SynthSteps, store, hookLocals, synthLocals, Goto, Advance

LEMMA MarkersTyped ==
  /\ Debts \subseteq Keys
  /\ Missing \in Markers
  /\ \A k \in Keys : Ready(k) \in Markers /\ Ongoing(k) \in Markers
  BY ConstantsAssumption DEF Markers, Missing, Ready, Ongoing

LEMMA InitTyped == Init => TypeOK
  <1> SUFFICES ASSUME Init PROVE TypeOK
    OBVIOUS
  <1>1. marker \in Markers /\ deadline \in Deadlines /\ row \in Rows
    <2>1. PICK s \in Leftovers : marker = s.marker /\ deadline = s.deadline /\ row = s.row
      BY DEF Init
    <2>2. /\ s.marker \in [state : {"missing", "malformed", "ongoing", "ready"}, by : {0}]
          /\ s.deadline \in Deadlines
          /\ s.row \in {0, None, Garbage}
      BY <2>1, ConstantsAssumption
    <2> QED
      BY <2>1, <2>2, ConstantsAssumption DEF Markers
  <1> QED
    BY <1>1, ConstantsAssumption, MarkersTyped DEF Init, TypeOK

LEMMA ReaderTyped ==
  ASSUME TypeOK, NEW h \in Hooks,
         \/ ReadMarker(h) \/ ReadClock(h) \/ CreateCandidate(h) \/ LinkDeadline(h)
         \/ JoinWindow(h) \/ Sleep(h) \/ Poll(h) \/ Recheck(h)
  PROVE  TypeOK'
  <1> USE DEF TypeOK
  <1>1. CASE ReadMarker(h)
    BY <1>1 DEF ReadMarker, ExpectOrFold, Markers
  <1>2. CASE ReadClock(h)
    BY <1>2, ConstantsAssumption DEF ReadClock
  <1>3. CASE CreateCandidate(h)
    BY <1>3 DEF CreateCandidate
  <1>4. CASE LinkDeadline(h)
    <2>1. deadline' \in Nat \cup {None, Garbage}
      BY <1>4 DEF LinkDeadline
    <2>2. pc' \in [Hooks -> HookSteps] /\ candidate' \subseteq Hooks
      BY <1>4 DEF LinkDeadline
    <2> QED
      BY <1>4, <2>1, <2>2 DEF LinkDeadline
  <1>5. CASE JoinWindow(h)
    BY <1>5 DEF JoinWindow, WindowUsable
  <1>6. CASE Sleep(h)
    BY <1>6 DEF Sleep, vars
  <1>7. CASE Poll(h)
    BY <1>7 DEF Poll
  <1>8. CASE Recheck(h)
    BY <1>8 DEF Recheck, ExpectOrFold, Markers
  <1> QED
    BY <1>1, <1>2, <1>3, <1>4, <1>5, <1>6, <1>7, <1>8

LEMMA ClaimantTyped ==
  ASSUME TypeOK, NEW h \in Hooks,
         \/ ClaimMarker(h) \/ FoldDebt(h) \/ CheckHeld(h) \/ LoadRow(h) \/ JudgeClaim(h)
         \/ RestoreClaim(h) \/ DischargeClaim(h) \/ ExpireClaim(h) \/ DropRestored(h)
         \/ CloseWindow(h) \/ LapseWindow(h) \/ PrintOutput(h)
         \/ ReadFails(h) \/ StopHook(h)
  PROVE  TypeOK'
  <1> USE DEF TypeOK
  <1>1. CASE ClaimMarker(h) \/ FoldDebt(h)
    <2>1. marker' \in Markers /\ claim' \in [Hooks -> Markers] /\ pc' \in [Hooks -> HookSteps]
      BY <1>1, MarkersTyped DEF ClaimMarker, FoldDebt, RenameMarker
    <2> QED
      BY <1>1, <2>1 DEF ClaimMarker, FoldDebt, RenameMarker
  <1>2. CASE CheckHeld(h)
    BY <1>2 DEF CheckHeld
  <1>3. CASE LoadRow(h)
    BY <1>3 DEF LoadRow
  <1>4. CASE JudgeClaim(h)
    BY <1>4 DEF JudgeClaim
  <1>5. CASE RestoreClaim(h)
    <2>1. claim[h] \in Markers
      OBVIOUS
    <2>2. marker' \in {marker, claim[h]}
      BY <1>5 DEF RestoreClaim
    <2>3. pc' \in [Hooks -> HookSteps]
      BY <1>5 DEF RestoreClaim
    <2> QED
      BY <1>5, <2>1, <2>2, <2>3 DEF RestoreClaim
  <1>6. CASE DischargeClaim(h) \/ ExpireClaim(h) \/ DropRestored(h)
    <2>1. PICK to \in {"close", "lapse", "done"} : RemovePending(h, pc[h], to)
      BY <1>6 DEF DischargeClaim, ExpireClaim, DropRestored, RemovePending
    <2>2. claim' \in [Hooks -> Markers] /\ pc' \in [Hooks -> HookSteps]
      BY <2>1, MarkersTyped DEF RemovePending
    <2> QED
      BY <2>1, <2>2 DEF RemovePending
  <1>7. CASE CloseWindow(h) \/ LapseWindow(h)
    BY <1>7 DEF CloseWindow, LapseWindow, RemoveDeadline
  <1>8. CASE PrintOutput(h)
    BY <1>8 DEF PrintOutput
  <1>9. CASE ReadFails(h)
    <2>1. AfterFailedRead[pc[h]] \in HookSteps
      BY <1>9 DEF ReadFails, AfterFailedRead
    <2> QED
      BY <1>9, <2>1 DEF ReadFails
  <1>10. CASE StopHook(h)
    BY <1>10 DEF StopHook
  <1> QED
    BY <1>1, <1>2, <1>3, <1>4, <1>5, <1>6, <1>7, <1>8, <1>9, <1>10

LEMMA HookTyped ==
  ASSUME TypeOK, NEW h \in Hooks, HookStep(h)
  PROVE  TypeOK'
  BY ReaderTyped, ClaimantTyped DEF HookStep, Proceed

LEMMA SynthTyped ==
  ASSUME TypeOK, NEW s \in Debts, SynthStep(s)
  PROVE  TypeOK'
  <1> USE DEF TypeOK
  <1>1. CASE Begin(s)
    BY <1>1 DEF Begin
  <1>2. CASE ClearDeadline(s)
    BY <1>2 DEF ClearDeadline
  <1>3. CASE ListScraps(s)
    <2>1. Scraps \subseteq Hooks \X {"claim", "candidate"}
      BY DEF Scraps, Claims
    <2>2. step' \in [Debts -> SynthSteps]
      BY <1>3 DEF ListScraps
    <2> QED
      BY <1>3, <2>1, <2>2 DEF ListScraps
  <1>4. CASE Sweep(s)
    <2>1. claim' \in [Hooks -> Markers] /\ candidate' \subseteq Hooks
      BY <1>4, MarkersTyped DEF Sweep, Claims
    <2> QED
      BY <1>4, <2>1 DEF Sweep
  <1>5. CASE EndSweep(s)
    BY <1>5 DEF EndSweep
  <1>6. CASE MarkOngoing(s)
    <2>1. marker' \in Markers /\ step' \in [Debts -> SynthSteps]
      BY <1>6, MarkersTyped DEF MarkOngoing
    <2> QED
      BY <1>6, <2>1 DEF MarkOngoing
  <1>7. CASE Detach(s) \/ CannotDetach(s) \/ Extract(s)
    BY <1>7 DEF Detach, CannotDetach, Extract
  <1>8. CASE SaveRow(s)
    <2>1. row' \in Rows /\ step' \in [Debts -> SynthSteps]
      BY <1>8, MarkersTyped DEF SaveRow
    <2> QED
      BY <1>8, <2>1 DEF SaveRow
  <1>9. CASE MarkReady(s)
    <2>1. marker' \in Markers /\ published' \subseteq Debts /\ step' \in [Debts -> SynthSteps]
      BY <1>9, MarkersTyped DEF MarkReady
    <2> QED
      BY <1>9, <2>1 DEF MarkReady
  <1>10. CASE DropMarker(s)
    BY <1>10, MarkersTyped DEF DropMarker
  <1>11. CASE StopSynth(s)
    BY <1>11 DEF StopSynth
  <1> QED
    BY <1>1, <1>2, <1>3, <1>4, <1>5, <1>6, <1>7, <1>8, <1>9, <1>10, <1>11
    DEF SynthStep

(* Every variable keeps its type: a joined window is a number, whatever    *)
(* the deadline file held, and a claim is one of the marker's readings.    *)
THEOREM TypeCorrect == Spec => []TypeOK
  <1>1. TypeOK /\ [Next]_vars => TypeOK'
    <2> SUFFICES ASSUME TypeOK, [Next]_vars PROVE TypeOK'
      OBVIOUS
    <2>1. CASE \E h \in Hooks : HookStep(h)
      BY <2>1, HookTyped
    <2>2. CASE \E s \in Debts : SynthStep(s)
      BY <2>2, SynthTyped
    <2>3. CASE Tick
      BY <2>3 DEF Tick, TypeOK
    <2>4. CASE Finished \/ UNCHANGED vars
      BY <2>4 DEF Finished, vars, TypeOK
    <2> QED
      BY <2>1, <2>2, <2>3, <2>4 DEF Next
  <1> QED
    BY <1>1, InitTyped, PTL DEF Spec

-----------------------------------------------------------------------------
LEMMA ReadyFacts ==
  /\ \A j, k \in Keys : Ready(j) = Ready(k) => j = k
  /\ \A k \in Keys : Ready(k) # Missing /\ \A s \in Debts : Ready(k) # Ongoing(s)
  /\ \A m \in Markers : m.state = "ready" => m.by \in Keys /\ m = Ready(m.by)
  BY DEF Ready, Missing, Ongoing, Markers

(* A hook moves no other hook.                                             *)
LEMMA HookFrame ==
  ASSUME TypeOK, NEW h \in Hooks, HookStep(h), NEW g \in Hooks, g # h
  PROVE  /\ pc'[g] = pc[g] /\ claim'[g] = claim[g]
         /\ expected'[g] = expected[g] /\ out'[g] = out[g]
  <1> USE DEF TypeOK
  <1>1. CASE ReadMarker(h) \/ Recheck(h)
    BY <1>1 DEF ReadMarker, Recheck, ExpectOrFold
  <1>2. CASE ReadClock(h) \/ CreateCandidate(h) \/ LinkDeadline(h) \/ JoinWindow(h)
    BY <1>2 DEF ReadClock, CreateCandidate, LinkDeadline, JoinWindow
  <1>3. CASE Sleep(h) \/ Poll(h)
    BY <1>3 DEF Sleep, Poll, vars
  <1>4. CASE ClaimMarker(h) \/ FoldDebt(h)
    BY <1>4 DEF ClaimMarker, FoldDebt, RenameMarker
  <1>5. CASE CheckHeld(h) \/ LoadRow(h) \/ JudgeClaim(h)
    BY <1>5 DEF CheckHeld, LoadRow, JudgeClaim
  <1>6. CASE RestoreClaim(h)
    BY <1>6 DEF RestoreClaim
  <1>7. CASE DischargeClaim(h) \/ ExpireClaim(h) \/ DropRestored(h)
    BY <1>7 DEF DischargeClaim, ExpireClaim, DropRestored, RemovePending
  <1>8. CASE CloseWindow(h) \/ LapseWindow(h) \/ PrintOutput(h)
    BY <1>8 DEF CloseWindow, LapseWindow, RemoveDeadline, PrintOutput
  <1>9. CASE ReadFails(h) \/ StopHook(h)
    BY <1>9 DEF ReadFails, StopHook
  <1> QED
    BY <1>1, <1>2, <1>3, <1>4, <1>5, <1>6, <1>7, <1>8, <1>9 DEF HookStep, Proceed

(* A hook takes a token only from the marker, and never keeps one it put   *)
(* back.                                                                   *)
Moves(h) ==
  \A k \in Keys :
    /\ marker' = Ready(k) \/ Holds(h, k)' => marker = Ready(k) \/ Holds(h, k)
    /\ ~(marker' = Ready(k) /\ Holds(h, k)')

LEMMA WaitMoves ==
  ASSUME TypeOK, DeliveryInv, NEW h \in Hooks,
         \/ ReadMarker(h) \/ ReadClock(h) \/ CreateCandidate(h) \/ LinkDeadline(h)
         \/ JoinWindow(h) \/ Sleep(h) \/ Poll(h) \/ Recheck(h)
         \/ CloseWindow(h) \/ LapseWindow(h) \/ StopHook(h)
  PROVE  Moves(h)
  <1> SUFFICES ASSUME marker' = marker, \A k \in Keys : Holds(h, k)' => Holds(h, k)
               PROVE  Moves(h)
    <2>1. marker' = marker /\ claim' = claim /\ out' = out
      BY DEF ReadMarker, ReadClock, CreateCandidate, LinkDeadline, JoinWindow, Sleep, Poll,
             Recheck, CloseWindow, LapseWindow, RemoveDeadline, StopHook, vars
    <2>2. \/ pc'[h] \notin {"held", "judge", "restore", "load", "discharge", "close", "print"}
          \/ pc[h] = "close" /\ pc'[h] = "print" /\ expected' = expected
          \/ pc' = pc /\ expected' = expected
      <3> USE DEF TypeOK
      <3>1. CASE ReadMarker(h) \/ Recheck(h)
        BY <3>1 DEF ReadMarker, Recheck, ExpectOrFold
      <3>2. CASE ReadClock(h) \/ CreateCandidate(h) \/ LinkDeadline(h) \/ JoinWindow(h)
        BY <3>2 DEF ReadClock, CreateCandidate, LinkDeadline, JoinWindow
      <3>3. CASE Sleep(h) \/ Poll(h)
        BY <3>3 DEF Sleep, Poll, vars
      <3>4. CASE CloseWindow(h) \/ LapseWindow(h)
        BY <3>4 DEF CloseWindow, LapseWindow, RemoveDeadline
      <3>5. CASE StopHook(h)
        BY <3>5 DEF StopHook
      <3> QED
        BY <3>1, <3>2, <3>3, <3>4, <3>5
    <2> QED
      BY <2>1, <2>2 DEF Holds, Carries
  <1> QED
    BY DEF Moves, DeliveryInv, OneToken

LEMMA ClaimMoves ==
  ASSUME TypeOK, DeliveryInv, NEW h \in Hooks,
         \/ ClaimMarker(h) \/ FoldDebt(h) \/ CheckHeld(h) \/ LoadRow(h) \/ JudgeClaim(h)
         \/ RestoreClaim(h) \/ DischargeClaim(h) \/ ExpireClaim(h) \/ DropRestored(h)
         \/ PrintOutput(h) \/ ReadFails(h)
  PROVE  Moves(h)
  <1> USE ReadyFacts DEF TypeOK
  <1>1. \A k \in Keys : Holds(h, k) => marker # Ready(k)
    BY DEF DeliveryInv, OneToken
  <1>2. pc[h] \in {"load", "discharge"} => claim[h] \in {Missing, Ready(expected[h])}
    BY DEF DeliveryInv, ExactDischarge
  <1>3. pc[h] # "done" => \A k \in Keys : out[h] # k
    BY ConstantsAssumption DEF DeliveryInv, PrintedIsOver
  <1>4. CASE ClaimMarker(h) \/ FoldDebt(h)
    BY <1>1, <1>4 DEF ClaimMarker, FoldDebt, RenameMarker, Moves, Holds, Carries
  <1>5. CASE CheckHeld(h)
    BY <1>1, <1>5 DEF CheckHeld, Moves, Holds, Carries
  <1>6. CASE LoadRow(h)
    BY <1>1, <1>2, <1>6 DEF LoadRow, Moves, Holds, Carries
  <1>7. CASE JudgeClaim(h)
    BY <1>1, <1>7 DEF JudgeClaim, Moves, Holds, Carries
  <1>8. CASE RestoreClaim(h)
    BY <1>1, <1>3, <1>8 DEF RestoreClaim, Moves, Holds, Carries
  <1>9. CASE DischargeClaim(h) \/ ExpireClaim(h) \/ DropRestored(h)
    BY <1>1, <1>9 DEF DischargeClaim, ExpireClaim, DropRestored, RemovePending,
                      Moves, Holds, Carries
  <1>10. CASE PrintOutput(h)
    BY <1>1, <1>10 DEF PrintOutput, Moves, Holds, Carries
  <1>11. CASE ReadFails(h)
    <2>1. /\ pc' = [pc EXCEPT ![h] = AfterFailedRead[pc[h]]]
          /\ UNCHANGED <<marker, claim, expected, out>>
      BY <1>11 DEF ReadFails
    <2>2. \/ AfterFailedRead[pc[h]] \notin {"held", "judge", "restore", "load", "discharge", "close", "print"}
          \/ pc[h] \in {"held", "load"} /\ AfterFailedRead[pc[h]] = "restore"
      BY <1>11 DEF ReadFails, AfterFailedRead
    <2> QED
      BY <1>1, <1>2, <2>1, <2>2 DEF Moves, Holds, Carries
  <1> QED
    BY <1>4, <1>5, <1>6, <1>7, <1>8, <1>9, <1>10, <1>11

LEMMA HookMoves ==
  ASSUME TypeOK, DeliveryInv, NEW h \in Hooks, HookStep(h)
  PROVE  Moves(h)
  BY WaitMoves, ClaimMoves DEF HookStep, Proceed

LEMMA HookKeepsSynth ==
  ASSUME NEW h \in Hooks, HookStep(h)
  PROVE  step' = step /\ published' = published
  BY DEF HookStep, Proceed, ReadMarker, ReadClock, CreateCandidate, LinkDeadline, JoinWindow,
         Sleep, vars, Poll, Recheck, ClaimMarker, FoldDebt, RenameMarker, CheckHeld, LoadRow,
         JudgeClaim, RestoreClaim, DischargeClaim, ExpireClaim, DropRestored, RemovePending,
         CloseWindow, LapseWindow, RemoveDeadline, PrintOutput, ReadFails, StopHook

(* The two local conjuncts: printing is a hook's last step, and a hook     *)
(* reaches "load" only with the file it compared.                          *)
LEMMA HookKeepsLocal ==
  ASSUME TypeOK, DeliveryInv, NEW h \in Hooks, HookStep(h)
  PROVE  /\ out'[h] # None => pc'[h] = "done"
         /\ pc'[h] \in {"load", "discharge"} => claim'[h] \in {Missing, Ready(expected'[h])}
  <1> USE DEF TypeOK
  <1>1. out[h] # None => pc[h] = "done"
    BY DEF DeliveryInv, PrintedIsOver
  <1>2. pc[h] \in {"load", "discharge"} => claim[h] \in {Missing, Ready(expected[h])}
    BY DEF DeliveryInv, ExactDischarge
  <1>3. CASE ReadMarker(h) \/ Recheck(h)
    BY <1>1, <1>3 DEF ReadMarker, Recheck, ExpectOrFold
  <1>4. CASE ReadClock(h) \/ CreateCandidate(h) \/ LinkDeadline(h) \/ JoinWindow(h)
    BY <1>1, <1>4 DEF ReadClock, CreateCandidate, LinkDeadline, JoinWindow
  <1>5. CASE Sleep(h) \/ Poll(h)
    BY <1>1, <1>2, <1>5 DEF Sleep, Poll, vars
  <1>6. CASE ClaimMarker(h) \/ FoldDebt(h)
    BY <1>1, <1>6 DEF ClaimMarker, FoldDebt, RenameMarker
  <1>7. CASE CheckHeld(h) \/ LoadRow(h) \/ JudgeClaim(h)
    BY <1>1, <1>2, <1>7 DEF CheckHeld, LoadRow, JudgeClaim
  <1>8. CASE RestoreClaim(h)
    BY <1>1, <1>8 DEF RestoreClaim
  <1>9. CASE DischargeClaim(h) \/ ExpireClaim(h) \/ DropRestored(h)
    BY <1>1, <1>9 DEF DischargeClaim, ExpireClaim, DropRestored, RemovePending
  <1>10. CASE CloseWindow(h) \/ LapseWindow(h) \/ PrintOutput(h)
    BY <1>1, <1>10 DEF CloseWindow, LapseWindow, RemoveDeadline, PrintOutput
  <1>11. CASE ReadFails(h)
    <2>1. pc[h] # "done" /\ AfterFailedRead[pc[h]] \notin {"load", "discharge"}
      BY <1>11 DEF ReadFails, AfterFailedRead
    <2>2. out' = out /\ pc' = [pc EXCEPT ![h] = AfterFailedRead[pc[h]]]
      BY <1>11 DEF ReadFails
    <2> QED
      BY <1>1, <2>1, <2>2
  <1>12. CASE StopHook(h)
    BY <1>1, <1>12 DEF StopHook
  <1> QED
    BY <1>3, <1>4, <1>5, <1>6, <1>7, <1>8, <1>9, <1>10, <1>11, <1>12 DEF HookStep, Proceed

LEMMA HookKeepsInv ==
  ASSUME TypeOK, DeliveryInv, NEW h \in Hooks, HookStep(h)
  PROVE  DeliveryInv'
  <1> USE DEF TypeOK
  <1>1. Moves(h)
    BY HookMoves
  <1>2. \A g \in Hooks, k \in Keys : g # h => (Holds(g, k)' <=> Holds(g, k))
    BY HookFrame DEF Holds, Carries
  <1>3. OneToken'
    <2> SUFFICES ASSUME NEW k \in Keys, NEW g \in Hooks, Holds(g, k)'
                 PROVE  marker' # Ready(k) /\ \A f \in Hooks : Holds(f, k)' => g = f
      BY DEF OneToken
    <2>1. marker' # Ready(k)
      BY <1>1, <1>2 DEF Moves, DeliveryInv, OneToken
    <2>2. ASSUME NEW f \in Hooks, Holds(f, k)' PROVE g = f
      BY <1>1, <1>2, <2>2 DEF Moves, DeliveryInv, OneToken
    <2> QED
      BY <2>1, <2>2
  <1>4. step' = step /\ published' = published
    BY HookKeepsSynth
  <1>5. TokenIsOffered'
    <2> SUFFICES ASSUME NEW k \in Keys, marker' = Ready(k) \/ \E g \in Hooks : Holds(g, k)'
                 PROVE  k \in {0} \cup published
      BY <1>4 DEF TokenIsOffered
    <2>1. marker = Ready(k) \/ \E g \in Hooks : Holds(g, k)
      BY <1>1, <1>2 DEF Moves
    <2> QED
      BY <2>1 DEF DeliveryInv, TokenIsOffered
  <1>6. OfferedIsOver'
    BY <1>4 DEF DeliveryInv, OfferedIsOver
  <1>7. PrintedIsOver' /\ ExactDischarge'
    <2> SUFFICES ASSUME NEW g \in Hooks
                 PROVE  /\ out'[g] # None => pc'[g] = "done"
                        /\ pc'[g] \in {"load", "discharge"}
                             => claim'[g] \in {Missing, Ready(expected'[g])}
      BY DEF PrintedIsOver, ExactDischarge, Ready
    <2>1. CASE g = h
      BY <2>1, HookKeepsLocal
    <2>2. CASE g # h
      BY <2>2, HookFrame DEF DeliveryInv, PrintedIsOver, ExactDischarge
    <2> QED
      BY <2>1, <2>2
  <1> QED
    BY <1>3, <1>5, <1>6, <1>7 DEF DeliveryInv

LEMMA SynthKeepsInv ==
  ASSUME TypeOK, DeliveryInv, NEW s \in Debts, SynthStep(s)
  PROVE  DeliveryInv'
  <1> USE ReadyFacts DEF TypeOK
  <1>1. pc' = pc /\ expected' = expected /\ out' = out
    BY DEF SynthStep, Begin, ClearDeadline, ListScraps, Sweep, EndSweep, MarkOngoing, Detach,
           CannotDetach, Extract, SaveRow, MarkReady, DropMarker, StopSynth
  <1>2. \A h \in Hooks : claim'[h] \in {Missing, claim[h]}
    BY DEF SynthStep, Begin, ClearDeadline, ListScraps, Sweep, Claims, EndSweep, MarkOngoing,
           Detach, CannotDetach, Extract, SaveRow, MarkReady, DropMarker, StopSynth
  <1>3. \A h \in Hooks, k \in Keys : Holds(h, k)' => Holds(h, k)
    BY <1>1, <1>2 DEF Holds, Carries
  <1>4. PrintedIsOver' /\ ExactDischarge'
    BY <1>1, <1>2 DEF DeliveryInv, PrintedIsOver, ExactDischarge, Ready
  <1>5. \/ marker' \in {marker, Missing, Ongoing(s)} /\ published' = published
        \/ /\ step[s] = "publish"
           /\ marker' = Ready(s)
           /\ published' = published \cup {s}
           /\ step'[s] = "done"
    BY DEF SynthStep, Begin, ClearDeadline, ListScraps, Sweep, EndSweep, MarkOngoing, Detach,
           CannotDetach, Extract, SaveRow, MarkReady, DropMarker, StopSynth
  <1>6. \A r \in Debts : step[r] = "done" => step'[r] = "done"
    BY DEF SynthStep, Begin, ClearDeadline, ListScraps, Sweep, EndSweep, MarkOngoing, Detach,
           CannotDetach, Extract, SaveRow, MarkReady, DropMarker, StopSynth
  <1>7. OfferedIsOver'
    <2>1. published \subseteq Debts /\ \A r \in published : step[r] = "done"
      BY DEF DeliveryInv, OfferedIsOver
    <2>2. published' = published \/ (published' = published \cup {s} /\ step'[s] = "done")
      BY <1>5
    <2> QED
      BY <1>6, <2>1, <2>2 DEF OfferedIsOver
  <1>8. s \in Keys /\ s # 0
    BY ConstantsAssumption
  <1>9. step[s] = "publish" => \A h \in Hooks : ~Holds(h, s)
    BY <1>8 DEF DeliveryInv, OfferedIsOver, TokenIsOffered
  <1>10. OneToken'
    <2> SUFFICES ASSUME NEW k \in Keys, NEW g \in Hooks, Holds(g, k)'
                 PROVE  marker' # Ready(k) /\ \A h \in Hooks : Holds(h, k)' => g = h
      BY DEF OneToken
    <2>1. Holds(g, k)
      BY <1>3
    <2>2. \A h \in Hooks : Holds(h, k)' => g = h
      BY <1>3, <2>1 DEF DeliveryInv, OneToken
    <2>3. marker # Ready(k)
      BY <2>1 DEF DeliveryInv, OneToken
    <2>4. marker' # Ready(k)
      BY <1>5, <1>8, <1>9, <2>1, <2>3
    <2> QED
      BY <2>2, <2>4
  <1>11. TokenIsOffered'
    BY <1>3, <1>5, <1>8 DEF DeliveryInv, TokenIsOffered
  <1> QED
    BY <1>4, <1>7, <1>10, <1>11 DEF DeliveryInv

(* A ready snapshot is one token, in the marker or with one hook, in every *)
(* reachable state: the invariant the theorems below rest on.              *)
THEOREM InvCorrect == Spec => []DeliveryInv
  <1>1. Init => DeliveryInv
    <2> SUFFICES ASSUME Init PROVE DeliveryInv
      OBVIOUS
    <2>1. \A h \in Hooks, k \in Keys : ~Holds(h, k)
      BY ConstantsAssumption DEF Init, Holds, Carries
    <2>2. \A k \in Keys : marker = Ready(k) => k = 0
      <3>1. PICK s \in Leftovers : marker = s.marker
        BY DEF Init
      <3>2. s.marker \in [state : {"missing", "malformed", "ongoing", "ready"}, by : {0}]
        BY ConstantsAssumption
      <3>3. marker.by = 0
        BY <3>1, <3>2
      <3> QED
        BY <3>3 DEF Ready
    <2> QED
      BY <2>1, <2>2 DEF Init, DeliveryInv, OneToken, TokenIsOffered, OfferedIsOver,
                        PrintedIsOver, ExactDischarge
  <1>2. TypeOK /\ DeliveryInv /\ [Next]_vars => DeliveryInv'
    <2> SUFFICES ASSUME TypeOK, DeliveryInv, [Next]_vars PROVE DeliveryInv'
      OBVIOUS
    <2>1. CASE \E h \in Hooks : HookStep(h)
      BY <2>1, HookKeepsInv
    <2>2. CASE \E s \in Debts : SynthStep(s)
      BY <2>2, SynthKeepsInv
    <2>3. CASE Tick \/ Finished \/ UNCHANGED vars
      BY <2>3 DEF Tick, Finished, vars, DeliveryInv, OneToken, TokenIsOffered, OfferedIsOver,
                  PrintedIsOver, ExactDischarge, Holds, Carries
    <2> QED
      BY <2>1, <2>2, <2>3 DEF Next
  <1> QED
    BY <1>1, <1>2, TypeCorrect, PTL DEF Spec

(* No snapshot is printed by two hooks.                                    *)
THEOREM DeliveredAtMostOnce == Spec => []AtMostOnce
  <1>1. TypeOK /\ DeliveryInv => AtMostOnce
    BY DEF TypeOK, DeliveryInv, OneToken, Holds, AtMostOnce
  <1> QED
    BY <1>1, TypeCorrect, InvCorrect, PTL

(* What a hook removes when it delivers is the marker of the snapshot it   *)
(* delivers.                                                               *)
THEOREM DischargesExactly == Spec => []ExactDischarge
  BY InvCorrect, PTL DEF DeliveryInv

-----------------------------------------------------------------------------
LEMMA HookRefines ==
  ASSUME TypeOK, DeliveryInv, NEW h \in Hooks, HookStep(h)
  PROVE  Abstract!Next \/ UNCHANGED Abstract!vars
  <1> USE DEF TypeOK
  <1>1. published' = published
    BY HookKeepsSynth
  <1>2. CASE PrintOutput(h)
    <2> DEFINE k == expected[h]
    <2>1. k \in Keys /\ Holds(h, k) /\ pc[h] = "print"
      BY <1>2 DEF PrintOutput, Holds, Carries
    <2>2. k \in {0} \cup published
      BY <2>1 DEF DeliveryInv, TokenIsOffered
    <2>3. out[h] = None
      BY <2>1 DEF DeliveryInv, PrintedIsOver
    <2>4. \A g \in Hooks : out[g] # k
      BY <2>1, <2>3, ConstantsAssumption DEF DeliveryInv, OneToken, Holds
    <2>5. out' = [out EXCEPT ![h] = k]
      BY <1>2 DEF PrintOutput
    <2>6. Abstract!Inject(h, k)
      BY <1>1, <2>2, <2>3, <2>4, <2>5 DEF Abstract!Inject
    <2> QED
      BY <2>1, <2>6 DEF Abstract!Next
  <1>3. CASE ~PrintOutput(h)
    <2>1. out' = out
      BY <1>3 DEF HookStep, Proceed, ReadMarker, ReadClock, CreateCandidate, LinkDeadline,
           JoinWindow, Sleep, vars, Poll, Recheck, ClaimMarker, FoldDebt, RenameMarker, CheckHeld,
           LoadRow, JudgeClaim, RestoreClaim, DischargeClaim, ExpireClaim, DropRestored,
           RemovePending, CloseWindow, LapseWindow, RemoveDeadline, ReadFails, StopHook
    <2> QED
      BY <1>1, <2>1 DEF Abstract!vars
  <1> QED
    BY <1>2, <1>3

LEMMA SynthRefines ==
  ASSUME TypeOK, NEW s \in Debts, SynthStep(s)
  PROVE  Abstract!Next \/ UNCHANGED Abstract!vars
  <1>1. out' = out /\ (published' = published \/ published' = published \cup {s})
    BY DEF SynthStep, Begin, ClearDeadline, ListScraps, Sweep, EndSweep, MarkOngoing, Detach,
           CannotDetach, Extract, SaveRow, MarkReady, DropMarker, StopSynth
  <1>2. CASE published' = published
    BY <1>1, <1>2 DEF Abstract!vars
  <1>3. CASE published' = published \cup {s}
    <2>1. Abstract!Offer(s)
      BY <1>1, <1>3 DEF Abstract!Offer
    <2> QED
      BY <2>1, MarkersTyped DEF Abstract!Next
  <1> QED
    BY <1>1, <1>2, <1>3

(* The protocol implements Injection, under the mapping of Delivery.       *)
THEOREM DeliveryRefinesInjection == Spec => ImplementsInjection
  <1>1. Init => Abstract!Init
    BY DEF Init, Abstract!Init
  <1>2. TypeOK /\ DeliveryInv /\ [Next]_vars => [Abstract!Next]_(Abstract!vars)
    <2> SUFFICES ASSUME TypeOK, DeliveryInv, [Next]_vars
                 PROVE  Abstract!Next \/ UNCHANGED Abstract!vars
      OBVIOUS
    <2>1. CASE \E h \in Hooks : HookStep(h)
      BY <2>1, HookRefines
    <2>2. CASE \E s \in Debts : SynthStep(s)
      BY <2>2, SynthRefines
    <2>3. CASE Tick \/ Finished \/ UNCHANGED vars
      BY <2>3 DEF Tick, Finished, vars, Abstract!vars
    <2> QED
      BY <2>1, <2>2, <2>3 DEF Next
  <1> QED
    BY <1>1, <1>2, TypeCorrect, InvCorrect, PTL DEF Spec, ImplementsInjection, Abstract!Spec

-----------------------------------------------------------------------------
(* Captures that do not overlap run one after another, and the stored row  *)
(* only gets newer.                                                        *)
OneAfterAnother == \A s, t \in Debts : s < t /\ step[t] # "idle" => step[s] = "done"

RowIsAhead ==
  /\ \A k \in published : row \in Keys /\ k <= row
  /\ \A s \in Debts : step[s] = "publish" => row \in Keys /\ s <= row

SequenceInv == OneAfterAnother /\ RowIsAhead

LEMMA StepFrame ==
  ASSUME TypeOK, NEW s \in Debts, SynthStep(s)
  PROVE  /\ \A t \in Debts : t # s => step'[t] = step[t]
         /\ step[s] # "done"
         /\ step[s] = "idle" => MayBegin(s)
  BY DEF TypeOK, SynthStep, Begin, ClearDeadline, ListScraps, Sweep, EndSweep, MarkOngoing,
         Detach, CannotDetach, Extract, SaveRow, MarkReady, DropMarker, StopSynth

LEMMA SynthKeepsOrder ==
  ASSUME ~Overlap, TypeOK, OneAfterAnother, NEW s \in Debts, SynthStep(s)
  PROVE  OneAfterAnother'
  <1> SUFFICES ASSUME NEW r \in Debts, NEW t \in Debts, r < t, step'[t] # "idle"
               PROVE  step'[r] = "done"
    BY DEF OneAfterAnother
  <1>1. step[t] # "idle" => step[r] = "done"
    BY DEF OneAfterAnother
  <1>2. CASE t # s
    BY <1>1, <1>2, StepFrame
  <1>3. CASE t = s /\ step[s] # "idle"
    BY <1>1, <1>3, StepFrame, ConstantsAssumption
  <1>4. CASE t = s /\ step[s] = "idle"
    <2>1. s - 1 \in Debts /\ r <= s - 1 /\ r \in Nat /\ s \in Nat
      BY <1>4, ConstantsAssumption
    <2>2. step[s - 1] = "done"
      BY <1>4, <2>1, StepFrame, ConstantsAssumption DEF MayBegin, TypeOK
    <2>3. step[r] = "done"
      BY <2>1, <2>2 DEF OneAfterAnother
    <2> QED
      BY <1>4, <2>1, <2>3, StepFrame
  <1> QED
    BY <1>2, <1>3, <1>4

LEMMA SynthKeepsRow ==
  ASSUME TypeOK, DeliveryInv, SequenceInv, NEW s \in Debts, SynthStep(s)
  PROVE  RowIsAhead'
  <1> USE ConstantsAssumption DEF TypeOK, SequenceInv, RowIsAhead
  <1>1. CASE SaveRow(s)
    <2>1. \A k \in published : k <= s
      <3> SUFFICES ASSUME NEW k \in published, s < k PROVE FALSE
        BY DEF TypeOK
      <3>1. k \in Debts /\ step[k] = "done"
        BY DEF DeliveryInv, OfferedIsOver
      <3> QED
        BY <1>1, <3>1 DEF SaveRow, OneAfterAnother
    <2>2. CASE row' = s /\ step' = [step EXCEPT ![s] = "publish"]
      <3>1. published' = published /\ s \in Keys
        BY <1>1 DEF SaveRow
      <3>2. ASSUME NEW t \in Debts, step'[t] = "publish" PROVE t <= s
        <4> SUFFICES ASSUME s < t PROVE FALSE
          OBVIOUS
        <4>1. step[t] = "publish"
          BY <2>2, <3>2
        <4> QED
          BY <1>1, <4>1 DEF SaveRow, OneAfterAnother
      <3> QED
        BY <2>1, <2>2, <3>1, <3>2
    <2>3. CASE row' = row /\ step' = [step EXCEPT ![s] = "drop"]
      BY <1>1, <2>3 DEF SaveRow
    <2> QED
      BY <1>1, <2>2, <2>3 DEF SaveRow
  <1>2. CASE MarkReady(s)
    BY <1>2 DEF MarkReady
  <1>3. CASE ~SaveRow(s) /\ ~MarkReady(s)
    <2>1. /\ row' = row /\ published' = published
          /\ step' = step \/ \E x \in SynthSteps \ {"publish"} : step' = [step EXCEPT ![s] = x]
      BY <1>3 DEF SynthStep, Begin, ClearDeadline, ListScraps, Sweep, EndSweep, MarkOngoing,
                  Detach, CannotDetach, Extract, DropMarker, StopSynth
    <2> QED
      BY <2>1
  <1> QED
    BY <1>1, <1>2, <1>3

(* A ready marker never runs ahead of the stored row, if the host compacts *)
(* a session again only when its worker is over: whoever dies or fails,    *)
(* and whatever hooks put back.                                            *)
THEOREM MarkedAfterStored ==
  ASSUME ~Overlap
  PROVE  Spec => []ReadyIsStored
  <1>1. Init => SequenceInv
    BY DEF Init, SequenceInv, OneAfterAnother, RowIsAhead
  <1>2. TypeOK /\ DeliveryInv /\ SequenceInv /\ [Next]_vars => SequenceInv'
    <2> SUFFICES ASSUME TypeOK, DeliveryInv, SequenceInv, [Next]_vars PROVE SequenceInv'
      OBVIOUS
    <2>1. CASE \E h \in Hooks : HookStep(h)
      <3>1. PICK h \in Hooks : HookStep(h)
        BY <2>1
      <3>2. row' = row
        BY <3>1 DEF HookStep, Proceed, ReadMarker, ReadClock, CreateCandidate, LinkDeadline,
             JoinWindow, Sleep, vars, Poll, Recheck, ClaimMarker, FoldDebt, RenameMarker,
             CheckHeld, LoadRow, JudgeClaim, RestoreClaim, DischargeClaim, ExpireClaim,
             DropRestored, RemovePending, CloseWindow, LapseWindow, RemoveDeadline, PrintOutput,
             ReadFails, StopHook
      <3> QED
        BY <3>1, <3>2, HookKeepsSynth DEF SequenceInv, OneAfterAnother, RowIsAhead
    <2>2. CASE \E s \in Debts : SynthStep(s)
      BY <2>2, SynthKeepsOrder, SynthKeepsRow DEF SequenceInv
    <2>3. CASE Tick \/ Finished \/ UNCHANGED vars
      BY <2>3 DEF Tick, Finished, vars, SequenceInv, OneAfterAnother, RowIsAhead
    <2> QED
      BY <2>1, <2>2, <2>3 DEF Next
  <1>3. TypeOK /\ DeliveryInv /\ SequenceInv => ReadyIsStored
    BY MarkersTyped DEF DeliveryInv, TokenIsOffered, SequenceInv, RowIsAhead, ReadyIsStored
  <1> QED
    BY <1>1, <1>2, <1>3, TypeCorrect, InvCorrect, PTL DEF Spec
-----------------------------------------------------------------------------
(* A session that owes one snapshot in all.  Whoever claims or restores a  *)
(* marker has seen the snapshot ready; from then on the marker is that     *)
(* snapshot or is missing, and what a hook puts back is that snapshot.     *)
HookKnows(h) ==
  /\ claim[h].state = "ready" => claim[h] = Ready(1) /\ 1 \in published
  /\ pc[h] \in {"claim", "held", "load", "discharge", "close", "print"}
       => expected[h] = 1 /\ 1 \in published
  /\ pc[h] \in {"held", "load", "restore"} => claim[h] = Ready(1)

MarkerKnown ==
  /\ marker.state = "ready" => marker = Ready(1) /\ 1 \in published
  /\ 1 \in published => marker \in {Missing, Ready(1)}

RowKnown == 1 \in published \/ step[1] = "publish" => row = 1

DebtInv == MarkerKnown /\ RowKnown /\ \A h \in Hooks : HookKnows(h)

LEMMA OneDebtOnly == OneDebt => Debts = {1} /\ 1 \in Keys /\ 1 # 0
  BY DEF OneDebt

LEMMA OnlyDebt ==
  ASSUME OneDebt, NEW s \in Debts
  PROVE  s = 1
  <1>1. NumDebts = 1 /\ s \in 1..NumDebts
    BY DEF OneDebt
  <1> QED
    BY ONLY <1>1, SMT

LEMMA InitDebt == OneDebt /\ Init => DebtInv
  <1> SUFFICES ASSUME OneDebt, Init PROVE DebtInv
    OBVIOUS
  <1>1. marker.state # "ready"
    BY DEF OneDebt, Init
  <1>2. 1 \in Debts
    BY OneDebtOnly
  <1> QED
    BY <1>1, <1>2 DEF Init, DebtInv, MarkerKnown, RowKnown, HookKnows, Missing

LEMMA HookKeepsMarkerKnown ==
  ASSUME TypeOK, DebtInv, NEW h \in Hooks, HookStep(h)
  PROVE  MarkerKnown' /\ row' = row
  <1>1. ASSUME marker' = marker PROVE MarkerKnown'
    BY <1>1, HookKeepsSynth DEF DebtInv, MarkerKnown
  <1>2. ASSUME ClaimMarker(h) \/ FoldDebt(h) PROVE MarkerKnown'
    BY <1>2, HookKeepsSynth
    DEF DebtInv, ClaimMarker, FoldDebt, RenameMarker, MarkerKnown, Missing
  <1>3. ASSUME RestoreClaim(h) PROVE MarkerKnown'
    BY <1>3, HookKeepsSynth DEF DebtInv, RestoreClaim, MarkerKnown, HookKnows
  <1>4. \/ marker' = marker
        \/ ClaimMarker(h) \/ FoldDebt(h) \/ RestoreClaim(h)
    BY DEF HookStep, Proceed, ReadMarker, ReadClock, CreateCandidate, LinkDeadline, JoinWindow,
           Sleep, vars, Poll, Recheck, CheckHeld, LoadRow, JudgeClaim, DischargeClaim,
           ExpireClaim, DropRestored, RemovePending, CloseWindow, LapseWindow, RemoveDeadline,
           PrintOutput, ReadFails, StopHook
  <1>5. row' = row
    BY DEF HookStep, Proceed, ReadMarker, ReadClock, CreateCandidate, LinkDeadline, JoinWindow,
           Sleep, vars, Poll, Recheck, ClaimMarker, FoldDebt, RenameMarker, CheckHeld, LoadRow,
           JudgeClaim, RestoreClaim, DischargeClaim, ExpireClaim, DropRestored, RemovePending,
           CloseWindow, LapseWindow, RemoveDeadline, PrintOutput, ReadFails, StopHook
  <1> QED
    BY <1>1, <1>2, <1>3, <1>4, <1>5

LEMMA HookKeepsKnows ==
  ASSUME TypeOK, DebtInv, NEW h \in Hooks, HookStep(h)
  PROVE  HookKnows(h)'
  <1> USE HookKeepsSynth DEF TypeOK, DebtInv, HookKnows
  <1>1. CASE ReadMarker(h) \/ Recheck(h)
    BY <1>1 DEF ReadMarker, Recheck, ExpectOrFold, MarkerKnown, Ready
  <1>2. CASE ReadClock(h) \/ CreateCandidate(h) \/ LinkDeadline(h) \/ JoinWindow(h)
    BY <1>2 DEF ReadClock, CreateCandidate, LinkDeadline, JoinWindow
  <1>3. CASE Sleep(h) \/ Poll(h)
    BY <1>3 DEF Sleep, Poll, vars
  <1>4. CASE ClaimMarker(h) \/ FoldDebt(h)
    BY <1>4 DEF ClaimMarker, FoldDebt, RenameMarker, MarkerKnown
  <1>5. CASE CheckHeld(h) \/ LoadRow(h) \/ JudgeClaim(h)
    BY <1>5 DEF CheckHeld, LoadRow, JudgeClaim
  <1>6. CASE RestoreClaim(h)
    BY <1>6 DEF RestoreClaim
  <1>7. CASE DischargeClaim(h) \/ ExpireClaim(h) \/ DropRestored(h)
    BY <1>7 DEF DischargeClaim, ExpireClaim, DropRestored, RemovePending, Missing
  <1>8. CASE CloseWindow(h) \/ LapseWindow(h) \/ PrintOutput(h)
    BY <1>8 DEF CloseWindow, LapseWindow, RemoveDeadline, PrintOutput
  <1>9. CASE ReadFails(h)
    <2>1. /\ pc' = [pc EXCEPT ![h] = AfterFailedRead[pc[h]]]
          /\ UNCHANGED <<claim, expected>>
      BY <1>9 DEF ReadFails
    <2>2. \/ AfterFailedRead[pc[h]] \in {"fold", "recheck", "expire"}
          \/ pc[h] \in {"held", "load"} /\ AfterFailedRead[pc[h]] = "restore"
      BY <1>9 DEF ReadFails, AfterFailedRead
    <2> QED
      BY <2>1, <2>2
  <1>10. CASE StopHook(h)
    BY <1>10 DEF StopHook
  <1> QED
    BY <1>1, <1>2, <1>3, <1>4, <1>5, <1>6, <1>7, <1>8, <1>9, <1>10 DEF HookStep, Proceed

LEMMA HookKeepsDebt ==
  ASSUME TypeOK, DebtInv, NEW h \in Hooks, HookStep(h)
  PROVE  DebtInv'
  <1>1. MarkerKnown' /\ RowKnown'
    BY HookKeepsMarkerKnown, HookKeepsSynth DEF DebtInv, RowKnown
  <1>2. ASSUME NEW g \in Hooks PROVE HookKnows(g)'
    <2>1. CASE g = h
      BY <2>1, HookKeepsKnows
    <2>2. CASE g # h
      BY <2>2, HookFrame, HookKeepsSynth DEF DebtInv, HookKnows
    <2> QED
      BY <2>1, <2>2
  <1> QED
    BY <1>1, <1>2 DEF DebtInv

LEMMA SynthKeepsDebt ==
  ASSUME OneDebt, TypeOK, DeliveryInv, DebtInv, NEW s \in Debts, SynthStep(s)
  PROVE  DebtInv'
  <1> USE DEF TypeOK
  <1>1. s = 1
    BY OnlyDebt
  <1>2. 1 \notin published
    BY <1>1, StepFrame DEF DeliveryInv, OfferedIsOver
  <1>3. pc' = pc /\ expected' = expected /\ \A h \in Hooks : claim'[h] \in {Missing, claim[h]}
    BY DEF SynthStep, Begin, ClearDeadline, ListScraps, Sweep, Claims, EndSweep, MarkOngoing,
           Detach, CannotDetach, Extract, SaveRow, MarkReady, DropMarker, StopSynth
  <1>4. \A h \in Hooks : HookKnows(h)'
    <2> SUFFICES ASSUME NEW h \in Hooks PROVE HookKnows(h)'
      OBVIOUS
    <2>1. claim[h].state # "ready"
      BY <1>2 DEF DebtInv, HookKnows
    <2>2. pc[h] \notin {"claim", "held", "load", "restore", "discharge", "close", "print"}
      BY <1>2, <2>1 DEF DebtInv, HookKnows, Ready
    <2>3. claim'[h].state # "ready" /\ pc'[h] = pc[h]
      <3>1. pc' = pc /\ claim'[h] \in {Missing, claim[h]}
        BY <1>3, Zenon
      <3>2. CASE claim'[h] = Missing
        BY ONLY <3>1, <3>2 DEF Missing
      <3>3. CASE claim'[h] = claim[h]
        BY ONLY <3>1, <3>3, <2>1
      <3> QED
        BY <3>1, <3>2, <3>3, Zenon
    <2> QED
      BY <2>2, <2>3 DEF HookKnows
  <1>5. /\ \/ marker' \in {marker, Missing, Ongoing(1)} /\ published' = published
           \/ marker' = Ready(1) /\ published' = published \cup {1} /\ step[1] = "publish"
        /\ \/ row' = row /\ (step'[1] = "publish" => step[1] = "publish")
           \/ row' = 1
    BY <1>1 DEF SynthStep, Begin, ClearDeadline, ListScraps, Sweep, EndSweep, MarkOngoing,
           Detach, CannotDetach, Extract, SaveRow, MarkReady, DropMarker, StopSynth
  <1>6. MarkerKnown'
    BY <1>2, <1>5 DEF DebtInv, MarkerKnown, Missing, Ongoing
  <1>7. RowKnown'
    BY <1>2, <1>5 DEF DebtInv, RowKnown
  <1> QED
    BY <1>4, <1>6, <1>7 DEF DebtInv

LEMMA DebtInvariant ==
  ASSUME OneDebt
  PROVE  Spec => []DebtInv
  <1>1. TypeOK /\ DeliveryInv /\ DebtInv /\ [Next]_vars => DebtInv'
    <2> SUFFICES ASSUME TypeOK, DeliveryInv, DebtInv, [Next]_vars PROVE DebtInv'
      OBVIOUS
    <2>1. CASE \E h \in Hooks : HookStep(h)
      BY <2>1, HookKeepsDebt
    <2>2. CASE \E s \in Debts : SynthStep(s)
      BY <2>2, SynthKeepsDebt
    <2>3. CASE Tick \/ Finished \/ UNCHANGED vars
      BY <2>3 DEF Tick, Finished, vars, DebtInv, MarkerKnown, RowKnown, HookKnows
    <2> QED
      BY <2>1, <2>2, <2>3 DEF Next
  <1> QED
    BY InitDebt, <1>1, TypeCorrect, InvCorrect, PTL DEF Spec
-----------------------------------------------------------------------------
(* Until the debt is marked, hooks find nothing; while it is ongoing, none *)
(* has claimed anything, and those that wait wait for the deadline that is *)
(* published.                                                              *)
Unmarked == {"idle", "clear", "list", "sweep", "mark"}
Unclaimed == {"start", "clock", "create", "link", "join", "poll", "recheck", "fold", "done"}
Waits(h) == pc[h] \in {"poll", "recheck"} => deadline = limit[h]

WindowInv ==
  /\ step[1] \in Unmarked =>
       marker = Missing /\ \A h \in Hooks : pc[h] \in {"start", "fold", "done"}
  /\ marker.state = "ongoing" => \A h \in Hooks : pc[h] \in Unclaimed /\ Waits(h)

(* While nobody has claimed anything, a hook publishes a deadline where    *)
(* there is none, joins the one there is, or leaves it alone.              *)
LEMMA HookWaits ==
  ASSUME TypeOK, NEW h \in Hooks, HookStep(h), pc[h] \in Unclaimed, Waits(h),
         marker' = marker, marker.state = "ongoing"
  PROVE  /\ pc'[h] \in Unclaimed /\ Waits(h)'
         /\ \A g \in Hooks : g # h => limit'[g] = limit[g]
         /\ deadline' = deadline \/ deadline = None
  <1> USE DEF TypeOK, Unclaimed, Waits
  <1>1. CASE ReadMarker(h) \/ Recheck(h)
    BY <1>1 DEF ReadMarker, Recheck, ExpectOrFold
  <1>2. CASE ReadClock(h) \/ CreateCandidate(h)
    BY <1>2 DEF ReadClock, CreateCandidate
  <1>3. CASE LinkDeadline(h)
    BY <1>3 DEF LinkDeadline
  <1>4. CASE JoinWindow(h)
    BY <1>4 DEF JoinWindow
  <1>5. CASE Sleep(h) \/ Poll(h)
    BY <1>5 DEF Sleep, Poll, vars
  <1>6. CASE FoldDebt(h)
    BY <1>6 DEF FoldDebt, RenameMarker, Missing
  <1>7. CASE ReadFails(h)
    <2>1. /\ pc' = [pc EXCEPT ![h] = AfterFailedRead[pc[h]]]
          /\ UNCHANGED <<deadline, limit>>
      BY <1>7 DEF ReadFails
    <2>2. AfterFailedRead[pc[h]] \in {"fold", "recheck"}
          /\ (AfterFailedRead[pc[h]] = "recheck" => pc[h] = "poll")
      BY <1>7 DEF ReadFails, AfterFailedRead
    <2> QED
      BY <2>1, <2>2
  <1>8. CASE StopHook(h)
    BY <1>8 DEF StopHook
  <1>9. CASE \/ ClaimMarker(h) \/ CheckHeld(h) \/ LoadRow(h) \/ DischargeClaim(h)
             \/ CloseWindow(h) \/ PrintOutput(h) \/ JudgeClaim(h) \/ ExpireClaim(h)
             \/ LapseWindow(h) \/ RestoreClaim(h) \/ DropRestored(h)
    BY <1>9 DEF ClaimMarker, RenameMarker, CheckHeld, LoadRow, DischargeClaim, CloseWindow,
                PrintOutput, JudgeClaim, ExpireClaim, LapseWindow, RestoreClaim, DropRestored,
                RemovePending, RemoveDeadline
  <1> QED
    BY <1>1, <1>2, <1>3, <1>4, <1>5, <1>6, <1>7, <1>8, <1>9 DEF HookStep, Proceed

(* Where there is no marker, a hook that has not begun to wait returns.    *)
LEMMA HookFindsNothing ==
  ASSUME TypeOK, NEW h \in Hooks, HookStep(h), marker = Missing,
         pc[h] \in {"start", "fold", "done"}
  PROVE  marker' = Missing /\ pc'[h] \in {"start", "fold", "done"}
  <1> USE DEF TypeOK
  <1>1. CASE ReadMarker(h)
    BY <1>1 DEF ReadMarker, Missing
  <1>2. CASE FoldDebt(h)
    BY <1>2 DEF FoldDebt, RenameMarker
  <1>3. CASE ReadFails(h)
    <2>1. /\ pc' = [pc EXCEPT ![h] = AfterFailedRead[pc[h]]] /\ marker' = marker
          /\ pc[h] = "start"
      BY <1>3 DEF ReadFails, AfterFailedRead
    <2> QED
      BY <2>1 DEF AfterFailedRead
  <1>4. ~StopHook(h) \/ (pc'[h] = "done" /\ marker' = marker)
    BY DEF StopHook
  <1>5. ~Proceed(h) \/ FoldDebt(h)
    BY DEF Proceed, ReadClock, CreateCandidate, LinkDeadline, JoinWindow, Poll, Recheck,
           ClaimMarker, RenameMarker, CheckHeld, LoadRow, DischargeClaim, CloseWindow,
           PrintOutput, JudgeClaim, ExpireClaim, LapseWindow, RestoreClaim, DropRestored,
           RemovePending, RemoveDeadline
  <1>6. ~Sleep(h)
    BY DEF Sleep
  <1> QED
    BY <1>1, <1>2, <1>3, <1>4, <1>5, <1>6 DEF HookStep

(* A hook leaves the marker, takes it away, or restores the snapshot.      *)
LEMMA HookMarker ==
  ASSUME TypeOK, DebtInv, NEW h \in Hooks, HookStep(h)
  PROVE  marker' \in {marker, Missing, Ready(1)}
  <1>1. RestoreClaim(h) => marker' \in {marker, Ready(1)}
    BY DEF RestoreClaim, DebtInv, HookKnows
  <1>2. ClaimMarker(h) \/ FoldDebt(h) => marker' \in {marker, Missing}
    BY DEF ClaimMarker, FoldDebt, RenameMarker
  <1>3. marker' = marker \/ RestoreClaim(h) \/ ClaimMarker(h) \/ FoldDebt(h)
    BY DEF HookStep, Proceed, ReadMarker, ReadClock, CreateCandidate, LinkDeadline, JoinWindow,
           Sleep, vars, Poll, Recheck, CheckHeld, LoadRow, JudgeClaim, DischargeClaim,
           ExpireClaim, DropRestored, RemovePending, CloseWindow, LapseWindow, RemoveDeadline,
           PrintOutput, ReadFails, StopHook
  <1> QED
    BY <1>1, <1>2, <1>3

LEMMA HookKeepsWindow ==
  ASSUME TypeOK, DebtInv, WindowInv, NEW h \in Hooks, HookStep(h)
  PROVE  WindowInv'
  <1>1. step' = step /\ \A g \in Hooks : g # h => pc'[g] = pc[g]
    BY HookFrame, HookKeepsSynth
  <1>2. ASSUME step[1] \in Unmarked
        PROVE  marker' = Missing /\ \A g \in Hooks : pc'[g] \in {"start", "fold", "done"}
    BY <1>1, <1>2, HookFindsNothing DEF WindowInv
  <1>3. ASSUME marker'.state = "ongoing"
        PROVE  \A g \in Hooks : pc'[g] \in Unclaimed /\ Waits(g)'
    <2>1. marker' = marker /\ marker.state = "ongoing"
      BY <1>3, HookMarker DEF Missing, Ready
    <2>2. \A g \in Hooks : pc[g] \in Unclaimed /\ Waits(g)
      BY <2>1 DEF WindowInv
    <2>3. /\ pc'[h] \in Unclaimed /\ Waits(h)'
          /\ \A g \in Hooks : g # h => limit'[g] = limit[g]
          /\ deadline' = deadline \/ deadline = None
      BY <2>1, <2>2, HookWaits
    <2>4. \A g \in Hooks : deadline = None => limit[g] # deadline
      BY ConstantsAssumption DEF TypeOK
    <2> QED
      BY <1>1, <2>2, <2>3, <2>4 DEF Waits
  <1> QED
    BY <1>1, <1>2, <1>3 DEF WindowInv

LEMMA SynthKeepsWindow ==
  ASSUME OneDebt, TypeOK, WindowInv, NEW s \in Debts, SynthStep(s)
  PROVE  WindowInv'
  <1> USE DEF TypeOK
  <1>1. s = 1
    BY OnlyDebt
  <1>2. pc' = pc /\ limit' = limit
    BY DEF SynthStep, Begin, ClearDeadline, ListScraps, Sweep, EndSweep, MarkOngoing,
           Detach, CannotDetach, Extract, SaveRow, MarkReady, DropMarker, StopSynth
  <1>3. /\ step'[1] \in Unmarked => step[1] \in Unmarked /\ marker' = marker
        /\ \/ marker' = Ongoing(1) /\ step[1] \in Unmarked
           \/ marker' = marker /\ (deadline' = deadline \/ step[1] \in Unmarked)
           \/ marker' \in {Missing, Ready(1)}
    BY <1>1
    DEF SynthStep, Begin, ClearDeadline, ListScraps, Sweep, EndSweep, MarkOngoing, Detach,
        CannotDetach, Extract, SaveRow, MarkReady, DropMarker, StopSynth, Unmarked
  <1>4. ASSUME marker'.state = "ongoing", NEW h \in Hooks PROVE pc'[h] \in Unclaimed /\ Waits(h)'
    <2>1. CASE step[1] \in Unmarked
      BY <1>2, <2>1 DEF WindowInv, Unclaimed, Waits
    <2>2. CASE step[1] \notin Unmarked
      <3>1. marker' = marker /\ deadline' = deadline
        BY <1>3, <1>4, <2>2 DEF Missing, Ready
      <3> QED
        BY <1>2, <1>4, <3>1 DEF WindowInv, Waits
    <2> QED
      BY <2>1, <2>2
  <1> QED
    BY <1>2, <1>3, <1>4 DEF WindowInv

(* Hooks that wait for the one debt of a session wait for one deadline,    *)
(* however many there are, also when calls fail and processes are killed.  *)
THEOREM WindowIsShared ==
  ASSUME OneDebt, SettledAtFirst
  PROVE  Spec => []OneWindow
  <1>1. Init => WindowInv
    BY DEF Init, SettledAtFirst, WindowInv, Missing
  <1>2. TypeOK /\ DebtInv /\ WindowInv /\ [Next]_vars => WindowInv'
    <2> SUFFICES ASSUME TypeOK, DebtInv, WindowInv, [Next]_vars PROVE WindowInv'
      OBVIOUS
    <2>1. CASE \E h \in Hooks : HookStep(h)
      BY <2>1, HookKeepsWindow
    <2>2. CASE \E s \in Debts : SynthStep(s)
      BY <2>2, SynthKeepsWindow
    <2>3. CASE Tick \/ Finished \/ UNCHANGED vars
      BY <2>3 DEF Tick, Finished, vars, WindowInv, Waits
    <2> QED
      BY <2>1, <2>2, <2>3 DEF Next
  <1>3. WindowInv => OneWindow
    BY DEF WindowInv, Waits, OneWindow
  <1> QED
    BY <1>1, <1>2, <1>3, TypeCorrect, DebtInvariant, PTL DEF Spec
-----------------------------------------------------------------------------
(* A marker that is ongoing has its worker: what ends the worker takes the *)
(* marker away, and no hook puts an ongoing marker back.                   *)
WorkerInv == marker = Ongoing(1) => step[1] \in {"detach", "work", "save", "publish", "drop"}

(* The worker of the one debt runs for as long as its marker is ongoing,   *)
(* if no call of its own fails and it is not killed.                       *)
THEOREM OngoingIsWorkedOn ==
  ASSUME OneDebt, ~Faults, "worker" \notin Crashes
  PROVE  Spec => []OngoingHasWorker
  <1>1. Init => WorkerInv
    <2> SUFFICES ASSUME Init PROVE marker # Ongoing(1)
      BY DEF WorkerInv
    <2>1. PICK l \in Leftovers : marker = l.marker
      BY DEF Init
    <2>2. l.marker \in [state : {"missing", "malformed", "ongoing", "ready"}, by : {0}]
      BY ConstantsAssumption
    <2>3. marker.by = 0
      BY <2>1, <2>2
    <2> QED
      BY <2>3 DEF Ongoing
  <1>2. TypeOK /\ DebtInv /\ WorkerInv /\ [Next]_vars => WorkerInv'
    <2> SUFFICES ASSUME TypeOK, DebtInv, WorkerInv, [Next]_vars PROVE WorkerInv'
      OBVIOUS
    <2>1. CASE \E h \in Hooks : HookStep(h)
      BY <2>1, HookMarker, HookKeepsSynth DEF WorkerInv, Missing, Ready, Ongoing
    <2>2. CASE \E s \in Debts : SynthStep(s)
      <3>1. PICK s \in Debts : SynthStep(s)
        BY <2>2
      <3>2. s = 1
        BY OnlyDebt
      <3>3. CASE MarkOngoing(s)
        BY <3>2, <3>3 DEF MarkOngoing, TypeOK, WorkerInv
      <3>4. ASSUME MarkReady(s) \/ DropMarker(s) PROVE WorkerInv'
        <4>1. marker' \in {Missing, Ready(s)}
          BY <3>4 DEF MarkReady, DropMarker
        <4>2. Missing # Ongoing(1) /\ Ready(s) # Ongoing(1)
          BY DEF Missing, Ready, Ongoing
        <4> QED
          BY <4>1, <4>2 DEF WorkerInv
      <3>5. CASE marker' = marker
        <4>1. marker' = Ongoing(1) => step[1] \in {"detach", "work", "save", "publish", "drop"}
          BY <3>5 DEF WorkerInv
        <4>2. ~StopSynth(s)
          BY DEF StopSynth
        <4>3. step[1] \in {"detach", "work", "save"}
                => step'[1] \in {"detach", "work", "save", "publish", "drop"}
          BY <3>1, <3>2, <4>2
          DEF TypeOK, SynthStep, Begin, ClearDeadline, ListScraps, Sweep, EndSweep, MarkOngoing,
              Detach, CannotDetach, Extract, SaveRow, MarkReady, DropMarker
        <4>4. step[1] \in {"publish", "drop"} => MarkReady(s) \/ DropMarker(s)
          BY <3>1, <3>2, <4>2
          DEF SynthStep, Begin, ClearDeadline, ListScraps, Sweep, EndSweep, MarkOngoing, Detach,
              CannotDetach, Extract, SaveRow
        <4> QED
          BY <3>4, <4>1, <4>3, <4>4 DEF WorkerInv
      <3>6. marker' = marker \/ MarkOngoing(s) \/ MarkReady(s) \/ DropMarker(s)
        BY <3>1
        DEF SynthStep, Begin, ClearDeadline, ListScraps, Sweep, EndSweep, Detach, CannotDetach,
            Extract, SaveRow, StopSynth
      <3> QED
        BY <3>3, <3>4, <3>5, <3>6 DEF WorkerInv
    <2>3. CASE Tick \/ Finished \/ UNCHANGED vars
      BY <2>3 DEF Tick, Finished, vars, WorkerInv
    <2> QED
      BY <2>1, <2>2, <2>3 DEF Next
  <1>3. WorkerInv => OngoingHasWorker
    <2> SUFFICES ASSUME WorkerInv, NEW s \in Debts, marker = Ongoing(s)
                 PROVE  step[s] \notin {"idle", "done"}
      BY DEF OngoingHasWorker
    <2>1. s = 1
      BY OnlyDebt
    <2> QED
      BY <2>1 DEF WorkerInv
  <1> QED
    BY <1>1, <1>2, <1>3, TypeCorrect, DebtInvariant, PTL DEF Spec

-----------------------------------------------------------------------------
(* A snapshot that was marked ready is in the marker, or a hook holds it   *)
(* or has printed it.                                                      *)
TokenLives == 1 \in published => marker = Ready(1) \/ \E h \in Hooks : Holds(h, 1)

(* What a hook finds in the marker it takes; what it holds it prints or    *)
(* puts back, and it finds the place of the marker free.                   *)
LEMMA HookKeepsToken ==
  ASSUME "hook" \notin Crashes, ~Faults, 1 \in Keys, TypeOK, DeliveryInv, DebtInv,
         1 \in published, NEW h \in Hooks, HookStep(h), marker = Ready(1) \/ Holds(h, 1)
  PROVE  marker' = Ready(1) \/ Holds(h, 1)'
  <1> USE DEF TypeOK
  <1>1. HookKnows(h) /\ marker \in {Missing, Ready(1)} /\ row = 1
    BY DEF DebtInv, MarkerKnown, RowKnown
  <1>2. Holds(h, 1) => marker = Missing
    BY <1>1 DEF DeliveryInv, OneToken
  <1>3. out[h] # None => pc[h] = "done"
    BY DEF DeliveryInv, PrintedIsOver
  <1>4. Ready(1).state = "ready" /\ Ready(1).by = 1 /\ Ready(1) # Missing
    BY DEF Ready, Missing
  <1>5. CASE ClaimMarker(h) \/ FoldDebt(h)
    BY <1>2, <1>4, <1>5 DEF ClaimMarker, FoldDebt, RenameMarker, Holds, Carries
  <1>6. CASE CheckHeld(h)
    BY <1>1, <1>6 DEF CheckHeld, HookKnows, Holds, Carries
  <1>7. CASE LoadRow(h)
    BY <1>1, <1>7 DEF LoadRow, HookKnows, Holds, Carries
  <1>8. CASE JudgeClaim(h)
    BY <1>4, <1>8 DEF JudgeClaim, Holds, Carries
  <1>9. CASE RestoreClaim(h)
    BY <1>1, <1>2, <1>4, <1>9 DEF RestoreClaim, HookKnows, Holds, Carries
  <1>10. CASE DischargeClaim(h) \/ ExpireClaim(h) \/ DropRestored(h)
    BY <1>10 DEF DischargeClaim, ExpireClaim, DropRestored, RemovePending, Holds, Carries
  <1>11. CASE CloseWindow(h) \/ LapseWindow(h)
    BY <1>11 DEF CloseWindow, LapseWindow, RemoveDeadline, Holds, Carries
  <1>12. CASE PrintOutput(h)
    BY <1>1, <1>12 DEF PrintOutput, HookKnows, Holds
  <1>13. CASE \/ ReadMarker(h) \/ ReadClock(h) \/ CreateCandidate(h) \/ LinkDeadline(h)
              \/ JoinWindow(h) \/ Sleep(h) \/ Poll(h) \/ Recheck(h)
    <2>1. /\ marker' = marker /\ claim' = claim /\ out' = out
          /\ pc[h] \in {"start", "clock", "create", "link", "join", "poll", "recheck"}
      BY <1>13 DEF ReadMarker, ReadClock, CreateCandidate, LinkDeadline, JoinWindow, Sleep,
                   Poll, Recheck, vars
    <2> QED
      BY <2>1 DEF Holds, Carries
  <1>14. ~ReadFails(h) /\ ~StopHook(h)
    BY DEF ReadFails, StopHook
  <1> QED
    BY <1>5, <1>6, <1>7, <1>8, <1>9, <1>10, <1>11, <1>12, <1>13, <1>14 DEF HookStep, Proceed

(* A snapshot that becomes ready stays deliverable until a hook prints it, *)
(* in whatever moment of a fold it comes, also if its worker was slow, if  *)
(* the debt was folded before, or if hooks put the marker back: for one    *)
(* snapshot owed, hooks that are not killed and calls that do not fail.    *)
THEOREM ReadyStaysDeliverable ==
  ASSUME OneDebt, ~Faults, "hook" \notin Crashes
  PROVE  Spec => []ReadySurvives
  <1>1. Init => TokenLives
    BY DEF Init, TokenLives
  <1>2. TypeOK /\ DeliveryInv /\ DebtInv /\ TokenLives /\ [Next]_vars => TokenLives'
    <2> SUFFICES ASSUME TypeOK, DeliveryInv, DebtInv, TokenLives, [Next]_vars, 1 \in published'
                 PROVE  marker' = Ready(1) \/ \E h \in Hooks : Holds(h, 1)'
      BY DEF TokenLives
    <2>1. CASE \E h \in Hooks : HookStep(h)
      <3>1. PICK h \in Hooks : HookStep(h)
        BY <2>1
      <3>2. 1 \in published
        BY <3>1, HookKeepsSynth
      <3>3. CASE marker = Ready(1) \/ Holds(h, 1)
        BY <3>1, <3>2, <3>3, OneDebtOnly, HookKeepsToken
      <3>4. CASE \E g \in Hooks : g # h /\ Holds(g, 1)
        BY <3>1, <3>4, HookFrame DEF Holds, Carries
      <3> QED
        BY <3>2, <3>3, <3>4 DEF TokenLives
    <2>2. CASE \E s \in Debts : SynthStep(s)
      <3>1. PICK s \in Debts : SynthStep(s)
        BY <2>2
      <3>2. s = 1
        BY OnlyDebt
      <3>3. 1 \notin published
        BY <3>1, <3>2, StepFrame DEF DeliveryInv, OfferedIsOver
      <3>4. published' = published \/ marker' = Ready(s)
        BY <3>1 DEF SynthStep, Begin, ClearDeadline, ListScraps, Sweep, EndSweep, MarkOngoing,
             Detach, CannotDetach, Extract, SaveRow, MarkReady, DropMarker, StopSynth
      <3> QED
        BY <3>2, <3>3, <3>4
    <2>3. CASE Tick \/ Finished \/ UNCHANGED vars
      BY <2>3 DEF Tick, Finished, vars, TokenLives, Holds, Carries
    <2> QED
      BY <2>1, <2>2, <2>3 DEF Next
  <1>3. TypeOK /\ DebtInv /\ TokenLives => ReadySurvives
    <2> SUFFICES ASSUME TypeOK, DebtInv, TokenLives, NEW k \in published
                 PROVE  \/ \E h \in Hooks : out[h] = k
                        \/ row = k /\ (marker = Ready(k) \/ \E h \in Hooks : Carries(h, k))
      BY DEF ReadySurvives
    <2>1. k = 1
      BY OnlyDebt DEF TypeOK
    <2> QED
      BY <2>1 DEF DebtInv, RowKnown, TokenLives, Holds
  <1> QED
    BY <1>1, <1>2, <1>3, TypeCorrect, InvCorrect, DebtInvariant, PTL DEF Spec
=============================================================================

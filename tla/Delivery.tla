------------------------------ MODULE Delivery ------------------------------
(***************************************************************************)
(* The delivery protocol of one host session: the marker that says what is *)
(* owed, the deadline hooks share while they wait for it, the stored row,  *)
(* and the two kinds of process that meet over these three files without a *)
(* lock.  A recall hook (src/recall.rs) reads the marker, waits, claims it *)
(* by rename and prints the row.  A synthesize (src/synthesize.rs)         *)
(* publishes the debt, detaches, extracts, saves the row and marks it      *)
(* ready.  Each step below is one file-system operation, with whatever the *)
(* process computes before its next one.                                   *)
(*                                                                         *)
(* Not in this module: what a snapshot says (Keys stand for snapshots),    *)
(* how it is extracted, and other sessions' rows.                          *)
(***************************************************************************)
EXTENDS Naturals

CONSTANTS
  Hooks,      \* recall hook processes; each runs recall_from once
  NumDebts,   \* compactions of the session, each one synthesize
  Budget,     \* WAIT_BUDGET, in clock units
  Horizon,    \* the clock passes Horizon only while some hook waits
  Leftovers,  \* stores the session may start from
  Overlap,    \* may a compaction start while an earlier worker still runs
  Crashes,    \* which of {"hook", "worker"} may end early
  Faults,     \* may a file-system call fail
  None,       \* no file; also: nothing printed
  Garbage     \* a file whose content does not parse

(* Debt s mints key s; key 0 names a snapshot of an earlier life.          *)
Debts == 1..NumDebts
Keys == 0..NumDebts

(* The four readings of the marker file.  The key of an ongoing marker is  *)
(* a ghost: it tells which debt wrote it and no process reads it.          *)
Markers == [state : {"missing", "malformed", "ongoing", "ready"}, by : Keys]
Missing == [state |-> "missing", by |-> 0]
Malformed == [state |-> "malformed", by |-> 0]
Ongoing(s) == [state |-> "ongoing", by |-> s]
Ready(k) == [state |-> "ready", by |-> k]

Deadlines == Nat \cup {None, Garbage}
Rows == Keys \cup {None, Garbage}

ASSUME ConstantsAssumption ==
  /\ NumDebts \in Nat
  /\ Budget \in Nat
  /\ Horizon \in Nat
  /\ Overlap \in BOOLEAN
  /\ Faults \in BOOLEAN
  /\ Crashes \subseteq {"hook", "worker"}
  /\ None \notin Nat /\ Garbage \notin Nat /\ None # Garbage
  /\ Leftovers \subseteq [marker : [state : {"missing", "malformed", "ongoing", "ready"}, by : {0}],
                          deadline : Deadlines, row : {0, None, Garbage}]

VARIABLES
  marker,     \* <session>.marker
  deadline,   \* <session>.deliver-deadline
  row,        \* key of the row <session>.json
  now,        \* epoch seconds
  pc,         \* the next file-system operation of each hook
  expected,   \* the key a hook read in the marker
  limit,      \* now + Budget as the hook computed it, then its deadline
  claim,      \* content of the hook's .delivering / .expiring file
  candidate,  \* hooks whose .publishing file exists
  out,        \* the key of the snapshot a hook printed
  step,       \* the next operation of each synthesize
  listed,     \* entries the running sweep found and has to remove
  published   \* history: the keys whose ready marker was written

store == <<marker, deadline, row>>
hookLocals == <<pc, expected, limit, claim, candidate, out>>
synthLocals == <<step, listed, published>>
vars == <<marker, deadline, row, now, pc, expected, limit, claim, candidate,
          out, step, listed, published>>

HookSteps == {"start", "clock", "create", "link", "join", "poll", "recheck",
              "claim", "held", "load", "discharge", "close", "print",
              "fold", "judge", "expire", "lapse", "restore", "unpend", "done"}
SynthSteps == {"idle", "clear", "list", "sweep", "mark", "detach", "work",
               "save", "publish", "drop", "done"}

(* The temporary files prepare_debt recognises by name.                    *)
Claims == {h \in Hooks : claim[h] # Missing}
Scraps == {<<h, "claim">> : h \in Claims} \cup {<<h, "candidate">> : h \in candidate}

Init ==
  /\ \E s \in Leftovers : marker = s.marker /\ deadline = s.deadline /\ row = s.row
  /\ now = 0
  /\ pc = [h \in Hooks |-> "start"]
  /\ expected = [h \in Hooks |-> 0]
  /\ limit = [h \in Hooks |-> 0]
  /\ claim = [h \in Hooks |-> Missing]
  /\ candidate = {}
  /\ out = [h \in Hooks |-> None]
  /\ step = [s \in Debts |-> "idle"]
  /\ listed = {}
  /\ published = {}

Goto(h, to) == pc' = [pc EXCEPT ![h] = to]
Advance(s, to) == step' = [step EXCEPT ![s] = to]

-----------------------------------------------------------------------------
(* The recall hook: recall_from, open_or_join_window, deliver_claim,       *)
(* fold_debt and restore_claim.                                            *)

(* What a hook does with a marker it read while nothing is claimed yet.    *)
ExpectOrFold(h) ==
  \/ /\ marker.state = "ready"
     /\ expected' = [expected EXCEPT ![h] = marker.by]
     /\ Goto(h, "claim")
  \/ /\ marker.state # "ready"
     /\ Goto(h, "fold")
     /\ UNCHANGED expected

ReadMarker(h) ==
  /\ pc[h] = "start"
  /\ \/ marker.state = "missing" /\ Goto(h, "done") /\ UNCHANGED expected
     \/ marker.state = "ongoing" /\ Goto(h, "clock") /\ UNCHANGED expected
     \/ marker.state \in {"ready", "malformed"} /\ ExpectOrFold(h)
  /\ UNCHANGED <<store, now, limit, claim, candidate, out, synthLocals>>

ReadClock(h) ==
  /\ pc[h] = "clock"
  /\ limit' = [limit EXCEPT ![h] = now + Budget]
  /\ Goto(h, "create")
  /\ UNCHANGED <<store, now, expected, claim, candidate, out, synthLocals>>

CreateCandidate(h) ==
  /\ pc[h] = "create"
  /\ candidate' = candidate \cup {h}
  /\ Goto(h, "link")
  /\ UNCHANGED <<store, now, expected, limit, claim, out, synthLocals>>

(* Mutant: publish by rename, which replaces a deadline that is there.     *)
ReplaceDeadline(h) ==
  /\ pc[h] = "link"
  /\ h \in candidate
  /\ deadline' = limit[h]
  /\ candidate' = candidate \ {h}
  /\ Goto(h, "poll")
  /\ UNCHANGED <<marker, row, now, expected, limit, claim, out, synthLocals>>

(* hard_link(candidate, deadline): one publisher wins, the others join.  A *)
(* candidate that a sweep removed cannot be linked, which is an error the  *)
(* hook returns.  The candidate is unlinked either way.                    *)
LinkDeadline(h) ==
  /\ pc[h] = "link"
  /\ \/ h \in candidate /\ deadline = None /\ deadline' = limit[h] /\ Goto(h, "poll")
     \/ h \in candidate /\ deadline # None /\ UNCHANGED deadline /\ Goto(h, "join")
     \/ (h \notin candidate \/ Faults) /\ UNCHANGED deadline /\ Goto(h, "done")
  /\ candidate' = candidate \ {h}
  /\ UNCHANGED <<marker, row, now, expected, limit, claim, out, synthLocals>>

(* Mutant: any content of the deadline file is taken.                      *)
AnyWindowUsable(h) == deadline # None

(* A published deadline is trusted when it parses and is no further ahead  *)
(* than a budget from the clock this hook read before it tried to link.    *)
WindowUsable(h) == deadline \in Nat /\ deadline <= limit[h]

JoinWindow(h) ==
  /\ pc[h] = "join"
  /\ \/ WindowUsable(h) /\ limit' = [limit EXCEPT ![h] = deadline] /\ Goto(h, "poll")
     \/ ~WindowUsable(h) /\ UNCHANGED limit /\ Goto(h, "fold")
  /\ UNCHANGED <<store, now, expected, claim, candidate, out, synthLocals>>

(* Mutant: wait for the worker, not for the deadline.                      *)
NeverTimedOut(h) == FALSE

(* The poll loop: a round either leaves it or sleeps and changes nothing.  *)
TimedOut(h) == now >= limit[h]

Sleep(h) ==
  /\ pc[h] = "poll"
  /\ marker.state = "ongoing" /\ ~TimedOut(h)
  /\ UNCHANGED vars

Poll(h) ==
  /\ pc[h] = "poll"
  /\ marker.state # "ongoing" \/ TimedOut(h)
  /\ Goto(h, "recheck")
  /\ UNCHANGED <<store, now, expected, limit, claim, candidate, out, synthLocals>>

(* Mutant: a hook that timed out leaves the debt to the next one.          *)
LeaveOngoing(h) ==
  /\ pc[h] = "recheck"
  /\ \/ marker.state = "ready" /\ ExpectOrFold(h)
     \/ marker.state # "ready" /\ Goto(h, "done") /\ UNCHANGED expected
  /\ UNCHANGED <<store, now, limit, claim, candidate, out, synthLocals>>

Recheck(h) ==
  /\ pc[h] = "recheck"
  /\ ExpectOrFold(h)
  /\ UNCHANGED <<store, now, limit, claim, candidate, out, synthLocals>>

(* Mutant: the marker is copied to the pending file and stays in place.    *)
CopyMarker(h, from, to) ==
  /\ pc[h] = from
  /\ \/ marker = Missing /\ Goto(h, "done") /\ UNCHANGED claim
     \/ marker # Missing /\ claim' = [claim EXCEPT ![h] = marker] /\ Goto(h, to)
  /\ UNCHANGED <<store, now, expected, limit, candidate, out, synthLocals>>

(* rename(marker, pending), by deliver_claim or by fold_debt: the atomic   *)
(* claim.  Whoever finds no marker has nothing to do.                      *)
RenameMarker(h, from, to) ==
  /\ pc[h] = from
  /\ \/ marker = Missing /\ Goto(h, "done") /\ UNCHANGED <<marker, claim>>
     \/ /\ marker # Missing
        /\ claim' = [claim EXCEPT ![h] = marker]
        /\ marker' = Missing
        /\ Goto(h, to)
  /\ UNCHANGED <<deadline, row, now, expected, limit, candidate, out, synthLocals>>

ClaimMarker(h) == RenameMarker(h, "claim", "held")
FoldDebt(h) == RenameMarker(h, "fold", "judge")

(* Mutant: the claimed text is not compared with the expected key.         *)
TrustHeld(h) ==
  /\ pc[h] = "held"
  /\ Goto(h, "load")
  /\ UNCHANGED <<store, now, expected, limit, claim, candidate, out, synthLocals>>

(* deliver_claim after the rename: the claimed text, then the stored row,  *)
(* must both name the key the hook expected.                               *)
CheckHeld(h) ==
  /\ pc[h] = "held"
  /\ Goto(h, IF claim[h] = Ready(expected[h]) THEN "load" ELSE "restore")
  /\ UNCHANGED <<store, now, expected, limit, claim, candidate, out, synthLocals>>

LoadRow(h) ==
  /\ pc[h] = "load"
  /\ Goto(h, IF row = expected[h] THEN "discharge" ELSE "restore")
  /\ UNCHANGED <<store, now, expected, limit, claim, candidate, out, synthLocals>>

(* Mutant: whatever was renamed expires.                                   *)
ExpireAnything(h) ==
  /\ pc[h] = "judge"
  /\ Goto(h, "expire")
  /\ UNCHANGED <<store, now, expected, limit, claim, candidate, out, synthLocals>>

(* fold_debt after the rename: a ready marker that slipped in is restored, *)
(* anything else expires.                                                  *)
JudgeClaim(h) ==
  /\ pc[h] = "judge"
  /\ Goto(h, IF claim[h].state = "ready" THEN "restore" ELSE "expire")
  /\ UNCHANGED <<store, now, expected, limit, claim, candidate, out, synthLocals>>

(* hard_link(pending, marker).  The link never replaces a marker that came *)
(* in meanwhile; a claim a sweep removed cannot be linked.                 *)
RestoreClaim(h) ==
  /\ pc[h] = "restore"
  /\ \/ claim[h] = Missing /\ Goto(h, "done") /\ UNCHANGED marker
     \/ claim[h] # Missing /\ marker = Missing /\ marker' = claim[h] /\ Goto(h, "unpend")
     \/ claim[h] # Missing /\ marker # Missing /\ UNCHANGED marker /\ Goto(h, "unpend")
  /\ UNCHANGED <<deadline, row, now, expected, limit, claim, candidate, out, synthLocals>>

RemovePending(h, from, to) ==
  /\ pc[h] = from
  /\ claim' = [claim EXCEPT ![h] = Missing]
  /\ Goto(h, to)
  /\ UNCHANGED <<store, now, expected, limit, candidate, out, synthLocals>>

DischargeClaim(h) == RemovePending(h, "discharge", "close")
ExpireClaim(h) == RemovePending(h, "expire", "lapse")
DropRestored(h) == RemovePending(h, "unpend", "done")

RemoveDeadline(h, from, to) ==
  /\ pc[h] = from
  /\ deadline' = None
  /\ Goto(h, to)
  /\ UNCHANGED <<marker, row, now, expected, limit, claim, candidate, out, synthLocals>>

CloseWindow(h) == RemoveDeadline(h, "close", "print")
LapseWindow(h) == RemoveDeadline(h, "lapse", "done")

(* Mutant: the row is read again when it is printed.                       *)
PrintCurrentRow(h) ==
  /\ pc[h] = "print"
  /\ row \in Keys
  /\ out' = [out EXCEPT ![h] = row]
  /\ Goto(h, "done")
  /\ UNCHANGED <<store, now, expected, limit, claim, candidate, synthLocals>>

(* The JSON reaches the host on stdout; the row was read at LoadRow.       *)
PrintOutput(h) ==
  /\ pc[h] = "print"
  /\ out' = [out EXCEPT ![h] = expected[h]]
  /\ Goto(h, "done")
  /\ UNCHANGED <<store, now, expected, limit, claim, candidate, synthLocals>>

(* A read that fails for another reason than absence counts as malformed   *)
(* content wherever the code reads.                                        *)
AfterFailedRead == [start |-> "fold", poll |-> "recheck", recheck |-> "fold",
                    join |-> "fold", held |-> "restore", load |-> "restore",
                    judge |-> "expire"]

ReadFails(h) ==
  /\ Faults
  /\ pc[h] \in DOMAIN AfterFailedRead
  /\ Goto(h, AfterFailedRead[pc[h]])
  /\ UNCHANGED <<store, now, expected, limit, claim, candidate, out, synthLocals>>

(* The host kills a hook that outlives its timeout, and any other call     *)
(* that fails is returned with `?`: both leave the files where they are.   *)
StopHook(h) ==
  /\ "hook" \in Crashes
  /\ pc[h] \notin {"start", "done"}
  /\ Goto(h, "done")
  /\ UNCHANGED <<store, now, expected, limit, claim, candidate, out, synthLocals>>

(* What a hook process does once it has begun.                             *)
Proceed(h) ==
  \/ ReadClock(h) \/ CreateCandidate(h) \/ LinkDeadline(h) \/ JoinWindow(h)
  \/ Poll(h) \/ Recheck(h)
  \/ ClaimMarker(h) \/ CheckHeld(h) \/ LoadRow(h)
  \/ DischargeClaim(h) \/ CloseWindow(h) \/ PrintOutput(h)
  \/ FoldDebt(h) \/ JudgeClaim(h) \/ ExpireClaim(h) \/ LapseWindow(h)
  \/ RestoreClaim(h) \/ DropRestored(h)

HookStep(h) == ReadMarker(h) \/ Sleep(h) \/ Proceed(h) \/ ReadFails(h) \/ StopHook(h)

-----------------------------------------------------------------------------
(* The capture: synthesize and prepare_debt in the hook process, then the  *)
(* detached worker.  The host runs the capture hooks of a session one      *)
(* after another, but it does not wait for a worker.                       *)

Preparing == {"idle", "clear", "list", "sweep", "mark", "detach"}

MayBegin(s) ==
  s > 1 => step[s - 1] \notin (IF Overlap THEN Preparing ELSE SynthSteps \ {"done"})

Begin(s) ==
  /\ step[s] = "idle"
  /\ MayBegin(s)
  /\ Advance(s, "clear")
  /\ UNCHANGED <<store, now, hookLocals, listed, published>>

ClearDeadline(s) ==
  /\ step[s] = "clear"
  /\ deadline' = None
  /\ Advance(s, "list")
  /\ UNCHANGED <<marker, row, now, hookLocals, listed, published>>

(* read_dir: every entry present now will be returned, one created later   *)
(* may be.  An unreadable directory skips the sweep.                       *)
ListScraps(s) ==
  /\ step[s] = "list"
  /\ \/ listed' = Scraps /\ Advance(s, "sweep")
     \/ Faults /\ UNCHANGED listed /\ Advance(s, "mark")
  /\ UNCHANGED <<store, now, hookLocals, published>>

Sweep(s) ==
  /\ step[s] = "sweep"
  /\ \/ \E h \in Claims : claim' = [claim EXCEPT ![h] = Missing] /\ UNCHANGED candidate
     \/ \E h \in candidate : candidate' = candidate \ {h} /\ UNCHANGED claim
  /\ UNCHANGED <<store, now, pc, expected, limit, out, synthLocals>>

EndSweep(s) ==
  /\ step[s] = "sweep"
  /\ listed \cap Scraps = {} \/ Faults
  /\ listed' = {}
  /\ Advance(s, "mark")
  /\ UNCHANGED <<store, now, hookLocals, published>>

MarkOngoing(s) ==
  /\ step[s] = "mark"
  /\ marker' = Ongoing(s)
  /\ Advance(s, "detach")
  /\ UNCHANGED <<deadline, row, now, hookLocals, listed, published>>

Detach(s) ==
  /\ step[s] = "detach"
  /\ Advance(s, "work")
  /\ UNCHANGED <<store, now, hookLocals, listed, published>>

CannotDetach(s) ==
  /\ step[s] = "detach"
  /\ Faults
  /\ Advance(s, "drop")
  /\ UNCHANGED <<store, now, hookLocals, listed, published>>

(* Mutant: a failed extraction returns without dropping the marker.        *)
ExtractOrLeave(s) ==
  /\ step[s] = "work"
  /\ Advance(s, "save") \/ Advance(s, "done")
  /\ UNCHANGED <<store, now, hookLocals, listed, published>>

(* Mutant: the marker is flipped before the row is written.                *)
ExtractThenPublish(s) ==
  /\ step[s] = "work"
  /\ Advance(s, "publish") \/ Advance(s, "drop")
  /\ UNCHANGED <<store, now, hookLocals, listed, published>>

(* Journal window and extraction: a handoff, or nothing (an empty window,  *)
(* an agent that failed, timed out or answered nothing usable).            *)
Extract(s) ==
  /\ step[s] = "work"
  /\ Advance(s, "save") \/ Advance(s, "drop")
  /\ UNCHANGED <<store, now, hookLocals, listed, published>>

SaveRow(s) ==
  /\ step[s] = "save"
  /\ \/ row' = s /\ Advance(s, "publish")
     \/ Faults /\ UNCHANGED row /\ Advance(s, "drop")
  /\ UNCHANGED <<marker, deadline, now, hookLocals, listed, published>>

MarkReady(s) ==
  /\ step[s] = "publish"
  /\ \/ marker' = Ready(s) /\ published' = published \cup {s} /\ Advance(s, "done")
     \/ Faults /\ UNCHANGED <<marker, published>> /\ Advance(s, "drop")
  /\ UNCHANGED <<deadline, row, now, hookLocals, listed>>

(* Whatever marker is there goes, whoever wrote it.                        *)
DropMarker(s) ==
  /\ step[s] = "drop"
  /\ marker' = Missing \/ (Faults /\ UNCHANGED marker)
  /\ Advance(s, "done")
  /\ UNCHANGED <<deadline, row, now, hookLocals, listed, published>>

(* A capture hook killed by its timeout or stopped by a failed call, or a  *)
(* worker that dies: nothing is cleaned up.                                *)
StopSynth(s) ==
  /\ "worker" \in Crashes
  /\ step[s] \notin {"idle", "done"}
  /\ Advance(s, "done")
  /\ listed' = {}
  /\ UNCHANGED <<store, now, hookLocals, published>>

SynthStep(s) ==
  \/ Begin(s) \/ ClearDeadline(s) \/ ListScraps(s) \/ Sweep(s) \/ EndSweep(s)
  \/ MarkOngoing(s) \/ Detach(s) \/ CannotDetach(s) \/ Extract(s) \/ SaveRow(s)
  \/ MarkReady(s) \/ DropMarker(s) \/ StopSynth(s)

-----------------------------------------------------------------------------
(* Past the Horizon only waiting hooks make the clock matter.              *)
Tick ==
  /\ now < Horizon \/ \E h \in Hooks : pc[h] = "poll" /\ now < limit[h]
  /\ now' = now + 1
  /\ UNCHANGED <<store, hookLocals, synthLocals>>

(* Every hook has returned and every capture is over.                      *)
Finished ==
  /\ \A h \in Hooks : pc[h] = "done"
  /\ \A s \in Debts : step[s] = "done"
  /\ UNCHANGED vars

Next ==
  \/ \E h \in Hooks : HookStep(h)
  \/ \E s \in Debts : SynthStep(s)
  \/ Tick
  \/ Finished

(* A process that began keeps running and time passes.  The host owes      *)
(* nobody a hook or a compaction, and nothing here relies on an extraction *)
(* ever coming back.                                                       *)
Fairness ==
  /\ \A h \in Hooks : WF_vars(Proceed(h))
  /\ WF_vars(Tick)

Spec == Init /\ [][Next]_vars /\ Fairness

-----------------------------------------------------------------------------
TypeOK ==
  /\ marker \in Markers
  /\ deadline \in Deadlines
  /\ row \in Rows
  /\ now \in Nat
  /\ pc \in [Hooks -> HookSteps]
  /\ expected \in [Hooks -> Keys]
  /\ limit \in [Hooks -> Nat]
  /\ claim \in [Hooks -> Markers]
  /\ candidate \subseteq Hooks
  /\ out \in [Hooks -> Keys \cup {None}]
  /\ step \in [Debts -> SynthSteps]
  /\ listed \subseteq Hooks \X {"claim", "candidate"}
  /\ published \subseteq Debts

(* No snapshot is printed by two hooks: the rename gives the marker that   *)
(* names it to one process, and restore_claim puts it back before letting  *)
(* go.  Holds with overlapping workers, crashes and failing calls.         *)
AtMostOnce ==
  \A g, h \in Hooks : out[g] = out[h] /\ out[g] # None => g = h

(* The hooks that hold the claim on snapshot k, up to the moment they      *)
(* print it or put its marker back.                                        *)
Carries(h, k) ==
  \/ pc[h] \in {"held", "judge", "restore"} /\ claim[h] = Ready(k)
  \/ pc[h] \in {"load", "discharge", "close", "print"} /\ expected[h] = k

(* The session owes one snapshot in all: it compacts once, and no earlier  *)
(* life left one that is ready.                                            *)
OneDebt == NumDebts = 1 /\ \A l \in Leftovers : l.marker.state # "ready"

(* Nor did one leave any other marker.                                     *)
SettledAtFirst == \A l \in Leftovers : l.marker = Missing

(* The latest debt's snapshot, once ready, stays deliverable until a hook  *)
(* prints it: its row is stored, and its marker is in place or with a hook *)
(* that will print the row or put the marker back.  This is what fold_debt *)
(* says of a snapshot that becomes ready while its debt is being expired.  *)
ReadySurvives ==
  \A k \in published :
    (\A j \in Debts : j > k => step[j] = "idle")
      => \/ \E h \in Hooks : out[h] = k
         \/ row = k /\ (marker = Ready(k) \/ \E h \in Hooks : Carries(h, k))

(* Hooks that wait for one debt wait for one deadline, so the debt costs   *)
(* the session a single budget however many hooks fire meanwhile.          *)
OneWindow ==
  marker.state = "ongoing" =>
    \A g, h \in Hooks : pc[g] = "poll" /\ pc[h] \in {"poll", "recheck"} => limit[g] = limit[h]

(* An ongoing marker means that its capture still runs.  A worker that     *)
(* fails takes its marker away, also when hooks fold the debt meanwhile.   *)
OngoingHasWorker ==
  \A s \in Debts : marker = Ongoing(s) => step[s] \notin {"idle", "done"}

(* A ready marker never names a snapshot whose row is not stored yet, and  *)
(* the row behind it is that snapshot or a later one: work saves before    *)
(* synthesize marks ready, and a restored marker is never ahead of it.     *)
ReadyIsStored ==
  \A k \in Debts : marker = Ready(k) => row \in Keys /\ row >= k

(* At rest, a ready marker names the row that is stored: otherwise every   *)
(* later hook claims it, finds another key and restores it, and nothing is *)
(* delivered until the next compaction.                                    *)
RestIsDeliverable ==
  (/\ \A s \in Debts : step[s] \in {"idle", "done"}
   /\ \A h \in Hooks : pc[h] \in {"start", "done"})
     => \A k \in published : marker = Ready(k) => row = k

(* A hook discharges exactly the marker it names: the file it is about to  *)
(* remove holds the key it expected, or a later capture swept it away.     *)
ExactDischarge ==
  \A h \in Hooks : pc[h] \in {"load", "discharge"} => claim[h] \in {Missing, Ready(expected[h])}

(* The inductive invariant behind AtMostOnce, ExactDischarge and the       *)
(* refinement below.  A ready snapshot is one token: it is the marker, or  *)
(* it is with one hook, which carries it or has printed it; it exists only *)
(* since the end of the capture that made it ready; and a hook that is     *)
(* going to discharge its pending file knows what is in it, which is why a *)
(* hook that puts a claim back puts back what it took.                     *)
Holds(h, k) == Carries(h, k) \/ out[h] = k

OneToken ==
  \A k \in Keys, g \in Hooks : Holds(g, k) =>
    marker # Ready(k) /\ \A h \in Hooks : Holds(h, k) => g = h

TokenIsOffered ==
  \A k \in Keys : marker = Ready(k) \/ (\E h \in Hooks : Holds(h, k)) => k \in {0} \cup published

OfferedIsOver == \A s \in published : step[s] = "done"

PrintedIsOver == \A h \in Hooks : out[h] # None => pc[h] = "done"

DeliveryInv == OneToken /\ TokenIsOffered /\ OfferedIsOver /\ PrintedIsOver /\ ExactDischarge

(* Every hook comes back, whatever the worker does: it hangs, it dies, or  *)
(* its marker comes and goes.                                              *)
HookReturns == \A h \in Hooks : pc[h] # "start" ~> pc[h] = "done"

(* An ongoing marker that a hook waits for does not outlive the window,    *)
(* even if its worker died without cleaning up.                            *)
OrphanIsFolded ==
  \A h \in Hooks, s \in Keys : (pc[h] = "poll" /\ marker = Ongoing(s)) ~> marker # Ongoing(s)

(* The protocol implements Injection: what the hooks print is what they    *)
(* inject, and a snapshot is offered when its ready marker is written.     *)
Abstract == INSTANCE Injection WITH
  Snapshots <- Keys, Earlier <- {0}, offered <- {0} \cup published, injected <- out

ImplementsInjection == Abstract!Spec

=============================================================================

-------------------------- MODULE StoreHomeProofs ---------------------------
(***************************************************************************)
(* Theorems about StoreHome, for every set of processes, every mix of      *)
(* commands, every home directory and every call that may fail.            *)
(***************************************************************************)
EXTENDS StoreHome, FiniteSetTheorems, TLAPS

(* What a process has at each step.                                        *)
Resolved == {"mkdir", "measure", "rotate", "open log", "peek", "look base", "create base",
             "look cortex", "create cortex", "restrict base", "restrict cortex", "work"}
InRedirect == {"redirect", "mkdir", "measure", "rotate", "open log", "input"}

AtStep(p) ==
  /\ pc[p] # "idle" => kind[p] \in Kinds[p]
  /\ pc[p] \in InRedirect => kind[p] \in Hooks
  /\ pc[p] = "peek" => kind[p] = "peek"
  /\ pc[p] \in Resolved => home[p] \in Bases
  /\ pc[p] \in {"measure", "rotate", "open log"} /\ p \notin faulted => Exists(home[p], "base")
  /\ pc[p] \in {"look cortex", "create cortex", "restrict base", "restrict cortex", "work"}
       => Exists(home[p], "base")
  /\ pc[p] \in {"restrict base", "restrict cortex"} => Exists(home[p], "cortex")

Known == TypeOK /\ \A p \in Procs : AtStep(p)

USE DEF Goto, disk, history, Exists, May, Resolve, Resolved, InRedirect

LEMMA InitKnown == Init => Known
  <1> SUFFICES ASSUME Init PROVE Known
    OBVIOUS
  <1> USE StoreHomeAssumption
  <1>1. PICK h \in Homes : local = h.local /\ dir = h.dir /\ rows = h.rows /\ log = h.log
    BY DEF Init
  <1>2. /\ local \in BOOLEAN /\ dir \in [Dirs -> Modes] /\ rows \subseteq Bases
        /\ log \in [Bases -> Logs \cup {None}]
    BY <1>1 DEF Logs
  <1>3. notes \in [Logs -> SUBSET (Procs \cup OldNotes)]
    BY DEF Init
  <1>4. /\ pc \in [Procs -> Steps] /\ kind \in [Procs -> Hooks \cup {"command", "peek", "none"}]
        /\ home \in [Procs -> Bases \cup {None}] /\ stderr \in [Procs -> Logs \cup {None}]
        /\ lost \in [Procs -> Dirs \cup {None}] /\ maker \in [Dirs -> Procs \cup {None}]
        /\ faulted \subseteq Procs /\ hasty \in BOOLEAN
        /\ \A p \in Procs : pc[p] = "idle"
    BY DEF Init, Steps
  <1>5. TypeOK
    BY <1>2, <1>3, <1>4, Zenon DEF TypeOK
  <1> QED
    BY <1>4, <1>5 DEF Known, AtStep

-----------------------------------------------------------------------------
(* Every step keeps the shape of the state.                                *)

(* What a step of p never does, whichever it is.                           *)
PcStep(p) ==
  /\ pc' \in [Procs -> Steps] /\ pc'[p] # "idle"
  /\ kind' \in [Procs -> Hooks \cup {"command", "peek", "none"}]
  /\ \A q \in Procs : q # p => pc'[q] = pc[q] /\ kind'[q] = kind[q]
  /\ pc[p] # "idle" => kind' = kind
  /\ kind'[p] \in Kinds[p]

LEMMA StepPc ==
  ASSUME Known, NEW p \in Procs, Step(p)
  PROVE  PcStep(p)
  <1> USE StoreHomeAssumption DEF Known, TypeOK, AtStep, PcStep
  <1>1. CASE Begin(p)
    <2>1. PICK k \in Kinds[p] :
             /\ kind' = [kind EXCEPT ![p] = k]
             /\ pc' = [pc EXCEPT ![p] = IF k \in Hooks THEN "redirect" ELSE "resolve"]
      BY <1>1 DEF Begin
    <2>2. k \in Hooks \cup {"command", "peek", "none"}
      OBVIOUS
    <2> QED
      BY <1>1, <2>1, <2>2 DEF Begin, Steps
  <1>2. CASE ~Begin(p)
    <2>1. \E to \in Steps \ {"idle"} : pc' = [pc EXCEPT ![p] = to]
      <3>1. CASE ResolveLog(p) \/ MakeLogDir(p) \/ MeasureLog(p) \/ RotateLog(p)
                   \/ OpenLog(p) \/ ReadInput(p) \/ ResolveStore(p) \/ OpenExisting(p)
        BY <3>1 DEF ResolveLog, MakeLogDir, MeasureLog, RotateLog, OpenLog, ReadInput,
                    ResolveStore, OpenExisting, Steps
      <3>2. CASE OpenStore(p)
        BY <3>2 DEF OpenStore, LookFor, CreateDir, RestrictDir, Steps
      <3>3. CASE Work(p) \/ PrintError(p) \/ Die(p)
        BY <3>3 DEF Work, PrintError, Die, Steps
      <3> QED
        BY <1>2, <3>1, <3>2, <3>3 DEF Step
    <2>2. kind' = kind /\ pc[p] # "idle"
      <3>1. CASE ResolveLog(p) \/ MakeLogDir(p) \/ MeasureLog(p) \/ RotateLog(p)
                   \/ OpenLog(p) \/ ReadInput(p) \/ ResolveStore(p) \/ OpenExisting(p)
        BY <3>1 DEF ResolveLog, MakeLogDir, MeasureLog, RotateLog, OpenLog, ReadInput,
                    ResolveStore, OpenExisting
      <3>2. CASE OpenStore(p)
        BY <3>2 DEF OpenStore, LookFor, CreateDir, RestrictDir
      <3>3. CASE Work(p) \/ PrintError(p) \/ Die(p)
        BY <3>3 DEF Work, PrintError, Die
      <3> QED
        BY <1>2, <3>1, <3>2, <3>3 DEF Step
    <2>3. PICK to \in Steps \ {"idle"} : pc' = [pc EXCEPT ![p] = to]
      BY <2>1
    <2>4. /\ pc' \in [Procs -> Steps] /\ pc'[p] # "idle"
          /\ \A q \in Procs : q # p => pc'[q] = pc[q]
      BY <2>3
    <2> QED
      BY <2>2, <2>4
  <1> QED
    BY <1>1, <1>2

(* The steps that touch no directory.                                      *)
LEMMA DirsUntouched ==
  ASSUME NEW p \in Procs,
         \/ Begin(p) \/ ResolveLog(p) \/ MeasureLog(p) \/ RotateLog(p) \/ OpenLog(p)
         \/ ReadInput(p) \/ ResolveStore(p) \/ OpenExisting(p) \/ Work(p) \/ PrintError(p) \/ Die(p)
         \/ \E part, from, create, next : LookFor(p, part, from, create, next)
  PROVE  UNCHANGED <<local, dir, maker>> /\ (faulted' = faulted \/ faulted' = faulted \cup {p})
  BY DEF Begin, ResolveLog, MeasureLog, RotateLog, OpenLog, ReadInput, ResolveStore, OpenExisting,
         Work, PrintError, Die, LookFor

(* A directory is never removed, keeps its maker, and once private stays   *)
(* private; the process that makes one has resolved it and is at a step    *)
(* that creates it.                                                        *)
Makes(p, d) ==
  d[1] = home[p] /\ pc[p] \in IF d[2] = "base" THEN {"mkdir", "create base"} ELSE {"create cortex"}

DirStep(p) ==
  /\ dir' \in [Dirs -> Modes] /\ maker' \in [Dirs -> Procs \cup {None}] /\ local' \in BOOLEAN
  /\ faulted' = faulted \/ faulted' = faulted \cup {p}
  /\ local => local'
  /\ local' => local \/ home[p] = "share"
  /\ \A d \in Dirs : /\ dir[d] = "private" => dir'[d] = "private"
                     /\ dir[d] # "absent" => dir'[d] # "absent" /\ maker'[d] = maker[d]
                     /\ dir[d] = "absent" /\ dir'[d] # "absent" => maker'[d] = p /\ Makes(p, d)

LEMMA StepDirs ==
  ASSUME Known, NEW p \in Procs, Step(p)
  PROVE  DirStep(p)
  <1> DEFINE Kept == UNCHANGED <<local, dir, maker>>
  <1> USE DEF DirStep
  <1>1. dir \in [Dirs -> Modes] /\ maker \in [Dirs -> Procs \cup {None}] /\ local \in BOOLEAN
    BY Zenon DEF Known, TypeOK
  <1>2. CASE Kept /\ (faulted' = faulted \/ faulted' = faulted \cup {p})
    BY <1>1, <1>2
  <1>3. ASSUME NEW d \in Dirs, d[1] = home[p], dir[d] = "absent", Makes(p, d), faulted' = faulted,
               NEW m \in Modes \ {"absent"},
               dir' = [dir EXCEPT ![d] = m], maker' = [maker EXCEPT ![d] = p],
               local' = (local \/ home[p] = "share")
        PROVE  DirStep(p)
    BY <1>1, <1>3
  <1>4. ASSUME NEW d \in Dirs, dir[d] # "absent", faulted' = faulted,
               dir' = [dir EXCEPT ![d] = "private"], UNCHANGED <<maker, local>>
        PROVE  DirStep(p)
    BY <1>1, <1>4 DEF Modes
  <1>5. ASSUME UNCHANGED <<dir, maker>>, local' = (local \/ home[p] = "share"),
               faulted' = faulted \/ faulted' = faulted \cup {p}
        PROVE  DirStep(p)
    BY <1>1, <1>5
  <1>6. CASE MakeLogDir(p)
    <2>1. home[p] \in Bases /\ <<home[p], "base">> \in Dirs
      BY <1>6 DEF MakeLogDir, Known, AtStep, Dirs, Parts
    <2>2. Makes(p, <<home[p], "base">>)
      BY <1>6 DEF MakeLogDir, Makes
    <2>3. CASE ~Exists(home[p], "base") /\ dir' # dir
      BY <1>3, <1>6, <2>1, <2>2, <2>3 DEF MakeLogDir, Modes
    <2>4. CASE Exists(home[p], "base") \/ dir' = dir
      BY <1>1, <1>2, <1>6, <2>1, <2>4 DEF MakeLogDir
    <2> QED
      BY <2>3, <2>4
  <1>7. ASSUME NEW part \in Parts, NEW next,
               \/ part = "base" /\ CreateDir(p, part, "create base", next)
               \/ part = "cortex" /\ CreateDir(p, part, "create cortex", next)
        PROVE  DirStep(p)
    <2>1. home[p] \in Bases /\ <<home[p], part>> \in Dirs /\ Makes(p, <<home[p], part>>)
      BY <1>7 DEF CreateDir, Known, AtStep, Dirs, Makes
    <2>2. local' = (local \/ home[p] = "share")
      BY <1>7 DEF CreateDir
    <2>3. CASE UNCHANGED <<dir, maker>> /\ (faulted' = faulted \/ faulted' = faulted \cup {p})
      BY <1>5, <2>2, <2>3
    <2>4. CASE /\ dir[<<home[p], part>>] = "absent" /\ faulted' = faulted
               /\ dir' = [dir EXCEPT ![<<home[p], part>>] = "private"]
               /\ maker' = [maker EXCEPT ![<<home[p], part>>] = p]
      BY <1>3, <2>1, <2>2, <2>4 DEF Modes
    <2> QED
      BY <1>7, <2>3, <2>4 DEF CreateDir
  <1>8. ASSUME NEW part \in Parts, NEW next,
               \/ RestrictDir(p, part, "restrict base", next)
               \/ RestrictDir(p, part, "restrict cortex", next)
        PROVE  DirStep(p)
    <2>1. home[p] \in Bases /\ <<home[p], part>> \in Dirs /\ Exists(home[p], part)
      BY <1>8 DEF RestrictDir, Known, AtStep, Dirs, Parts
    <2> QED
      BY <1>2, <1>4, <1>8, <2>1 DEF RestrictDir
  <1> QED
    BY <1>2, <1>6, <1>7, <1>8, DirsUntouched DEF Step, OpenStore, Parts

LEMMA OpenStoreFrame ==
  ASSUME NEW p \in Procs, OpenStore(p)
  PROVE  /\ UNCHANGED <<kind, rows, log, notes, home, stderr, hasty>>
         /\ pc[p] \in {"look base", "create base", "look cortex", "create cortex", "restrict base",
                       "restrict cortex"}
         /\ \/ lost' = lost
            \/ \E part \in Parts : /\ pc[p] = IF part = "base" THEN "create base" ELSE "create cortex"
                                   /\ lost' = [lost EXCEPT ![p] = <<home[p], part>>]
                                   /\ Exists(home[p], part)
                                   /\ UNCHANGED <<dir, maker>>
  BY DEF OpenStore, LookFor, CreateDir, RestrictDir, Parts

LogStep(p) ==
  /\ log' \in [Bases -> Logs \cup {None}]
  /\ notes' \in [Logs -> SUBSET (Procs \cup OldNotes)]
  /\ home' \in [Procs -> Bases \cup {None}] /\ stderr' \in [Procs -> Logs \cup {None}]
  /\ lost' \in [Procs -> Dirs \cup {None}]
  /\ \A q \in Procs : q # p => home'[q] = home[q] /\ stderr'[q] = stderr[q] /\ lost'[q] = lost[q]
  /\ rows' = rows \/ (rows' = rows \cup {home[p]} /\ pc[p] = "work")
  /\ rows' \subseteq Bases
  /\ hasty' = hasty

LEMMA StepLog ==
  ASSUME Known, NEW p \in Procs, Step(p)
  PROVE  LogStep(p)
  <1> DEFINE Shape == /\ log \in [Bases -> Logs \cup {None}]
                      /\ notes \in [Logs -> SUBSET (Procs \cup OldNotes)]
                      /\ home \in [Procs -> Bases \cup {None}]
                      /\ stderr \in [Procs -> Logs \cup {None}]
                      /\ lost \in [Procs -> Dirs \cup {None}]
                      /\ rows \subseteq Bases
  <1> USE DEF LogStep
  <1>1. Shape
    BY Zenon DEF Known, TypeOK
  <1>2. CASE UNCHANGED <<rows, log, notes, home, stderr, lost, hasty>>
    BY <1>1, <1>2
  <1>3. CASE Begin(p) \/ MakeLogDir(p) \/ MeasureLog(p) \/ ReadInput(p) \/ OpenExisting(p) \/ Die(p)
    BY <1>2, <1>3 DEF Begin, MakeLogDir, MeasureLog, ReadInput, OpenExisting, Die
  <1>4. CASE ResolveLog(p) \/ ResolveStore(p)
    <2>1. BaseDir \in Bases
      BY DEF BaseDir, Bases
    <2>2. home' = [home EXCEPT ![p] = BaseDir] /\ UNCHANGED <<rows, log, notes, stderr, lost, hasty>>
      BY <1>4 DEF ResolveLog, ResolveStore
    <2> QED
      BY <1>1, <2>1, <2>2
  <1>5. CASE RotateLog(p)
    BY <1>1, <1>5 DEF RotateLog
  <1>6. CASE OpenLog(p)
    <2>1. home[p] \in Bases /\ p \in Logs /\ UNCHANGED <<rows, notes, home, lost, hasty>>
      BY <1>6 DEF OpenLog, Known, AtStep, Logs
    <2>2. CASE log' = log /\ stderr' = stderr
      BY <1>1, <2>1, <2>2
    <2>3. CASE /\ log' = [log EXCEPT ![home[p]] = IF @ = None THEN p ELSE @]
               /\ stderr' = [stderr EXCEPT ![p] = log'[home[p]]]
      <3>1. log' \in [Bases -> Logs \cup {None}]
        BY <1>1, <2>1, <2>3
      <3> QED
        BY <1>1, <2>1, <2>3, <3>1
    <2> QED
      BY <1>6, <2>2, <2>3 DEF OpenLog
  <1>7. CASE OpenStore(p)
    <2>1. home[p] \in Bases
      BY <1>7, OpenStoreFrame DEF Known, AtStep
    <2>2. UNCHANGED <<rows, log, notes, home, stderr, hasty>>
      BY <1>7, OpenStoreFrame
    <2>3. lost' = lost \/ \E d \in Dirs : lost' = [lost EXCEPT ![p] = d]
      BY <1>7, <2>1, OpenStoreFrame DEF Dirs
    <2> QED
      BY <1>1, <2>2, <2>3
  <1>8. CASE Work(p)
    <2>1. home[p] \in Bases
      BY <1>8 DEF Work, Known, AtStep
    <2> QED
      BY <1>1, <1>8, <2>1 DEF Work
  <1>9. CASE PrintError(p)
    BY <1>1, <1>9 DEF PrintError
  <1> QED
    BY <1>3, <1>4, <1>5, <1>6, <1>7, <1>8, <1>9 DEF Step

(* Past the log directory, and past each look, what was looked for exists. *)
LEMMA StepKnown ==
  ASSUME Known, NEW p \in Procs, Step(p)
  PROVE  Known'
  <1>1. PcStep(p) /\ DirStep(p) /\ LogStep(p)
    BY StepPc, StepDirs, StepLog
  <1>2. \A b \in Bases, part \in Parts : Exists(b, part) => Exists(b, part)'
    BY <1>1 DEF DirStep, Dirs
  <1>3. ASSUME NEW q \in Procs, q # p PROVE AtStep(q)'
    <2>1. AtStep(q) /\ pc'[q] = pc[q] /\ kind'[q] = kind[q] /\ home'[q] = home[q]
      BY <1>1, <1>3 DEF Known, PcStep, LogStep
    <2>2. q \in faulted => q \in faulted'
      BY <1>1 DEF DirStep
    <2> QED
      BY <1>2, <2>1, <2>2 DEF AtStep, Parts
  <1>4. AtStep(p)'
    <2>1. AtStep(p) /\ kind'[p] \in Kinds[p] /\ (pc[p] # "idle" => kind'[p] = kind[p])
      BY <1>1 DEF Known, PcStep
    <2>2. CASE Begin(p) \/ ResolveLog(p) \/ MeasureLog(p) \/ RotateLog(p) \/ OpenLog(p) \/ ReadInput(p)
      BY <2>1, <2>2 DEF Known, TypeOK, AtStep, Begin, ResolveLog, MeasureLog, RotateLog, OpenLog,
                        ReadInput, BaseDir, Bases
    <2>3. CASE ResolveStore(p) \/ OpenExisting(p) \/ Work(p) \/ PrintError(p) \/ Die(p)
      BY <2>1, <2>3 DEF Known, TypeOK, AtStep, ResolveStore, OpenExisting, Work, PrintError, Die,
                        BaseDir, Bases
    <2>4. CASE MakeLogDir(p)
      BY <2>1, <2>4 DEF Known, TypeOK, AtStep, MakeLogDir, Dirs, Parts
    <2>5. CASE OpenStore(p)
      <3>1. home'[p] = home[p] /\ home[p] \in Bases /\ kind'[p] = kind[p]
        BY <2>1, <2>5, OpenStoreFrame DEF AtStep
      <3>2. CASE \/ LookFor(p, "base", "look base", "create base", "look cortex")
                 \/ LookFor(p, "cortex", "look cortex", "create cortex", "restrict base")
        BY <2>1, <3>1, <3>2 DEF LookFor, AtStep, Known, TypeOK
      <3>3. CASE \/ CreateDir(p, "base", "create base", "look cortex")
                 \/ CreateDir(p, "cortex", "create cortex", "restrict base")
        <4>1. PICK part \in Parts, from \in Steps, next \in Steps :
                 /\ CreateDir(p, part, from, next)
                 /\ from = (IF part = "base" THEN "create base" ELSE "create cortex")
                 /\ next = (IF part = "base" THEN "look cortex" ELSE "restrict base")
          BY <3>3 DEF Parts, Steps
        <4>2. pc'[p] = "error" \/ (pc'[p] = next /\ Exists(home[p], part)')
          BY <3>1, <4>1 DEF CreateDir, Known, TypeOK, Dirs
        <4>3. part = "cortex" => Exists(home[p], "base")'
          BY <1>2, <2>1, <3>1, <4>1 DEF CreateDir, AtStep, Parts
        <4> QED
          BY <2>1, <3>1, <4>1, <4>2, <4>3 DEF AtStep, Parts
      <3>4. CASE \/ RestrictDir(p, "base", "restrict base", "restrict cortex")
                 \/ RestrictDir(p, "cortex", "restrict cortex", "work")
        <4>1. pc[p] \in {"restrict base", "restrict cortex"} /\ pc'[p] \in {"restrict cortex", "work"}
          BY <3>4 DEF RestrictDir, Known, TypeOK
        <4> QED
          BY <1>2, <2>1, <3>1, <4>1 DEF AtStep, Parts
      <3> QED
        BY <2>5, <3>2, <3>3, <3>4 DEF OpenStore
    <2> QED
      BY <2>2, <2>3, <2>4, <2>5 DEF Step
  <1>5. ASSUME NEW q \in Procs, pc'[q] = "input", q \notin faulted' PROVE stderr'[q] \in Logs
    <2>1. CASE pc[q] = "input"
      <3>1. q # p
        BY <1>5, <2>1 DEF Known, TypeOK, Step, Begin, ResolveLog, MakeLogDir, MeasureLog, RotateLog,
           OpenLog, ReadInput, ResolveStore, OpenExisting, OpenStore, LookFor, CreateDir,
           RestrictDir, Work, PrintError, Die
      <3> QED
        BY <1>1, <1>5, <2>1, <3>1 DEF Known, TypeOK, DirStep, LogStep
    <2>2. CASE pc[q] # "input"
      <3>1. q = p
        BY <1>1, <1>5, <2>2 DEF PcStep
      <3>2. OpenLog(p)
        BY <1>5, <2>2, <3>1 DEF Known, TypeOK, Step, Begin, ResolveLog, MakeLogDir, MeasureLog,
           RotateLog, ReadInput, ResolveStore, OpenExisting, OpenStore, LookFor, CreateDir,
           RestrictDir, Work, PrintError, Die
      <3>3. /\ Exists(home[p], "base") /\ home[p] \in Bases
        BY <1>1, <1>5, <3>1, <3>2 DEF OpenLog, Known, AtStep, DirStep
      <3>4. \/ /\ log' = [log EXCEPT ![home[p]] = IF @ = None THEN p ELSE @]
               /\ stderr' = [stderr EXCEPT ![p] = log'[home[p]]]
            \/ p \in faulted'
        BY <3>2, <3>3 DEF OpenLog
      <3> QED
        BY <1>5, <3>1, <3>3, <3>4 DEF Known, TypeOK, Logs
    <2> QED
      BY <2>1, <2>2
  <1>6. TypeOK'
    <2>1. faulted' \subseteq Procs /\ hasty' \in BOOLEAN
      <3>1. faulted \subseteq Procs /\ hasty \in BOOLEAN
        BY Zenon DEF Known, TypeOK
      <3> QED
        BY <1>1, <3>1 DEF DirStep, LogStep
    <2> QED
      BY <1>1, <1>5, <2>1, Zenon DEF TypeOK, PcStep, DirStep, LogStep
  <1> QED
    BY <1>3, <1>4, <1>6 DEF Known

LEMMA MakeLocalFrame ==
  ASSUME Known, MakeLocal
  PROVE  Known'
  BY DEF MakeLocal, Known, TypeOK, AtStep

LEMMA NextKnown == Known /\ [Next]_vars => Known'
  <1> SUFFICES ASSUME Known, [Next]_vars PROVE Known'
    OBVIOUS
  <1>1. CASE UNCHANGED vars
    BY <1>1 DEF vars, Known, TypeOK, AtStep
  <1> QED
    BY <1>1, StepKnown, MakeLocalFrame DEF Next, Finished

LEMMA KnownInvariant == Spec => []Known
  BY InitKnown, NextKnown, PTL DEF Spec

(* The state keeps its shape; a hook that met no failing call has the log  *)
(* as its stderr when it comes to read its payload.                        *)
THEOREM TypeCorrect == Spec => []TypeOK
  <1>1. Known => TypeOK
    BY DEF Known
  <1> QED
    BY <1>1, KnownInvariant, PTL

-----------------------------------------------------------------------------
(* Opened stores are private.                                              *)

Restricted(p) ==
  p \notin faulted =>
    /\ pc[p] = "restrict cortex" => dir[<<home[p], "base">>] = "private"
    /\ pc[p] = "work" /\ kind[p] # "peek" => \A part \in Parts : dir[<<home[p], part>>] = "private"

LEMMA StepRestricted ==
  ASSUME Known, Known', \A p \in Procs : Restricted(p), [Next]_vars
  PROVE  \A p \in Procs : Restricted(p)'
  <1>1. CASE UNCHANGED vars \/ MakeLocal
    BY <1>1 DEF vars, MakeLocal, Restricted
  <1>2. ASSUME NEW p \in Procs, Step(p), NEW q \in Procs PROVE Restricted(q)'
    <2>1. PcStep(p) /\ DirStep(p) /\ LogStep(p)
      BY <1>2, StepPc, StepDirs, StepLog
    <2>2. \A d \in Dirs : dir[d] = "private" => dir'[d] = "private"
      BY <2>1 DEF DirStep
    <2>3. q \in faulted => q \in faulted'
      BY <2>1 DEF DirStep
    <2>4. CASE q # p
      <3>1. pc'[q] = pc[q] /\ kind'[q] = kind[q] /\ home'[q] = home[q]
        BY <2>1, <2>4 DEF PcStep, LogStep
      <3>2. pc[q] \in {"restrict cortex", "work"} => home[q] \in Bases
        BY DEF Known, AtStep
      <3> QED
        BY <2>2, <2>3, <3>1, <3>2 DEF Restricted, Dirs, Parts
    <2>5. CASE q = p /\ RestrictDir(p, "base", "restrict base", "restrict cortex")
      <3>1. home[p] \in Bases /\ home' = home /\ kind' = kind /\ pc'[p] = "restrict cortex"
        BY <2>5 DEF RestrictDir, Known, AtStep, TypeOK
      <3>2. \/ dir' = [dir EXCEPT ![<<home[p], "base">>] = "private"]
            \/ p \in faulted'
        BY <2>5 DEF RestrictDir
      <3>3. dir \in [Dirs -> Modes] /\ <<home[p], "base">> \in Dirs
        BY <3>1, Zenon DEF Known, TypeOK, Dirs, Parts
      <3>4. p \notin faulted' => dir'[<<home[p], "base">>] = "private"
        BY <3>2, <3>3
      <3> QED
        BY <2>5, <3>1, <3>4 DEF Restricted
    <2>6. CASE q = p /\ RestrictDir(p, "cortex", "restrict cortex", "work")
      <3>1. home[p] \in Bases /\ home' = home /\ kind' = kind /\ pc'[p] = "work"
            /\ pc[p] = "restrict cortex"
        BY <2>6 DEF RestrictDir, Known, AtStep, TypeOK
      <3>2. \/ dir' = [dir EXCEPT ![<<home[p], "cortex">>] = "private"]
            \/ p \in faulted'
        BY <2>6 DEF RestrictDir
      <3>3. dir' \in [Dirs -> Modes] /\ dir \in [Dirs -> Modes]
        BY <2>1, Zenon DEF DirStep, Known, TypeOK
      <3>4. <<home[p], "base">> \in Dirs /\ <<home[p], "cortex">> \in Dirs
        BY <3>1 DEF Dirs, Parts
      <3>5. p \notin faulted' => dir'[<<home[p], "base">>] = "private"
        BY <2>2, <2>3, <2>6, <3>1, <3>4 DEF Restricted
      <3>6. p \notin faulted' => dir'[<<home[p], "cortex">>] = "private"
        BY <3>2, <3>3, <3>4
      <3> QED
        BY <2>6, <3>1, <3>5, <3>6 DEF Restricted, Parts
    <2>7. CASE q = p /\ OpenExisting(p)
      BY <2>7 DEF OpenExisting, Restricted, Known, TypeOK, AtStep
    <2>8. CASE /\ q = p /\ ~OpenExisting(p)
               /\ ~RestrictDir(p, "base", "restrict base", "restrict cortex")
               /\ ~RestrictDir(p, "cortex", "restrict cortex", "work")
      <3>1. pc'[p] \notin {"restrict cortex", "work"}
        BY <1>2, <2>8 DEF Known, TypeOK, Step, Begin, ResolveLog, MakeLogDir, MeasureLog, RotateLog,
           OpenLog, ReadInput, ResolveStore, OpenStore, LookFor, CreateDir, Work, PrintError, Die
      <3> QED
        BY <2>8, <3>1 DEF Restricted
    <2> QED
      BY <2>4, <2>5, <2>6, <2>7, <2>8
  <1> QED
    BY <1>1, <1>2 DEF Next, Finished

(* A process that works on a store it opened has both directories for the  *)
(* owner alone, whoever made them and with whatever mode, unless a call of *)
(* its own failed: what was private once stays so.                         *)
THEOREM OpenedPrivate == Spec => []OpenedIsPrivate
  <1>1. Init => \A p \in Procs : Restricted(p)
    BY DEF Init, Restricted
  <1>2. Known /\ Known' /\ (\A p \in Procs : Restricted(p)) /\ [Next]_vars
          => (\A p \in Procs : Restricted(p))'
    BY StepRestricted
  <1>3. (\A p \in Procs : Restricted(p)) => OpenedIsPrivate
    BY DEF Restricted, OpenedIsPrivate
  <1> QED
    BY <1>1, <1>2, <1>3, KnownInvariant, PTL DEF Spec

-----------------------------------------------------------------------------
(* Only a race refuses a directory.                                        *)

(* Between its look and its call, the directory can only have been made by *)
(* somebody else.                                                          *)
Refusable(p) ==
  \A part \in Parts :
    pc[p] = (IF part = "base" THEN "create base" ELSE "create cortex") /\ Exists(home[p], part)
      => maker[<<home[p], part>>] \in Procs \ {p}

Refused(p) ==
  lost[p] # None =>
    \E b \in Bases, part \in Parts :
      lost[p] = <<b, part>> /\ Exists(b, part) /\ maker[<<b, part>>] \in Procs \ {p}

RaceInv == \A p \in Procs : Refusable(p) /\ Refused(p)

LEMMA StepRefusable ==
  ASSUME Known, RaceInv, NEW p \in Procs, Step(p), NEW q \in Procs
  PROVE  Refusable(q)'
  <1>1. PcStep(p) /\ DirStep(p) /\ LogStep(p) /\ Refusable(q)
    BY StepPc, StepDirs, StepLog DEF RaceInv
  <1>2. SUFFICES ASSUME NEW part \in Parts, Exists(home[q], part)',
                        pc'[q] = IF part = "base" THEN "create base" ELSE "create cortex"
                 PROVE  maker'[<<home'[q], part>>] \in Procs \ {q}
    BY DEF Refusable
  <1>3. CASE q = p
    <2>1. ~Exists(home[p], part)'
      BY <1>2, <1>3 DEF Known, TypeOK, Parts, Step, Begin, ResolveLog, MakeLogDir, MeasureLog,
         RotateLog, OpenLog, ReadInput, ResolveStore, OpenExisting, OpenStore, LookFor, CreateDir,
         RestrictDir, Work, PrintError, Die
    <2> QED
      BY <1>2, <1>3, <2>1
  <1>4. CASE q # p
    <2>1. pc'[q] = pc[q] /\ home'[q] = home[q]
      BY <1>1, <1>4 DEF PcStep, LogStep
    <2>2. <<home[q], part>> \in Dirs
      BY <1>2, <2>1 DEF Known, AtStep, Dirs, Parts
    <2>3. CASE Exists(home[q], part)
      BY <1>1, <1>2, <2>1, <2>2, <2>3 DEF Refusable, DirStep
    <2>4. CASE ~Exists(home[q], part)
      BY <1>1, <1>2, <1>4, <2>1, <2>2, <2>4 DEF DirStep
    <2> QED
      BY <2>3, <2>4
  <1> QED
    BY <1>3, <1>4

LEMMA StepRefused ==
  ASSUME Known, RaceInv, NEW p \in Procs, Step(p), NEW q \in Procs
  PROVE  Refused(q)'
  <1>1. DirStep(p) /\ LogStep(p) /\ Refusable(q) /\ Refused(q)
    BY StepDirs, StepLog DEF RaceInv
  <1>2. ASSUME NEW b \in Bases, NEW part \in Parts, Exists(b, part)
        PROVE  Exists(b, part)' /\ maker'[<<b, part>>] = maker[<<b, part>>]
    <2>1. <<b, part>> \in Dirs
      BY DEF Dirs
    <2> QED
      BY <1>1, <1>2, <2>1 DEF DirStep
  <1>3. CASE lost'[q] = lost[q]
    BY <1>1, <1>2, <1>3 DEF Refused
  <1>4. CASE lost'[q] # lost[q]
    <2>1. q = p
      BY <1>1, <1>4 DEF LogStep
    <2>2. OpenStore(p)
      BY <1>4 DEF Step, Begin, ResolveLog, MakeLogDir, MeasureLog, RotateLog, OpenLog, ReadInput,
         ResolveStore, OpenExisting, Work, PrintError, Die
    <2>3. PICK part \in Parts : /\ pc[p] = IF part = "base" THEN "create base" ELSE "create cortex"
                                /\ lost' = [lost EXCEPT ![p] = <<home[p], part>>]
                                /\ Exists(home[p], part)
      BY <1>4, <2>2, OpenStoreFrame
    <2>4. lost'[q] = <<home[p], part>> /\ home[p] \in Bases
      BY <2>1, <2>3 DEF Known, TypeOK, AtStep, Parts
    <2>5. maker[<<home[p], part>>] \in Procs \ {p}
      BY <1>1, <2>1, <2>3 DEF Refusable
    <2> QED
      BY <1>2, <2>1, <2>3, <2>4, <2>5 DEF Refused
  <1> QED
    BY <1>3, <1>4

LEMMA NextRace ==
  ASSUME Known, RaceInv, [Next]_vars
  PROVE  RaceInv'
  <1>1. CASE UNCHANGED vars \/ MakeLocal
    BY <1>1 DEF vars, MakeLocal, RaceInv, Refusable, Refused
  <1>2. ASSUME NEW p \in Procs, Step(p) PROVE RaceInv'
    BY <1>2, StepRefusable, StepRefused DEF RaceInv
  <1> QED
    BY <1>1, <1>2 DEF Next, Finished

(* Whoever is refused a directory lost a race: it is there, and another    *)
(* process made it.                                                        *)
THEOREM OpenLosesRacesOnly == Spec => []OpenLosesOnlyRaces
  <1>1. Init => RaceInv
    BY DEF Init, RaceInv, Refusable, Refused, Parts
  <1>2. Known /\ RaceInv /\ [Next]_vars => RaceInv'
    BY NextRace
  <1>3. RaceInv => OpenLosesOnlyRaces
    <2> SUFFICES ASSUME RaceInv, NEW p \in Procs, lost[p] # None
                 PROVE  Exists(lost[p][1], lost[p][2]) /\ maker[lost[p]] \in Procs \ {p}
      BY DEF OpenLosesOnlyRaces
    <2>1. PICK b \in Bases, part \in Parts :
             lost[p] = <<b, part>> /\ Exists(b, part) /\ maker[<<b, part>>] \in Procs \ {p}
      BY DEF RaceInv, Refused
    <2> QED
      BY <2>1
  <1> QED
    BY <1>1, <1>2, <1>3, KnownInvariant, PTL DEF Spec

-----------------------------------------------------------------------------
(* The log.                                                                *)

BeforeLog == {"idle", "redirect", "mkdir", "measure", "rotate", "open log"}

(* How a step changes the log files: their names, who has them as stderr   *)
(* and what is in them.                                                    *)
LEMMA StepFiles ==
  ASSUME Known, NEW p \in Procs, Step(p)
  PROVE  /\ \A b \in Bases : \/ log'[b] = log[b]
                             \/ log'[b] = None /\ pc[p] = "rotate"
                             \/ log[b] = None /\ log'[b] = p
         /\ \/ stderr'[p] = stderr[p]
            \/ pc[p] = "open log" /\ stderr'[p] = log'[home[p]]
         /\ pc'[p] \in BeforeLog => stderr'[p] = stderr[p] /\ pc[p] \in BeforeLog
         /\ notes' = notes \/ PrintError(p)
  <1>1. CASE UNCHANGED <<log, stderr, notes>> /\ (pc'[p] \in BeforeLog => pc[p] \in BeforeLog)
    BY <1>1
  <1>2. CASE Begin(p) \/ ResolveLog(p) \/ MakeLogDir(p) \/ MeasureLog(p) \/ ReadInput(p)
               \/ ResolveStore(p) \/ OpenExisting(p) \/ Work(p) \/ Die(p)
    BY <1>1, <1>2 DEF Begin, ResolveLog, MakeLogDir, MeasureLog, ReadInput, ResolveStore,
       OpenExisting, Work, Die, BeforeLog, Known, TypeOK
  <1>3. CASE OpenStore(p)
    <2>1. pc'[p] \notin BeforeLog
      BY <1>3 DEF OpenStore, LookFor, CreateDir, RestrictDir, Known, TypeOK, BeforeLog
    <2> QED
      BY <1>1, <1>3, <2>1, OpenStoreFrame
  <1>4. CASE RotateLog(p)
    BY <1>4 DEF RotateLog, Known, TypeOK, BeforeLog
  <1>5. CASE OpenLog(p)
    <2>1. home[p] \in Bases /\ notes' = notes /\ pc[p] = "open log" /\ pc'[p] = "input"
      BY <1>5 DEF OpenLog, Known, TypeOK, AtStep
    <2>2. \/ log' = log /\ stderr' = stderr
          \/ /\ log' = [log EXCEPT ![home[p]] = IF @ = None THEN p ELSE @]
             /\ stderr' = [stderr EXCEPT ![p] = log'[home[p]]]
      BY <1>5 DEF OpenLog
    <2> QED
      BY <2>1, <2>2 DEF Known, TypeOK, BeforeLog
  <1>6. CASE PrintError(p)
    BY <1>6 DEF PrintError, Known, TypeOK, BeforeLog
  <1> QED
    BY <1>2, <1>3, <1>4, <1>5, <1>6 DEF Step

(* Whoever wrote in a file has it as stderr, and the notes of an earlier   *)
(* life are in a file somebody uses only if they were found to be few.     *)
NotesOfUsers ==
  /\ \A f \in Logs : \A n \in notes[f] :
       (n \in Procs /\ stderr[n] = f) \/ (f = "old" /\ n \in OldNotes)
  /\ OldNotes \subseteq notes["old"]
  /\ \A p \in Procs : pc[p] \in BeforeLog => stderr[p] = None

OldIsShort(p) ==
  (pc[p] = "open log" /\ log[home[p]] = "old") \/ stderr[p] = "old"
    => Cardinality(OldNotes) <= MaxLog

LogInv == NotesOfUsers /\ \A p \in Procs : OldIsShort(p)

(* A file that was found short holds few notes of an earlier life.         *)
LEMMA FewOldNotes ==
  ASSUME Known, NotesOfUsers, NEW b \in Bases, log[b] = "old", ~LogIsLong(b)
  PROVE  Cardinality(OldNotes) <= MaxLog
  <1>1. IsFiniteSet(Procs \cup OldNotes) /\ None # "old" /\ MaxLog \in Nat
    BY StoreHomeAssumption, FS_Union DEF Logs
  <1>2. notes["old"] \subseteq Procs \cup OldNotes /\ OldNotes \subseteq notes["old"]
    BY DEF Known, TypeOK, Logs, NotesOfUsers
  <1>3. IsFiniteSet(notes["old"]) /\ IsFiniteSet(OldNotes)
    BY <1>1, <1>2, FS_Subset
  <1>4. /\ Cardinality(OldNotes) <= Cardinality(notes["old"])
        /\ Cardinality(OldNotes) \in Nat /\ Cardinality(notes["old"]) \in Nat
    BY <1>2, <1>3, FS_Subset, FS_CardinalityType
  <1>5. ~(Cardinality(notes["old"]) > MaxLog)
    BY <1>1 DEF LogIsLong
  <1> QED
    BY <1>1, <1>4, <1>5

LEMMA StepNotes ==
  ASSUME Known, LogInv, NEW p \in Procs, Step(p)
  PROVE  NotesOfUsers'
  <1>1. /\ stderr'[p] = stderr[p] \/ pc[p] = "open log"
        /\ pc'[p] \in BeforeLog => stderr'[p] = stderr[p] /\ pc[p] \in BeforeLog
        /\ notes' = notes \/ PrintError(p)
        /\ \A q \in Procs : q # p => stderr'[q] = stderr[q] /\ pc'[q] = pc[q]
    <2>1. LogStep(p) /\ PcStep(p)
      BY StepLog, StepPc
    <2>2. \A q \in Procs : q # p => stderr'[q] = stderr[q] /\ pc'[q] = pc[q]
      BY <2>1 DEF LogStep, PcStep
    <2> QED
      BY <2>2, StepFiles
  <1>2. \A q \in Procs : pc'[q] \in BeforeLog => stderr'[q] = None
    BY <1>1 DEF LogInv, NotesOfUsers
  <1>3. None \notin Logs /\ "old" \in Logs
    BY StoreHomeAssumption DEF Logs
  <1>4. \A q \in Procs : stderr[q] # None => stderr'[q] = stderr[q]
    BY <1>1, <1>3 DEF LogInv, NotesOfUsers, BeforeLog
  <1>5. ASSUME NEW f \in Logs, NEW n \in notes'[f]
        PROVE  (n \in Procs /\ stderr'[n] = f) \/ (f = "old" /\ n \in OldNotes)
    <2>1. CASE n \in notes[f]
      BY <1>3, <1>4, <2>1 DEF LogInv, NotesOfUsers
    <2>2. CASE n \notin notes[f]
      <3>1. PrintError(p) /\ n \in notes'[f]
        BY <1>1, <1>5, <2>2
      <3>2. /\ notes'[f] = IF f = stderr[p] THEN notes[f] \cup {p} ELSE notes[f]
            /\ stderr' = stderr
        BY <3>1 DEF PrintError
      <3> QED
        BY <2>2, <3>1, <3>2
    <2> QED
      BY <2>1, <2>2
  <1>6. OldNotes \subseteq notes'["old"]
    BY <1>1, <1>3 DEF LogInv, NotesOfUsers, PrintError
  <1> QED
    BY <1>2, <1>5, <1>6 DEF NotesOfUsers

LEMMA StepOldIsShort ==
  ASSUME Known, Known', LogInv, NEW p \in Procs, Step(p), NEW q \in Procs
  PROVE  OldIsShort(q)'
  <1>1. /\ \A b \in Bases : log'[b] = log[b] \/ log'[b] = None \/ log'[b] = p
        /\ \/ stderr'[p] = stderr[p]
           \/ pc[p] = "open log" /\ stderr'[p] = log'[home[p]]
        /\ \A r \in Procs : r # p => stderr'[r] = stderr[r] /\ pc'[r] = pc[r] /\ home'[r] = home[r]
    <2>1. LogStep(p) /\ PcStep(p)
      BY StepLog, StepPc
    <2>2. \A r \in Procs : r # p => stderr'[r] = stderr[r] /\ pc'[r] = pc[r] /\ home'[r] = home[r]
      BY <2>1 DEF LogStep, PcStep
    <2> QED
      BY <2>2, StepFiles
  <1>2. \A b \in Bases : log'[b] = "old" => log[b] = "old"
    BY <1>1, StoreHomeAssumption DEF Logs
  <1>3. OldIsShort(q) /\ OldIsShort(p)
    BY DEF LogInv
  <1>4. CASE stderr'[q] = "old"
    <2>1. CASE stderr'[q] = stderr[q]
      BY <1>3, <1>4, <2>1 DEF OldIsShort
    <2>2. CASE stderr'[q] # stderr[q]
      <3>1. q = p /\ pc[p] = "open log" /\ log'[home[p]] = "old" /\ home[p] \in Bases
        BY <1>1, <1>4, <2>2 DEF Known, AtStep
      <3> QED
        BY <1>2, <1>3, <3>1 DEF OldIsShort
    <2> QED
      BY <2>1, <2>2
  <1>5. CASE pc'[q] = "open log" /\ log'[home'[q]] = "old"
    <2>1. home'[q] \in Bases
      BY <1>5 DEF Known, AtStep
    <2>2. CASE q # p
      BY <1>1, <1>2, <1>3, <1>5, <2>1, <2>2 DEF OldIsShort
    <2>3. CASE q = p
      <3>1. MeasureLog(p) \/ RotateLog(p)
        BY <1>5, <2>3 DEF Known, TypeOK, Step, Begin, ResolveLog, MakeLogDir, OpenLog, ReadInput,
           ResolveStore, OpenExisting, OpenStore, LookFor, CreateDir, RestrictDir, Work, PrintError, Die
      <3>2. CASE MeasureLog(p)
        <4>1. home'[p] = home[p] /\ log'[home[p]] = log[home[p]] /\ ~LogIsLong(home[p])
          BY <1>5, <2>3, <3>2 DEF MeasureLog, Known, TypeOK
        <4>2. Cardinality(OldNotes) <= MaxLog
          BY <1>5, <2>1, <2>3, <4>1, FewOldNotes DEF LogInv
        <4> QED
          BY <4>2 DEF OldIsShort
      <3>3. CASE RotateLog(p)
        <4>1. home'[p] = home[p] /\ log'[home[p]] = None
          BY <2>1, <2>3, <3>3 DEF RotateLog, Known, TypeOK
        <4> QED
          BY <1>5, <2>3, <4>1, StoreHomeAssumption DEF Logs
      <3> QED
        BY <3>1, <3>2, <3>3
    <2> QED
      BY <2>2, <2>3
  <1> QED
    BY <1>4, <1>5 DEF OldIsShort

LEMMA NextLog ==
  ASSUME Known, Known', LogInv, [Next]_vars
  PROVE  LogInv'
  <1>1. CASE UNCHANGED vars \/ MakeLocal
    BY <1>1 DEF vars, MakeLocal, LogInv, NotesOfUsers, OldIsShort
  <1>2. ASSUME NEW p \in Procs, Step(p) PROVE LogInv'
    BY <1>2, StepNotes, StepOldIsShort DEF LogInv
  <1> QED
    BY <1>1, <1>2 DEF Next, Finished

LEMMA LogInvariant == Spec => []LogInv
  <1>1. Init => LogInv
    <2> SUFFICES ASSUME Init PROVE LogInv
      OBVIOUS
    <2>1. None # "old" /\ "old" \in Logs
      BY StoreHomeAssumption DEF Logs
    <2>2. /\ \A p \in Procs : pc[p] = "idle" /\ stderr[p] = None
          /\ notes = [f \in Logs |-> IF f = "old" THEN OldNotes ELSE {}]
      BY DEF Init
    <2>3. NotesOfUsers
      BY <2>1, <2>2 DEF NotesOfUsers
    <2>4. \A p \in Procs : OldIsShort(p)
      BY <2>1, <2>2 DEF OldIsShort
    <2> QED
      BY <2>3, <2>4 DEF LogInv
  <1>2. Known /\ Known' /\ LogInv /\ [Next]_vars => LogInv'
    BY NextLog
  <1> QED
    BY <1>1, <1>2, KnownInvariant, PTL DEF Spec

(* A log in use holds at most MaxLog notes and one of each of its users:   *)
(* the notes of an earlier life are only there if they were few when one   *)
(* of them looked.                                                         *)
THEOREM LogStaysShort == Spec => []LogIsShort
  <1>1. Known /\ LogInv => LogIsShort
    <2> SUFFICES ASSUME Known, LogInv, NEW b \in Bases, log[b] # None,
                        {p \in Procs : stderr[p] = log[b]} # {}
                 PROVE  Cardinality(notes[log[b]])
                          <= MaxLog + Cardinality({p \in Procs : stderr[p] = log[b]})
      BY DEF LogIsShort
    <2> DEFINE users == {p \in Procs : stderr[p] = log[b]}
    <2>1. log[b] \in Logs
      BY DEF Known, TypeOK
    <2>2. IsFiniteSet(Procs) /\ IsFiniteSet(OldNotes) /\ MaxLog \in Nat
      BY StoreHomeAssumption
    <2>3. IsFiniteSet(users) /\ Cardinality(users) \in Nat
      BY <2>2, FS_Subset, FS_CardinalityType
    <2>4. CASE log[b] # "old"
      <3>1. notes[log[b]] \subseteq users
        BY <2>1, <2>4 DEF LogInv, NotesOfUsers
      <3>2. Cardinality(notes[log[b]]) <= Cardinality(users) /\ Cardinality(notes[log[b]]) \in Nat
        BY <2>3, <3>1, FS_Subset, FS_CardinalityType
      <3> QED
        BY <2>2, <2>3, <3>2
    <2>5. CASE log[b] = "old"
      <3>1. notes[log[b]] \subseteq users \cup OldNotes
        BY <2>1, <2>5 DEF LogInv, NotesOfUsers
      <3>2. Cardinality(OldNotes) <= MaxLog /\ Cardinality(OldNotes) \in Nat
        BY <2>2, <2>5, FS_CardinalityType DEF LogInv, OldIsShort
      <3>3. /\ IsFiniteSet(users \cup OldNotes) /\ IsFiniteSet(users \cap OldNotes)
            /\ Cardinality(users \cup OldNotes)
                 = Cardinality(users) + Cardinality(OldNotes) - Cardinality(users \cap OldNotes)
        BY <2>2, <2>3, FS_Union, FS_Intersection
      <3>4. Cardinality(users \cap OldNotes) \in Nat /\ Cardinality(users \cup OldNotes) \in Nat
        BY <3>3, FS_CardinalityType
      <3>5. /\ Cardinality(notes[log[b]]) <= Cardinality(users \cup OldNotes)
            /\ Cardinality(notes[log[b]]) \in Nat
        BY <3>1, <3>3, FS_Subset, FS_CardinalityType
      <3> HIDE DEF users
      <3>6. Cardinality(notes[log[b]]) <= MaxLog + Cardinality(users)
        BY <2>2, <2>3, <3>2, <3>3, <3>4, <3>5
      <3> QED
        BY <3>6 DEF users
    <2> QED
      BY <2>4, <2>5
  <1> QED
    BY <1>1, KnownInvariant, LogInvariant, PTL

-----------------------------------------------------------------------------
(* The error of a hook is logged.                                          *)

Took(q) == kind[q] \in Hooks /\ pc[q] \notin {"idle", "redirect", "mkdir", "measure"}

Logging(p) ==
  kind[p] \in Hooks /\ p \notin faulted /\ pc[p] \notin BeforeLog \cup {"dead", "done"} =>
    /\ stderr[p] \in Logs
    /\ (\E b \in Bases : log[b] = stderr[p]) \/ \E q \in Procs \ {p} : Took(q)
    /\ pc[p] = "failed" => p \in notes[stderr[p]]

(* A process that may have taken a log away has always done so.            *)
LEMMA TookStays ==
  ASSUME Known, NEW p \in Procs, Step(p), NEW q \in Procs, Took(q)
  PROVE  Took(q)'
  <1>1. PcStep(p)
    BY StepPc
  <1>2. CASE q # p
    BY <1>1, <1>2 DEF PcStep, Took
  <1>3. CASE q = p
    <2>1. pc'[p] \notin {"idle", "redirect", "mkdir", "measure"}
      BY <1>3 DEF Took, Known, TypeOK, Step, Begin, ResolveLog, MakeLogDir, MeasureLog, RotateLog,
         OpenLog, ReadInput, ResolveStore, OpenExisting, OpenStore, LookFor, CreateDir, RestrictDir,
         Work, PrintError, Die
    <2> QED
      BY <1>1, <1>3, <2>1 DEF PcStep, Took
  <1> QED
    BY <1>2, <1>3

(* The name of a log file that is not there any more was taken by another. *)
LEMMA NameStays ==
  ASSUME Known, NEW p \in Procs, Step(p), NEW q \in Procs, stderr[q] \in Logs,
         (\E b \in Bases : log[b] = stderr[q]) \/ \E r \in Procs \ {q} : Took(r),
         p # q \/ pc[p] # "rotate"
  PROVE  (\E b \in Bases : log'[b] = stderr[q]) \/ \E r \in Procs \ {q} : Took(r)'
  <1>1. CASE \E r \in Procs \ {q} : Took(r)
    BY <1>1, TookStays
  <1>2. CASE \E b \in Bases : log[b] = stderr[q]
    <2>1. PICK b \in Bases : log[b] = stderr[q]
      BY <1>2
    <2>2. log[b] # None
      BY <2>1, StoreHomeAssumption
    <2>3. log'[b] = log[b] \/ (log'[b] = None /\ pc[p] = "rotate")
      BY <2>2, StepFiles
    <2>4. CASE pc[p] = "rotate"
      <3>1. Took(p)
        BY <2>4 DEF Took, Known, AtStep
      <3> QED
        BY <2>4, <3>1, TookStays
    <2> QED
      BY <2>1, <2>3, <2>4
  <1> QED
    BY <1>1, <1>2

LEMMA StepLogging ==
  ASSUME Known, Known', NEW p \in Procs, Step(p), NEW q \in Procs, Logging(q)
  PROVE  Logging(q)'
  <1>1. PcStep(p) /\ DirStep(p) /\ LogStep(p)
    BY StepPc, StepDirs, StepLog
  <1>2. SUFFICES ASSUME kind'[q] \in Hooks, q \notin faulted',
                        pc'[q] \notin BeforeLog \cup {"dead", "done"}
                 PROVE  /\ stderr'[q] \in Logs
                        /\ (\E b \in Bases : log'[b] = stderr'[q]) \/ \E r \in Procs \ {q} : Took(r)'
                        /\ pc'[q] = "failed" => q \in notes'[stderr'[q]]
    BY DEF Logging
  <1>3. q \notin faulted
    BY <1>1, <1>2 DEF DirStep
  <1>4. CASE q # p
    <2>1. pc'[q] = pc[q] /\ kind'[q] = kind[q] /\ stderr'[q] = stderr[q]
      BY <1>1, <1>4 DEF PcStep, LogStep
    <2>2. /\ stderr[q] \in Logs
          /\ (\E b \in Bases : log[b] = stderr[q]) \/ \E r \in Procs \ {q} : Took(r)
          /\ pc[q] = "failed" => q \in notes[stderr[q]]
      BY <1>2, <1>3, <2>1 DEF Logging
    <2>3. \A f \in Logs : notes[f] \subseteq notes'[f]
      <3>1. notes' = notes \/ PrintError(p)
        BY StepFiles
      <3>2. PrintError(p) => \A f \in Logs : notes'[f] = IF f = stderr[p] THEN notes[f] \cup {p} ELSE notes[f]
        BY DEF PrintError
      <3> QED
        BY <3>1, <3>2
    <2> QED
      BY <1>4, <2>1, <2>2, <2>3, NameStays
  <1>5. CASE q = p /\ pc[p] \in BeforeLog
    <2>1. OpenLog(p)
      <3>1. ~Begin(p)
        BY <1>2, <1>5 DEF Begin, Known, TypeOK, BeforeLog
      <3>2. ~(ResolveLog(p) \/ MakeLogDir(p) \/ MeasureLog(p) \/ RotateLog(p))
        BY <1>2, <1>5 DEF ResolveLog, Resolve, MakeLogDir, MeasureLog, RotateLog, Goto, Known, TypeOK, BeforeLog
      <3>3. ~(ReadInput(p) \/ ResolveStore(p) \/ OpenExisting(p) \/ Work(p) \/ PrintError(p))
        BY <1>5 DEF ReadInput, ResolveStore, Resolve, OpenExisting, Work, PrintError, BeforeLog
      <3>4. ~OpenStore(p)
        BY <1>5 DEF OpenStore, LookFor, CreateDir, RestrictDir, BeforeLog
      <3>5. ~Die(p)
        BY <1>2, <1>5 DEF Die, Goto, Known, TypeOK
      <3> QED
        BY <3>1, <3>2, <3>3, <3>4, <3>5 DEF Step
    <2>2. Exists(home[p], "base") /\ home[p] \in Bases /\ pc'[p] = "input"
      BY <1>3, <1>5, <2>1 DEF OpenLog, Known, TypeOK, AtStep
    <2>3. /\ log' = [log EXCEPT ![home[p]] = IF @ = None THEN p ELSE @]
          /\ stderr' = [stderr EXCEPT ![p] = log'[home[p]]]
      BY <1>2, <1>5, <2>1, <2>2 DEF OpenLog
    <2> QED
      BY <1>5, <2>2, <2>3 DEF Known, TypeOK, Logs
  <1>6. CASE q = p /\ pc[p] \notin BeforeLog
    <2>1. pc[p] \notin {"dead", "done", "idle"} /\ kind[p] \in Hooks
      BY <1>1, <1>2, <1>6 DEF PcStep, BeforeLog, Known, TypeOK, Step, Begin, ResolveLog, MakeLogDir,
         MeasureLog, RotateLog, OpenLog, ReadInput, ResolveStore, OpenExisting, OpenStore, LookFor,
         CreateDir, RestrictDir, Work, PrintError, Die
    <2>2. stderr[p] \in Logs /\ ((\E b \in Bases : log[b] = stderr[p]) \/ \E r \in Procs \ {p} : Took(r))
      BY <1>3, <1>6, <2>1 DEF Logging
    <2>3. stderr'[p] = stderr[p]
      BY <1>6, StepFiles DEF BeforeLog
    <2>4. pc'[p] = "failed" => p \in notes'[stderr[p]]
      <3>1. pc'[p] = "failed" /\ pc[p] # "failed" => PrintError(p)
        BY DEF Known, TypeOK, Step, Begin, ResolveLog, MakeLogDir, MeasureLog, RotateLog, OpenLog,
           ReadInput, ResolveStore, OpenExisting, OpenStore, LookFor, CreateDir, RestrictDir, Work, Die
      <3>2. pc[p] # "failed"
        BY DEF Known, TypeOK, Step, Begin, ResolveLog, MakeLogDir, MeasureLog, RotateLog, OpenLog,
           ReadInput, ResolveStore, OpenExisting, OpenStore, LookFor, CreateDir, RestrictDir, Work,
           PrintError, Die
      <3> QED
        BY <2>2, <3>1, <3>2 DEF PrintError
    <2> QED
      BY <1>6, <2>2, <2>3, <2>4, NameStays DEF BeforeLog
  <1> QED
    BY <1>4, <1>5, <1>6

LEMMA NextLogging ==
  ASSUME Known, Known', \A p \in Procs : Logging(p), [Next]_vars
  PROVE  \A p \in Procs : Logging(p)'
  <1>1. CASE UNCHANGED vars \/ MakeLocal
    BY <1>1 DEF vars, MakeLocal, Logging, Took
  <1>2. ASSUME NEW p \in Procs, Step(p) PROVE \A q \in Procs : Logging(q)'
    BY <1>2, StepLogging
  <1> QED
    BY <1>1, <1>2 DEF Next, Finished

(* The error of a hook that met no failing call is in the log of its store *)
(* unless another hook, finding it too long, took the file away.           *)
THEOREM FailureLogged == Spec => []FailureIsLogged
  <1>1. Init => \A p \in Procs : Logging(p)
    BY DEF Init, Logging, BeforeLog
  <1>2. Known /\ Known' /\ (\A p \in Procs : Logging(p)) /\ [Next]_vars
          => (\A p \in Procs : Logging(p))'
    BY NextLogging
  <1>3. (\A p \in Procs : Logging(p)) => FailureIsLogged
    BY DEF Logging, Took, BeforeLog, FailureIsLogged
  <1> QED
    BY <1>1, <1>2, <1>3, KnownInvariant, PTL DEF Spec

-----------------------------------------------------------------------------
(* The store stays where it is.                                            *)

(* Whoever resolved ~/.local/share found no ~/.amtr, and nobody makes one  *)
(* any more unless ~/.local appeared under somebody's feet.                *)
Steady ==
  /\ hasty => local
  /\ \A p \in Procs : /\ home[p] = "share" => local /\ (hasty \/ ~Exists("amtr", "base"))
                      /\ Undecided(p) /\ local => hasty
  /\ "amtr" \in rows => Exists("amtr", "base")
  /\ "share" \in rows => local /\ (hasty \/ ~Exists("amtr", "base"))

LEMMA StepSteady ==
  ASSUME Known, Steady, NEW p \in Procs, Step(p)
  PROVE  Steady'
  <1>1. PcStep(p) /\ DirStep(p) /\ LogStep(p)
    BY StepPc, StepDirs, StepLog
  <1>2. <<"amtr", "base">> \in Dirs /\ local \in BOOLEAN /\ local' \in BOOLEAN
    BY <1>1 DEF Dirs, Bases, Parts, DirStep, Known, TypeOK
  <1>3. local' = local /\ hasty' = hasty
    BY <1>1, <1>2 DEF DirStep, LogStep, Steady
  <1>4. /\ Exists("amtr", "base") => Exists("amtr", "base")'
        /\ Exists("amtr", "base")' => Exists("amtr", "base") \/ Undecided(p)
    BY <1>1, <1>2 DEF DirStep, Makes, Undecided
  <1>5. home'[p] = home[p] \/ (home'[p] = BaseDir /\ UNCHANGED dir)
    BY DEF Known, TypeOK, Step, Begin, ResolveLog, MakeLogDir, MeasureLog, RotateLog, OpenLog,
       ReadInput, ResolveStore, OpenExisting, OpenStore, LookFor, CreateDir, RestrictDir, Work,
       PrintError, Die
  <1>6. ASSUME NEW q \in Procs, home'[q] = "share"
        PROVE  local' /\ (hasty' \/ ~Exists("amtr", "base")')
    <2>1. CASE home[q] = "share"
      BY <1>3, <1>4, <2>1 DEF Steady
    <2>2. CASE home[q] # "share"
      <3>1. q = p /\ BaseDir = "share" /\ UNCHANGED dir
        BY <1>1, <1>5, <1>6, <2>2 DEF LogStep
      <3> QED
        BY <1>3, <3>1 DEF BaseDir
    <2> QED
      BY <2>1, <2>2
  <1>7. ASSUME NEW q \in Procs, Undecided(q)', local'
        PROVE  hasty'
    <2>1. CASE Undecided(q)
      BY <1>3, <1>7, <2>1 DEF Steady
    <2>2. CASE ~Undecided(q)
      <3>1. q = p
        BY <1>1, <1>4, <1>7, <2>2 DEF PcStep, LogStep, Undecided
      <3>2. CASE ResolveLog(p) \/ ResolveStore(p)
        <4>1. home'[p] = BaseDir /\ UNCHANGED dir
          BY <3>2 DEF ResolveLog, ResolveStore, Known, TypeOK
        <4> QED
          BY <1>3, <1>7, <3>1, <4>1 DEF Undecided, BaseDir
      <3>3. CASE ~(ResolveLog(p) \/ ResolveStore(p))
        <4>1. pc'[p] \in {"mkdir", "look base", "create base"} =>
                pc[p] = "look base" /\ home'[p] = home[p]
          BY <3>3 DEF Known, TypeOK, Step, Begin, MakeLogDir, MeasureLog, RotateLog, OpenLog,
             ReadInput, OpenExisting, OpenStore, LookFor, CreateDir, RestrictDir, Work, PrintError, Die
        <4> QED
          BY <1>4, <1>7, <2>2, <3>1, <4>1 DEF Undecided
      <3> QED
        BY <3>2, <3>3
    <2> QED
      BY <2>1, <2>2
  <1>8. ASSUME NEW b \in rows'
        PROVE  /\ b = "amtr" => Exists("amtr", "base")'
               /\ b = "share" => local' /\ (hasty' \/ ~Exists("amtr", "base")')
    <2>1. CASE b \in rows
      BY <1>3, <1>4, <2>1 DEF Steady
    <2>2. CASE b \notin rows
      <3>1. b = home[p] /\ pc[p] = "work"
        BY <1>1, <1>8, <2>2 DEF LogStep
      <3>2. Exists(home[p], "base")
        BY <3>1 DEF Known, AtStep
      <3> QED
        BY <1>3, <1>4, <3>1, <3>2 DEF Steady
    <2> QED
      BY <2>1, <2>2
  <1>9. hasty' => local'
    BY <1>3 DEF Steady
  <1> QED
    BY <1>6, <1>7, <1>8, <1>9 DEF Steady

LEMMA MakeLocalSteady ==
  ASSUME Known, Steady, MakeLocal
  PROVE  Steady'
  <1>1. ~local /\ local' /\ hasty' = (\E p \in Procs : Undecided(p))
    BY DEF MakeLocal
  <1>2. UNCHANGED <<dir, rows, pc, home>>
    BY DEF MakeLocal
  <1>3. (\A p \in Procs : home[p] # "share") /\ "share" \notin rows
    BY <1>1 DEF Steady
  <1>4. \A p \in Procs : Undecided(p)' => hasty'
    BY <1>1, <1>2 DEF Undecided
  <1> QED
    BY <1>1, <1>2, <1>3, <1>4 DEF Steady

(* If the store starts settled, every later process resolves the store     *)
(* that holds a row, unless ~/.local appeared between a resolution of      *)
(* ~/.amtr and its creation.                                               *)
THEOREM StoreStaysPut ==
  ASSUME SettledAtFirst
  PROVE  Spec => []StoreStays
  <1>1. Init => Steady
    <2> SUFFICES ASSUME Init PROVE Steady
      OBVIOUS
    <2>1. PICK h \in Homes : local = h.local /\ dir = h.dir /\ rows = h.rows
      BY DEF Init
    <2>2. /\ "amtr" \in rows => Exists("amtr", "base")
          /\ "share" \in rows => local /\ ~Exists("amtr", "base")
      BY <2>1 DEF SettledAtFirst, Exists
    <2>3. "share" # None /\ hasty = FALSE
      BY StoreHomeAssumption DEF Init, Bases
    <2>4. \A p \in Procs : home[p] # "share" /\ ~Undecided(p)
      BY <2>3 DEF Init, Undecided
    <2> QED
      BY <2>2, <2>3, <2>4 DEF Steady
  <1>2. Known /\ Steady /\ [Next]_vars => Steady'
    <2> SUFFICES ASSUME Known, Steady, [Next]_vars PROVE Steady'
      OBVIOUS
    <2>1. CASE UNCHANGED vars
      BY <2>1 DEF vars, Steady, Undecided
    <2> QED
      BY <2>1, StepSteady, MakeLocalSteady DEF Next, Finished
  <1>3. Known /\ Steady => StoreStays
    BY DEF Known, TypeOK, Steady, StoreStays, BaseDir, Bases
  <1> QED
    BY <1>1, <1>2, <1>3, KnownInvariant, PTL DEF Spec
=============================================================================

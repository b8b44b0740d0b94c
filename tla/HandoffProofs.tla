--------------------------- MODULE HandoffProofs ----------------------------
(***************************************************************************)
(* Theorems about Handoff, for every set of sessions, files and processes, *)
(* every assignment of jobs and every directory the store may start with.  *)
(***************************************************************************)
EXTENDS Handoff, FiniteSetTheorems, TLAPS

(* The rows there are: in a file, or in the hands of a handoff.            *)
RowsAround == {r \in Rows : (\E f \in Files : file[f] = r) \/ (\E p \in Procs : found[p] = r)}

(* Rows with the same key hold the same memory, and a row has a key only   *)
(* if it was minted.                                                       *)
OneMemory == \A r, s \in RowsAround : r.key = s.key /\ r.key # NoKey => r.memory = s.memory
KeysAreMinted == \A r \in RowsAround : r.key \in 1..minted \cup {NoKey}

(* A row is in the file of its session.                                    *)
RowsInPlace == \A f \in Files : file[f] \in Rows => Slug[file[f].session] = f

(* What a process has in hand at each step.                                *)
InHand(p) ==
  /\ pc[p] # "idle" => host[p] \in Sessions /\ job[p] \in Jobs[p]
  /\ pc[p] = "idle" => job[p] = "none"
  /\ pc[p] \in {"load", "extract"} => job[p] = "capture"
  /\ pc[p] \in {"open", "scan", "save"} => job[p] \in {"move", "clone"} /\ want[p] \in Keys
  /\ pc[p] = "forget" => job[p] = "move" /\ want[p] \in Keys
  /\ pc[p] \in {"save", "forget"} => found[p] \in Rows /\ found[p].key = want[p]

Known == TypeOK /\ RowsInPlace /\ \A p \in Procs : InHand(p)

USE DEF Goto, locals, Parsed, KeyIn

-----------------------------------------------------------------------------
(* Lemmas about the operators.                                             *)

LEMMA RowsTyped ==
  /\ NoRow \notin Rows /\ Corrupt \notin Rows
  /\ \A r \in Rows : /\ r.session \in Sessions /\ r.key \in Keys \cup {NoKey}
                     /\ r.memory \subseteq Keys /\ Slug[r.session] \in Files
  BY HandoffAssumption DEF Rows

LEMMA MovedRowTyped ==
  ASSUME NEW p \in Procs, found[p] \in Rows, host[p] \in Sessions
  PROVE  /\ MovedRow(p) \in Rows /\ MovedRow(p).session = host[p]
         /\ MovedRow(p).key = found[p].key /\ MovedRow(p).memory = found[p].memory
  BY DEF MovedRow, Rows

LEMMA ClonedRowTyped ==
  ASSUME NEW p \in Procs, found[p] \in Rows, host[p] \in Sessions
  PROVE  /\ ClonedRow(p) \in Rows /\ ClonedRow(p).session = host[p]
         /\ ClonedRow(p).key = NoKey
  BY DEF ClonedRow, Rows

LEMMA MintedRowTyped ==
  ASSUME TypeOK, NEW p \in Procs, host[p] \in Sessions, minted < NumKeys
  PROVE  /\ MintedRow(p) \in Rows /\ MintedRow(p).session = host[p]
         /\ MintedRow(p).key = minted + 1 /\ minted + 1 \in Keys
  <1>1. minted + 1 \in Keys
    BY HandoffAssumption DEF TypeOK, Keys
  <1>2. prior[p] \cup {minted + 1} \in SUBSET Keys
    BY <1>1 DEF TypeOK
  <1> QED
    BY <1>1, <1>2 DEF MintedRow, Rows

(* A save puts the row in its session's file and touches no other; a key   *)
(* it saves over is remembered.                                            *)
LEMMA SaveRow ==
  ASSUME TypeOK, RowsInPlace, NEW r \in Rows, Save(r)
  PROVE  /\ file' \in [Files -> Rows \cup {NoRow, Corrupt}]
         /\ file'[Slug[r.session]] = r
         /\ \A f \in Files : f # Slug[r.session] => file'[f] = file[f]
         /\ RowsInPlace'
         /\ replaced' \subseteq Keys /\ replaced \subseteq replaced'
         /\ \A k \in Keys : KeyIn(Slug[r.session], k) => r.key = k \/ k \in replaced'
  <1> USE RowsTyped DEF TypeOK, Save
  <1>1. Slug[r.session] \in Files
    OBVIOUS
  <1>2. /\ file' \in [Files -> Rows \cup {NoRow, Corrupt}]
        /\ file'[Slug[r.session]] = r
        /\ \A f \in Files : f # Slug[r.session] => file'[f] = file[f]
    BY <1>1
  <1>3. RowsInPlace'
    BY <1>1, <1>2 DEF RowsInPlace
  <1> QED
    BY <1>1, <1>2, <1>3

-----------------------------------------------------------------------------
(* Every process has what its step needs.                                  *)

LEMMA InitKnown == Init => Known
  <1> SUFFICES ASSUME Init PROVE Known
    OBVIOUS
  <1>1. file \in [Files -> Rows \cup {NoRow, Corrupt}] /\ RowsInPlace
    BY HandoffAssumption DEF Init, RowsInPlace
  <1>2. minted \in 0..NumKeys
    <2>1. KeysOf(file) \subseteq Keys /\ NumKeys \in Nat
      BY HandoffAssumption DEF KeysOf
    <2>2. IsFiniteSet(Keys) /\ Cardinality(Keys) = NumKeys
      BY <2>1, FS_Interval DEF Keys
    <2>3. IsFiniteSet(KeysOf(file)) /\ Cardinality(KeysOf(file)) <= NumKeys
      BY <2>1, <2>2, FS_Subset
    <2> QED
      BY <2>1, <2>3, FS_CardinalityType DEF Init
  <1>3. TypeOK
    BY <1>1, <1>2 DEF Init, TypeOK, Steps, NoMemory
  <1> QED
    BY <1>1, <1>3 DEF Init, Known, InHand

LEMMA HandoffKnown ==
  ASSUME Known, NEW p \in Procs, \/ Begin(p) \/ OpenDirectory(p) \/ ReadEntry(p) \/ NoSuchKey(p)
                                 \/ LoadPrior(p) \/ FailExtraction(p) \/ Die(p)
  PROVE  Known'
  <1> USE HandoffAssumption, RowsTyped DEF Known
  <1>1. CASE Begin(p)
    <2>1. PICK s \in Sessions, j \in Jobs[p] :
             \E k \in IF j = "capture" THEN {NoKey} ELSE 1..minted :
                /\ host' = [host EXCEPT ![p] = s] /\ job' = [job EXCEPT ![p] = j]
                /\ want' = [want EXCEPT ![p] = k]
                /\ pc' = [pc EXCEPT ![p] = IF j = "capture" THEN "load" ELSE "open"]
      BY <1>1 DEF Begin
    <2>2. /\ j \in JobNames
          /\ want'[p] \in Keys \cup {NoKey} /\ (j # "capture" => want'[p] \in Keys)
          /\ want' \in [Procs -> Keys \cup {NoKey}]
          /\ \A q \in Procs \ {p} : want'[q] = want[q]
      BY <2>1 DEF TypeOK, Keys
    <2>3. TypeOK'
      BY <1>1, <2>1, <2>2 DEF Begin, TypeOK, Steps
    <2>4. \A q \in Procs : InHand(q)'
      BY <1>1, <2>1, <2>2 DEF Begin, TypeOK, InHand, JobNames
    <2> QED
      BY <1>1, <2>3, <2>4 DEF Begin, RowsInPlace
  <1>2. CASE OpenDirectory(p)
    BY <1>2 DEF OpenDirectory, TypeOK, Steps, InHand, RowsInPlace
  <1>3. CASE ReadEntry(p)
    <2>1. PICK f \in todo[p] :
             \/ /\ KeyIn(f, want[p])
                /\ found' = [found EXCEPT ![p] = file[f]]
                /\ todo' = [todo EXCEPT ![p] = {}]
                /\ pc' = [pc EXCEPT ![p] = "save"]
             \/ /\ todo' = [todo EXCEPT ![p] = @ \ {f}]
                /\ UNCHANGED <<found, pc>>
      BY <1>3 DEF ReadEntry
    <2>2. f \in Files
      BY DEF TypeOK
    <2>3. TypeOK'
      BY <1>3, <2>1, <2>2 DEF ReadEntry, TypeOK, Steps
    <2>4. \A q \in Procs : InHand(q)'
      BY <1>3, <2>1, <2>2 DEF ReadEntry, TypeOK, InHand
    <2> QED
      BY <1>3, <2>3, <2>4 DEF ReadEntry, RowsInPlace
  <1>4. CASE NoSuchKey(p) \/ FailExtraction(p) \/ Die(p)
    BY <1>4 DEF NoSuchKey, FailExtraction, Die, TypeOK, Steps, InHand, RowsInPlace
  <1>5. CASE LoadPrior(p)
    <2>1. Slug[host[p]] \in Files
      BY <1>5 DEF LoadPrior, InHand
    <2>2. prior' \in [Procs -> SUBSET Keys]
      BY <1>5, <2>1 DEF LoadPrior, TypeOK, NoMemory
    <2> QED
      BY <1>5, <2>2 DEF LoadPrior, TypeOK, Steps, InHand, RowsInPlace
  <1> QED
    BY <1>1, <1>2, <1>3, <1>4, <1>5

LEMMA WriteKnown ==
  ASSUME Known, NEW p \in Procs, TakeRow(p) \/ CloneRow(p) \/ ForgetRow(p) \/ SaveSnapshot(p)
  PROVE  Known'
  <1> USE HandoffAssumption DEF Known
  <1>1. CASE TakeRow(p)
    <2>1. found[p] \in Rows /\ host[p] \in Sessions /\ Save(MovedRow(p))
      BY <1>1 DEF TakeRow, InHand
    <2>2. /\ file' \in [Files -> Rows \cup {NoRow, Corrupt}] /\ RowsInPlace'
          /\ replaced' \subseteq Keys
      BY <2>1, MovedRowTyped, SaveRow
    <2> QED
      BY <1>1, <2>2 DEF TakeRow, TypeOK, Steps, InHand
  <1>2. CASE CloneRow(p)
    <2>1. found[p] \in Rows /\ host[p] \in Sessions /\ Save(ClonedRow(p))
      BY <1>2 DEF CloneRow, InHand
    <2>2. /\ file' \in [Files -> Rows \cup {NoRow, Corrupt}] /\ RowsInPlace'
          /\ replaced' \subseteq Keys
      BY <2>1, ClonedRowTyped, SaveRow
    <2> QED
      BY <1>2, <2>2 DEF CloneRow, TypeOK, Steps, InHand
  <1>3. CASE ForgetRow(p)
    BY <1>3, RowsTyped DEF ForgetRow, TypeOK, Steps, InHand, RowsInPlace
  <1>4. CASE SaveSnapshot(p)
    <2>1. host[p] \in Sessions /\ minted < NumKeys /\ Save(MintedRow(p))
      BY <1>4 DEF SaveSnapshot, InHand
    <2>2. /\ file' \in [Files -> Rows \cup {NoRow, Corrupt}] /\ RowsInPlace'
          /\ replaced' \subseteq Keys
      BY <2>1, MintedRowTyped, SaveRow
    <2>3. minted' \in 0..NumKeys
      BY <1>4 DEF SaveSnapshot, TypeOK
    <2> QED
      BY <1>4, <2>2, <2>3 DEF SaveSnapshot, TypeOK, Steps, InHand
  <1> QED
    BY <1>1, <1>2, <1>3, <1>4

LEMMA StepKnown == Known /\ [Next]_vars => Known'
  <1> SUFFICES ASSUME Known, [Next]_vars PROVE Known'
    OBVIOUS
  <1>1. CASE UNCHANGED vars
    BY <1>1 DEF vars, Known, TypeOK, RowsInPlace, InHand
  <1>2. ASSUME NEW p \in Procs, Step(p) PROVE Known'
    BY <1>2, HandoffKnown, WriteKnown DEF Step
  <1> QED
    BY <1>1, <1>2 DEF Next, Finished

LEMMA KnownInvariant == Spec => []Known
  BY InitKnown, StepKnown, PTL DEF Spec

(* The state keeps its shape.                                              *)
THEOREM TypeCorrect == Spec => []TypeOK
  <1>1. Known => TypeOK
    BY DEF Known
  <1> QED
    BY <1>1, KnownInvariant, PTL

-----------------------------------------------------------------------------
(* A key names one snapshot.                                               *)

(* A row that brings nothing new: it has no key, or the key and the memory *)
(* of a row there is.                                                      *)
CarriesOn(r) ==
  r \in Rows /\ (r.key = NoKey \/ \E s \in RowsAround : s.key = r.key /\ s.memory = r.memory)

Mints(p) == minted' = minted + 1 /\ MintedRow(p) \in Rows /\ MintedRow(p).key = minted + 1

LEMMA FoundCarriesOn ==
  ASSUME Known, NEW p \in Procs, pc[p] = "save"
  PROVE  CarriesOn(MovedRow(p)) /\ CarriesOn(ClonedRow(p))
  <1>1. found[p] \in RowsAround /\ host[p] \in Sessions
    BY DEF Known, InHand, RowsAround
  <1> QED
    BY <1>1, MovedRowTyped, ClonedRowTyped DEF CarriesOn, RowsAround

(* What a step leaves around was there, carries on what was, or was minted *)
(* in it.                                                                  *)
LEMMA RowsOfStep ==
  ASSUME Known, Known', NEW p \in Procs, Step(p)
  PROVE  /\ minted' = minted \/ Mints(p)
         /\ \A r \in RowsAround' : CarriesOn(r) \/ (Mints(p) /\ r = MintedRow(p))
  <1>1. \A r \in RowsAround : CarriesOn(r)
    BY DEF CarriesOn, RowsAround
  <1>2. ASSUME UNCHANGED <<file, found>> PROVE \A r \in RowsAround' : CarriesOn(r)
    BY <1>1, <1>2 DEF RowsAround
  <1>3. CASE Begin(p) \/ OpenDirectory(p) \/ NoSuchKey(p) \/ LoadPrior(p) \/ FailExtraction(p)
               \/ Die(p)
    BY <1>2, <1>3 DEF Begin, OpenDirectory, NoSuchKey, LoadPrior, FailExtraction, Die
  <1>4. CASE ReadEntry(p)
    <2>1. UNCHANGED <<file, minted>> /\ todo[p] \subseteq Files
      BY <1>4 DEF ReadEntry, Known, TypeOK
    <2>2. \A q \in Procs : found'[q] = found[q] \/ \E f \in Files : found'[q] = file[f]
      BY <1>4, <2>1 DEF ReadEntry, Known, TypeOK
    <2>3. RowsAround' \subseteq RowsAround
      BY <2>1, <2>2 DEF RowsAround
    <2> QED
      BY <1>1, <2>1, <2>3
  <1>5. ASSUME NEW r \in Rows, Save(r), UNCHANGED found
        PROVE  \A s \in RowsAround' : s = r \/ s \in RowsAround
    <2>1. \A f \in Files : file'[f] \in {r, file[f]}
      BY <1>5, SaveRow DEF Known
    <2> QED
      BY <1>5, <2>1 DEF RowsAround
  <1>6. CASE TakeRow(p)
    <2>1. Save(MovedRow(p)) /\ UNCHANGED <<found, minted>> /\ CarriesOn(MovedRow(p))
      BY <1>6, FoundCarriesOn DEF TakeRow
    <2> QED
      BY <1>1, <1>5, <2>1 DEF CarriesOn
  <1>7. CASE CloneRow(p)
    <2>1. Save(ClonedRow(p)) /\ UNCHANGED <<found, minted>> /\ CarriesOn(ClonedRow(p))
      BY <1>7, FoundCarriesOn DEF CloneRow
    <2> QED
      BY <1>1, <1>5, <2>1 DEF CarriesOn
  <1>8. CASE ForgetRow(p)
    <2>1. \A f \in Files : file'[f] \in {NoRow, file[f]}
      BY <1>8 DEF ForgetRow, Known, TypeOK
    <2>2. RowsAround' \subseteq RowsAround
      BY <1>8, <2>1, RowsTyped DEF ForgetRow, RowsAround
    <2> QED
      BY <1>1, <1>8, <2>2 DEF ForgetRow
  <1>9. CASE SaveSnapshot(p)
    <2>1. /\ Save(MintedRow(p)) /\ UNCHANGED found
          /\ Mints(p)
      BY <1>9, MintedRowTyped DEF SaveSnapshot, Known, InHand, Mints
    <2> QED
      BY <1>1, <1>5, <2>1 DEF Mints
  <1> QED
    BY <1>3, <1>4, <1>6, <1>7, <1>8, <1>9 DEF Step

KeysInv == Known /\ OneMemory /\ KeysAreMinted

LEMMA InitKeys == Init => KeysInv
  <1> SUFFICES ASSUME Init PROVE KeysInv
    OBVIOUS
  <1>1. file \in FirstRows /\ minted = Cardinality(KeysOf(file)) /\ Known
    BY InitKnown DEF Init
  <1>2. \A r \in RowsAround : \E f \in Files : file[f] = r
    BY RowsTyped DEF Init, RowsAround
  <1>3. OneMemory
    BY <1>1, <1>2, HandoffAssumption DEF OneMemory, RowsAround
  <1>4. KeysAreMinted
    <2>1. KeysOf(file) = 1..minted
      BY <1>1, HandoffAssumption
    <2>2. \A r \in RowsAround : r.key # NoKey => r.key \in KeysOf(file)
      BY <1>2, RowsTyped DEF RowsAround, KeysOf
    <2> QED
      BY <2>1, <2>2 DEF KeysAreMinted
  <1> QED
    BY <1>1, <1>3, <1>4 DEF KeysInv

LEMMA StepKeys == KeysInv /\ [Next]_vars => KeysInv'
  <1> SUFFICES ASSUME KeysInv, [Next]_vars PROVE KeysInv'
    OBVIOUS
  <1>1. Known'
    BY StepKnown DEF KeysInv
  <1>2. CASE UNCHANGED vars
    BY <1>1, <1>2 DEF vars, KeysInv, OneMemory, KeysAreMinted, RowsAround
  <1>3. ASSUME NEW p \in Procs, Step(p) PROVE KeysInv'
    <2>1. /\ minted' = minted \/ Mints(p)
          /\ \A r \in RowsAround' : CarriesOn(r) \/ (Mints(p) /\ r = MintedRow(p))
      BY <1>1, <1>3, RowsOfStep DEF KeysInv
    <2>2. minted \in Nat /\ minted' \in Nat /\ minted <= minted' /\ NoKey \notin Nat
      BY <1>1, <2>1, HandoffAssumption DEF KeysInv, Known, TypeOK, Mints
    <2>3. \A r \in RowsAround' : CarriesOn(r) => r.key \in 1..minted \cup {NoKey}
      BY DEF CarriesOn, KeysInv, KeysAreMinted
    <2>4. KeysAreMinted'
      BY <2>1, <2>2, <2>3 DEF KeysAreMinted, Mints
    <2>5. OneMemory'
      <3> SUFFICES ASSUME NEW r \in RowsAround', NEW s \in RowsAround',
                          r.key = s.key, r.key # NoKey
                   PROVE  r.memory = s.memory
        BY DEF OneMemory
      <3>1. CASE CarriesOn(r) /\ CarriesOn(s)
        BY <3>1 DEF CarriesOn, KeysInv, OneMemory
      <3>2. CASE Mints(p) /\ (r = MintedRow(p) \/ s = MintedRow(p))
        <4>1. r.key = minted + 1 /\ s.key = minted + 1
          BY <3>2 DEF Mints
        <4>2. ~CarriesOn(r) /\ ~CarriesOn(s)
          BY <2>2, <2>3, <4>1
        <4> QED
          BY <2>1, <4>2
      <3> QED
        BY <2>1, <3>1, <3>2
    <2> QED
      BY <1>1, <2>4, <2>5 DEF KeysInv
  <1> QED
    BY <1>2, <1>3 DEF Next, Finished

LEMMA KeysInvariant == Spec => []KeysInv
  BY InitKeys, StepKeys, PTL DEF Spec

(* Two rows with the same key hold the same snapshot, whatever is moved,   *)
(* cloned and captured at the same time and wherever a process dies.       *)
THEOREM KeyNamesSnapshot == Spec => []KeyNamesOneSnapshot
  <1>1. KeysInv => KeyNamesOneSnapshot
    <2> SUFFICES ASSUME KeysInv, NEW f \in Files, NEW g \in Files, NEW k \in Keys,
                        KeyIn(f, k), KeyIn(g, k)
                 PROVE  file[f].memory = file[g].memory
      BY DEF KeyNamesOneSnapshot
    <2>1. file[f] \in RowsAround /\ file[g] \in RowsAround
      BY DEF KeysInv, Known, TypeOK, RowsAround
    <2>2. k # NoKey
      BY HandoffAssumption DEF Keys
    <2> QED
      BY <2>1, <2>2 DEF KeysInv, OneMemory
  <1> QED
    BY <1>1, KeysInvariant, PTL

-----------------------------------------------------------------------------
(* One move at a time.  From here on one process may move, as OneMover     *)
(* says: two that found the same key before either forgot it both keep it. *)

From(p) == Slug[found[p].session]
To(p) == Slug[host[p]]

LEMMA MoverIsOne ==
  ASSUME OneMover, Known, NEW p \in Procs, NEW q \in Procs, job[p] = "move", job[q] = "move"
  PROVE  p = q
  <1>1. pc[p] # "idle" /\ pc[q] # "idle"
    BY DEF Known, InHand
  <1> QED
    BY <1>1 DEF Known, InHand, OneMover

(* The steps that neither write a file nor find a row.                     *)
Bystands(p) ==
  Begin(p) \/ OpenDirectory(p) \/ NoSuchKey(p) \/ LoadPrior(p) \/ FailExtraction(p) \/ Die(p)

LEMMA BystandsFrame ==
  ASSUME Known, NEW p \in Procs, Bystands(p)
  PROVE  /\ UNCHANGED <<file, minted, found, replaced>>
         /\ pc'[p] \notin {"save", "forget"}
         /\ \A q \in Procs : q # p => pc'[q] = pc[q] /\ job'[q] = job[q] /\ host'[q] = host[q]
                                     /\ want'[q] = want[q]
         /\ pc[p] # "idle" => job' = job /\ want' = want
         /\ pc[p] = "forget" => pc'[p] = "dead"
         /\ pc[p] # "dead"
         /\ job[p] # "none" => job'[p] = job[p]
  BY DEF Bystands, Begin, OpenDirectory, NoSuchKey, LoadPrior, FailExtraction, Die, Known, TypeOK,
         InHand

(* A lookup ends with the row that has the key, read from its own file.    *)
LEMMA ReadEntryFrame ==
  ASSUME Known, NEW p \in Procs, ReadEntry(p)
  PROVE  /\ UNCHANGED <<file, minted, job, host, want, replaced>> /\ pc[p] = "scan"
         /\ \A q \in Procs : q # p => pc'[q] = pc[q] /\ found'[q] = found[q]
         /\ pc'[p] \in {"scan", "save"}
         /\ pc'[p] = "save" => From(p)' \in Files /\ KeyIn(From(p)', want[p])
  <1>1. PICK f \in todo[p] :
           \/ /\ KeyIn(f, want[p])
              /\ found' = [found EXCEPT ![p] = file[f]]
              /\ pc' = [pc EXCEPT ![p] = "save"]
           \/ UNCHANGED <<found, pc>>
    BY DEF ReadEntry
  <1>2. /\ UNCHANGED <<file, minted, job, host, want, replaced, prior>> /\ pc[p] = "scan"
        /\ f \in Files
    BY DEF ReadEntry, Known, TypeOK
  <1>3. ASSUME KeyIn(f, want[p]), found' = [found EXCEPT ![p] = file[f]]
        PROVE  From(p)' = f
    <2>1. file[f] \in Rows
      BY <1>2, <1>3 DEF Known, TypeOK
    <2> QED
      BY <1>2, <1>3, <2>1 DEF From, Known, TypeOK, RowsInPlace
  <1> QED
    BY <1>1, <1>2, <1>3 DEF Known, TypeOK

(* TakeRow, CloneRow and ForgetRow as the movers see them.                 *)
LEMMA TakeRowFrame ==
  ASSUME Known, NEW p \in Procs, TakeRow(p)
  PROVE  /\ UNCHANGED <<minted, job, host, want, found>> /\ pc[p] = "save" /\ job[p] = "move"
         /\ \A q \in Procs : q # p => pc'[q] = pc[q]
         /\ pc'[p] = IF From(p) # To(p) THEN "forget" ELSE "done"
         /\ To(p) \in Files /\ From(p) \in Files /\ want[p] \in Keys
         /\ file'[To(p)] \in Rows /\ file'[To(p)].key = want[p]
         /\ \A f \in Files : f # To(p) => file'[f] = file[f]
         /\ replaced \subseteq replaced'
         /\ \A k \in Keys : KeyIn(To(p), k) => k = want[p] \/ k \in replaced'
  <1>1. /\ found[p] \in Rows /\ found[p].key = want[p] /\ host[p] \in Sessions
        /\ Save(MovedRow(p)) /\ want[p] \in Keys /\ pc[p] = "save"
        /\ UNCHANGED <<minted, job, host, want, found>> /\ job[p] = "move"
    BY DEF TakeRow, Known, InHand
  <1>2. MovedRow(p) \in Rows /\ MovedRow(p).session = host[p] /\ MovedRow(p).key = want[p]
    BY <1>1, MovedRowTyped
  <1>3. /\ file'[To(p)] = MovedRow(p)
        /\ \A f \in Files : f # To(p) => file'[f] = file[f]
        /\ replaced \subseteq replaced'
        /\ \A k \in Keys : KeyIn(To(p), k) => want[p] = k \/ k \in replaced'
    BY <1>1, <1>2, SaveRow DEF Known, To
  <1>4. To(p) \in Files /\ From(p) \in Files
    BY <1>1, RowsTyped, HandoffAssumption DEF To, From
  <1>5. /\ pc'[p] = (IF From(p) # To(p) THEN "forget" ELSE "done")
        /\ \A q \in Procs : q # p => pc'[q] = pc[q]
    BY DEF TakeRow, From, To, Known, TypeOK
  <1> QED
    BY <1>1, <1>2, <1>3, <1>4, <1>5

LEMMA CloneRowFrame ==
  ASSUME Known, NEW p \in Procs, CloneRow(p)
  PROVE  /\ UNCHANGED <<minted, job, host, want, found>> /\ job[p] = "clone"
         /\ \A q \in Procs : q # p => pc'[q] = pc[q]
         /\ To(p) \in Files
         /\ file'[To(p)] \in Rows /\ file'[To(p)].key = NoKey
         /\ \A f \in Files : f # To(p) => file'[f] = file[f]
         /\ replaced \subseteq replaced'
         /\ \A k \in Keys : KeyIn(To(p), k) => k \in replaced'
  <1>1. /\ found[p] \in Rows /\ host[p] \in Sessions
        /\ Save(ClonedRow(p)) /\ UNCHANGED <<minted, job, host, want, found>> /\ job[p] = "clone"
    BY DEF CloneRow, Known, InHand
  <1>2. ClonedRow(p) \in Rows /\ ClonedRow(p).session = host[p] /\ ClonedRow(p).key = NoKey
    BY <1>1, ClonedRowTyped
  <1>3. /\ file'[To(p)] = ClonedRow(p)
        /\ \A f \in Files : f # To(p) => file'[f] = file[f]
        /\ replaced \subseteq replaced'
        /\ \A k \in Keys : KeyIn(To(p), k) => NoKey = k \/ k \in replaced'
    BY <1>1, <1>2, SaveRow DEF Known, To
  <1>4. NoKey \notin Keys /\ To(p) \in Files
    BY <1>1, HandoffAssumption DEF To, Keys
  <1>5. \A q \in Procs : q # p => pc'[q] = pc[q]
    BY DEF CloneRow, Known, TypeOK
  <1> QED
    BY <1>1, <1>2, <1>3, <1>4, <1>5

LEMMA ForgetRowFrame ==
  ASSUME Known, NEW p \in Procs, ForgetRow(p)
  PROVE  /\ UNCHANGED <<minted, job, host, want, found, replaced>>
         /\ pc[p] = "forget" /\ pc'[p] = "done" /\ job[p] = "move"
         /\ \A q \in Procs : q # p => pc'[q] = pc[q]
         /\ From(p) \in Files /\ file'[From(p)] = NoRow
         /\ \A f \in Files : f # From(p) => file'[f] = file[f]
  <1>1. found[p] \in Rows /\ job[p] = "move"
    BY DEF ForgetRow, Known, InHand
  <1>2. From(p) \in Files
    BY <1>1, RowsTyped DEF From
  <1> QED
    BY <1>1, <1>2 DEF ForgetRow, From, Known, TypeOK

LEMMA SaveSnapshotFrame ==
  ASSUME Known, NEW p \in Procs, SaveSnapshot(p)
  PROVE  /\ UNCHANGED <<job, host, want, found>> /\ job[p] = "capture"
         /\ \A q \in Procs : q # p => pc'[q] = pc[q]
         /\ To(p) \in Files
         /\ file'[To(p)] \in Rows /\ file'[To(p)].key = minted + 1
         /\ \A f \in Files : f # To(p) => file'[f] = file[f]
  <1>1. /\ host[p] \in Sessions /\ minted < NumKeys /\ Save(MintedRow(p))
        /\ UNCHANGED <<job, host, want, found>> /\ job[p] = "capture"
    BY DEF SaveSnapshot, Known, InHand
  <1>2. MintedRow(p) \in Rows /\ MintedRow(p).session = host[p] /\ MintedRow(p).key = minted + 1
    BY <1>1, MintedRowTyped DEF Known
  <1>3. /\ file'[To(p)] = MintedRow(p)
        /\ \A f \in Files : f # To(p) => file'[f] = file[f]
    BY <1>1, <1>2, SaveRow DEF Known, To
  <1>4. To(p) \in Files
    BY <1>1, HandoffAssumption DEF To
  <1>5. \A q \in Procs : q # p => pc'[q] = pc[q]
    BY DEF SaveSnapshot, Known, TypeOK
  <1> QED
    BY <1>1, <1>2, <1>3, <1>4, <1>5

-----------------------------------------------------------------------------
(* A moved key has one owner.                                              *)

(* A key on its way is where it was found, or also where it goes.          *)
MovesOneKey(p) ==
  job[p] = "move" =>
    /\ pc[p] = "save" => \A f \in Files : KeyIn(f, want[p]) => f = From(p)
    /\ pc[p] = "forget" => \A f \in Files : KeyIn(f, want[p]) => f \in {From(p), To(p)}

OnItsWay(k) == \E p \in Procs : job[p] = "move" /\ want[p] = k /\ pc[p] \in {"forget", "dead"}

OwnerInv == KeysInv /\ OneOwner /\ \A p \in Procs : MovesOneKey(p)

LEMMA OwnerOf ==
  ASSUME OneOwner, NEW k \in Keys, NEW f \in Files, NEW g \in Files, KeyIn(f, k), KeyIn(g, k),
         ~OnItsWay(k)
  PROVE  f = g
  BY DEF OneOwner, OnItsWay

LEMMA InitOwner == OwnedAtFirst /\ Init => OwnerInv
  <1> SUFFICES ASSUME OwnedAtFirst, Init PROVE OwnerInv
    OBVIOUS
  <1>1. KeysInv /\ Known
    BY InitKeys, InitKnown
  <1>2. \A f, g \in Files, k \in Keys : KeyIn(f, k) /\ KeyIn(g, k) => f = g
    <2>1. file \in FirstRows /\ NoKey \notin Keys
      BY HandoffAssumption DEF Init, Keys
    <2>2. \A f \in Files, k \in Keys : KeyIn(f, k) => file[f] \in Rows
      BY <1>1 DEF Known, TypeOK
    <2> QED
      BY <2>1, <2>2 DEF OwnedAtFirst
  <1> QED
    BY <1>1, <1>2 DEF Init, OwnerInv, OneOwner, MovesOneKey

LEMMA StepOwner ==
  ASSUME OneMover, OwnerInv, [Next]_vars
  PROVE  OwnerInv'
  <1>1. Known /\ KeysInv /\ KeysInv'
    BY StepKeys DEF OwnerInv, KeysInv
  <1>2. CASE UNCHANGED vars
    BY <1>1, <1>2 DEF vars, OwnerInv, OneOwner, MovesOneKey, From, To
  <1>3. ASSUME NEW p \in Procs, Step(p)
        PROVE  OneOwner' /\ \A q \in Procs : MovesOneKey(q)'
    <2> USE <1>1 DEF OwnerInv
    <2>1. CASE Bystands(p)
      <3>1. \A k \in Keys : OnItsWay(k) => OnItsWay(k)'
        BY <2>1, BystandsFrame DEF OnItsWay
      <3>2. OneOwner'
        BY <2>1, <3>1, BystandsFrame DEF OneOwner, OnItsWay
      <3>3. \A q \in Procs : MovesOneKey(q)'
        BY <2>1, BystandsFrame DEF MovesOneKey, From, To
      <3> QED
        BY <3>2, <3>3
    <2>2. CASE ReadEntry(p)
      <3>1. \A k \in Keys : OnItsWay(k) => OnItsWay(k)'
        BY <2>2, ReadEntryFrame DEF OnItsWay
      <3>2. OneOwner'
        BY <2>2, <3>1, ReadEntryFrame DEF OneOwner, OnItsWay
      <3>3. ASSUME job[p] = "move", pc'[p] = "save" PROVE MovesOneKey(p)'
        <4>1. ~OnItsWay(want[p])
          BY <2>2, <3>3, ReadEntryFrame, MoverIsOne DEF OnItsWay
        <4>2. want[p] \in Keys
          BY <2>2, ReadEntryFrame DEF Known, InHand
        <4> QED
          BY <2>2, <3>3, <4>1, <4>2, ReadEntryFrame, OwnerOf DEF MovesOneKey
      <3>4. MovesOneKey(p)'
        BY <2>2, <3>3, ReadEntryFrame DEF MovesOneKey
      <3>5. \A q \in Procs : q # p => MovesOneKey(q)'
        BY <2>2, ReadEntryFrame DEF MovesOneKey, From, To
      <3> QED
        BY <3>2, <3>4, <3>5
    <2>3. CASE TakeRow(p)
      <3> USE <2>3, TakeRowFrame
      <3>1. \A k \in Keys : ~OnItsWay(k)
        BY MoverIsOne DEF OnItsWay
      <3>2. \A k \in Keys, f \in Files : KeyIn(f, k)' => KeyIn(f, k) \/ (f = To(p) /\ k = want[p])
        OBVIOUS
      <3>3. \A f \in Files : KeyIn(f, want[p]) => f = From(p)
        BY DEF MovesOneKey
      <3>4. \A f \in Files, k \in Keys : KeyIn(f, k)' /\ f = To(p) => k = want[p]
        OBVIOUS
      <3>5. OneOwner'
        <4> SUFFICES ASSUME NEW f \in Files, NEW g \in Files, NEW k \in Keys,
                            KeyIn(f, k)', KeyIn(g, k)', f # g
                     PROVE  OnItsWay(k)'
          BY DEF OneOwner, OnItsWay
        <4>1. CASE k = want[p]
          <5>1. f \in {From(p), To(p)} /\ g \in {From(p), To(p)}
            BY <3>2, <3>3, <4>1
          <5>2. pc'[p] = "forget"
            BY <5>1
          <5> QED
            BY <4>1, <5>2 DEF OnItsWay
        <4>2. CASE k # want[p]
          BY <3>1, <3>2, <4>2, OwnerOf
        <4> QED
          BY <4>1, <4>2
      <3>6. MovesOneKey(p)'
        <4>1. From(p)' = From(p) /\ To(p)' = To(p)
          BY DEF From, To
        <4> QED
          BY <3>2, <3>3, <4>1 DEF MovesOneKey
      <3>7. \A q \in Procs : q # p => MovesOneKey(q)'
        BY MoverIsOne DEF MovesOneKey
      <3> QED
        BY <3>5, <3>6, <3>7
    <2>4. CASE CloneRow(p)
      <3> USE <2>4, CloneRowFrame
      <3>1. NoKey \notin Keys
        BY HandoffAssumption DEF Keys
      <3>2. \A k \in Keys, f \in Files : KeyIn(f, k)' => KeyIn(f, k)
        BY <3>1
      <3>3. \A k \in Keys : OnItsWay(k) => OnItsWay(k)'
        BY DEF OnItsWay
      <3>4. OneOwner'
        BY <3>2, <3>3 DEF OneOwner, OnItsWay
      <3>5. \A q \in Procs : MovesOneKey(q)'
        BY <3>2 DEF MovesOneKey, From, To, Known, InHand
      <3> QED
        BY <3>4, <3>5
    <2>5. CASE ForgetRow(p)
      <3> USE <2>5, ForgetRowFrame
      <3>1. \A k \in Keys, f \in Files : KeyIn(f, k)' => KeyIn(f, k) /\ f # From(p)
        OBVIOUS
      <3>2. \A k \in Keys : OnItsWay(k) => k = want[p]
        BY MoverIsOne DEF OnItsWay
      <3>3. \A f, g \in Files, k \in Keys : KeyIn(f, k)' /\ KeyIn(g, k)' => f = g
        <4> SUFFICES ASSUME NEW f \in Files, NEW g \in Files, NEW k \in Keys,
                            KeyIn(f, k)', KeyIn(g, k)'
                     PROVE  f = g
          OBVIOUS
        <4>1. CASE k = want[p]
          BY <3>1, <4>1 DEF MovesOneKey
        <4>2. CASE k # want[p]
          BY <3>1, <3>2, <4>2, OwnerOf
        <4> QED
          BY <4>1, <4>2
      <3>4. \A q \in Procs : MovesOneKey(q)'
        BY <3>1, MoverIsOne DEF MovesOneKey
      <3> QED
        BY <3>3, <3>4 DEF OneOwner
    <2>6. CASE SaveSnapshot(p)
      <3> USE <2>6, SaveSnapshotFrame
      <3>1. \A k \in Keys, f \in Files : KeyIn(f, k) => k # minted + 1
        <4>1. minted \in Nat /\ NoKey \notin Keys
          BY HandoffAssumption DEF Known, TypeOK, Keys
        <4>2. \A k \in Keys, f \in Files : KeyIn(f, k) => file[f] \in RowsAround
          BY DEF Known, TypeOK, RowsAround
        <4>3. \A r \in RowsAround : r.key \in Keys => r.key # minted + 1
          BY <4>1 DEF KeysInv, KeysAreMinted
        <4> QED
          BY <4>2, <4>3
      <3>2. \A k \in Keys, f \in Files :
              KeyIn(f, k)' => \/ f = To(p) /\ k = minted + 1
                              \/ f # To(p) /\ KeyIn(f, k)
        OBVIOUS
      <3>3. \A k \in Keys : OnItsWay(k) => OnItsWay(k)'
        BY DEF OnItsWay
      <3>4. OneOwner'
        BY <3>1, <3>2, <3>3 DEF OneOwner, OnItsWay
      <3>5. ASSUME NEW q \in Procs, job[q] = "move", pc[q] \in {"save", "forget"}
            PROVE  \A f \in Files : KeyIn(f, want[q])' => KeyIn(f, want[q])
        <4>1. want[q] \in Keys /\ found[q] \in RowsAround /\ found[q].key = want[q]
          BY <3>5 DEF Known, InHand, RowsAround
        <4>2. want[q] # minted + 1
          <5>1. minted \in Nat /\ NoKey \notin Keys
            BY HandoffAssumption DEF Known, TypeOK, Keys
          <5> QED
            BY <4>1, <5>1 DEF KeysInv, KeysAreMinted
        <4> QED
          BY <3>2, <4>1, <4>2
      <3>6. \A q \in Procs : MovesOneKey(q)'
        BY <3>5 DEF MovesOneKey, From, To
      <3> QED
        BY <3>4, <3>6
    <2> QED
      BY <1>3, <2>1, <2>2, <2>3, <2>4, <2>5, <2>6 DEF Step, Bystands
  <1> QED
    BY <1>1, <1>2, <1>3 DEF Next, Finished, OwnerInv

(* Where one process moves keys that have one owner each, a key is in two  *)
(* rows only while its move has not yet forgotten the first, or died       *)
(* before that.                                                            *)
THEOREM KeyHasOneOwner ==
  ASSUME OneMover, OwnedAtFirst
  PROVE  Spec => []OneOwner
  <1>1. Init => OwnerInv
    BY InitOwner
  <1>2. OwnerInv /\ [Next]_vars => OwnerInv'
    BY StepOwner
  <1>3. OwnerInv => OneOwner
    BY DEF OwnerInv
  <1> QED
    BY <1>1, <1>2, <1>3, PTL DEF Spec

-----------------------------------------------------------------------------
(* A move loses nothing.                                                   *)

NoCapture == \A p \in Procs : job[p] # "capture"

Kept(k) == k \in replaced \/ \E f \in Files : KeyIn(f, k)

(* The row a move will forget is still the one it found, or has no key any *)
(* more, and by then its key is where it went.                             *)
GivesWhatItFound(p) ==
  job[p] = "move" /\ pc[p] \in {"save", "forget"} =>
    /\ \A k \in Keys : KeyIn(From(p), k) => k = want[p]
    /\ pc[p] = "forget" => From(p) # To(p) /\ (want[p] \in replaced \/ KeyIn(To(p), want[p]))

KeptInv ==
  NoCapture => (\A k \in 1..minted : Kept(k)) /\ \A p \in Procs : GivesWhatItFound(p)

LEMMA InitKept == Init => KeptInv
  <1> SUFFICES ASSUME Init PROVE KeptInv
    OBVIOUS
  <1>1. KeysOf(file) = 1..minted
    BY HandoffAssumption DEF Init
  <1>2. \A k \in 1..minted : Kept(k)
    BY <1>1, RowsTyped DEF KeysOf, Kept
  <1> QED
    BY <1>2 DEF Init, KeptInv, GivesWhatItFound

(* Nothing is captured after a step only if nothing was before.            *)
LEMMA StillNoCapture ==
  ASSUME Known, NEW p \in Procs, Step(p), NoCapture'
  PROVE  NoCapture /\ ~SaveSnapshot(p)
  <1>1. NoCapture
    <2>1. CASE Bystands(p)
      BY <2>1, BystandsFrame DEF NoCapture
    <2>2. CASE ReadEntry(p)
      BY <2>2, ReadEntryFrame DEF NoCapture
    <2>3. CASE TakeRow(p) \/ CloneRow(p) \/ ForgetRow(p) \/ SaveSnapshot(p)
      BY <2>3, TakeRowFrame, CloneRowFrame, ForgetRowFrame, SaveSnapshotFrame DEF NoCapture
    <2> QED
      BY <2>1, <2>2, <2>3 DEF Step, Bystands
  <1> QED
    BY <1>1, SaveSnapshotFrame DEF NoCapture

LEMMA StepKept ==
  ASSUME OneMover, Known, Known', KeptInv, [Next]_vars
  PROVE  KeptInv'
  <1>1. CASE UNCHANGED vars
    BY <1>1 DEF vars, KeptInv, NoCapture, Kept, GivesWhatItFound, From, To
  <1>2. ASSUME NEW p \in Procs, Step(p), NoCapture'
        PROVE  /\ \A k \in 1..minted' : Kept(k)'
               /\ \A q \in Procs : GivesWhatItFound(q)'
    <2>1. NoCapture /\ ~SaveSnapshot(p)
      BY <1>2, StillNoCapture
    <2>10. (\A k \in 1..minted : Kept(k)) /\ \A q \in Procs : GivesWhatItFound(q)
      BY <2>1 DEF KeptInv
    <2>11. 1..minted \subseteq Keys
      BY HandoffAssumption DEF Known, TypeOK, Keys
    <2> USE <2>1, <2>10, <2>11
    <2>2. CASE Bystands(p)
      BY <2>2, BystandsFrame DEF Kept, GivesWhatItFound, From, To
    <2>3. CASE ReadEntry(p)
      <3>1. \A k \in 1..minted' : Kept(k)'
        BY <2>3, ReadEntryFrame DEF Kept
      <3>2. GivesWhatItFound(p)'
        BY <2>3, ReadEntryFrame DEF GivesWhatItFound
      <3>3. \A q \in Procs : q # p => GivesWhatItFound(q)'
        BY <2>3, ReadEntryFrame DEF GivesWhatItFound, From, To
      <3> QED
        BY <3>1, <3>2, <3>3
    <2>4. CASE TakeRow(p)
      <3> USE <2>4, TakeRowFrame, RowsTyped
      <3>1. \A k \in Keys : Kept(k) => Kept(k)'
        BY DEF Kept
      <3>2. /\ To(p)' = To(p) /\ From(p)' = From(p)
        BY DEF To, From
      <3>3. GivesWhatItFound(p)'
        BY <3>2 DEF GivesWhatItFound
      <3>4. \A q \in Procs : q # p => GivesWhatItFound(q)'
        BY MoverIsOne DEF GivesWhatItFound
      <3> QED
        BY <3>1, <3>3, <3>4
    <2>5. CASE CloneRow(p)
      <3> USE <2>5, CloneRowFrame
      <3>1. \A k \in Keys : Kept(k) => Kept(k)'
        BY DEF Kept
      <3>2. NoKey \notin Keys
        BY HandoffAssumption DEF Keys
      <3>3. ASSUME NEW q \in Procs, job[q] = "move", pc[q] \in {"save", "forget"}
            PROVE  GivesWhatItFound(q)'
        <4>1. /\ From(q)' = From(q) /\ To(q)' = To(q) /\ From(q) \in Files /\ q # p
              /\ pc'[q] = pc[q] /\ want'[q] = want[q] /\ want[q] \in Keys
          BY <3>3, RowsTyped DEF From, To, Known, InHand
        <4>2. \A k \in Keys : KeyIn(From(q), k)' => k = want[q]
          BY <3>2, <3>3, <4>1 DEF GivesWhatItFound
        <4>3. want[q] \in replaced \/ KeyIn(To(q), want[q])
                => want[q] \in replaced' \/ KeyIn(To(q), want[q])'
          <5>1. To(q) \in Files
            BY <4>1, <3>3, HandoffAssumption DEF To, Known, InHand
          <5> QED
            BY <4>1, <5>1
        <4> QED
          BY <3>3, <4>1, <4>2, <4>3 DEF GivesWhatItFound
      <3>4. \A q \in Procs : GivesWhatItFound(q)'
        BY <3>3 DEF GivesWhatItFound
      <3> QED
        BY <3>1, <3>4
    <2>6. CASE ForgetRow(p)
      <3> USE <2>6, ForgetRowFrame
      <3>1. want[p] \in Keys /\ To(p) \in Files
        BY HandoffAssumption DEF Known, InHand, To
      <3>2. /\ want[p] \in replaced \/ KeyIn(To(p), want[p])
            /\ From(p) # To(p)
            /\ \A k \in Keys : KeyIn(From(p), k) => k = want[p]
        BY DEF GivesWhatItFound
      <3>3. \A k \in Keys : Kept(k) => Kept(k)'
        BY <3>1, <3>2 DEF Kept
      <3>4. \A q \in Procs : GivesWhatItFound(q)'
        BY MoverIsOne DEF GivesWhatItFound
      <3> QED
        BY <3>3, <3>4
    <2> QED
      BY <1>2, <2>2, <2>3, <2>4, <2>5, <2>6 DEF Step, Bystands
  <1> QED
    BY <1>1, <1>2 DEF Next, Finished, KeptInv

(* Where one process moves and nothing is captured meanwhile, a minted key *)
(* is in a row at every moment, unless another row was saved over it.      *)
THEOREM MoveLosesNothing ==
  ASSUME OneMover
  PROVE  Spec => []MoveKeepsSnapshot
  <1>1. Init => KeptInv
    BY InitKept
  <1>2. Known /\ Known' /\ KeptInv /\ [Next]_vars => KeptInv'
    BY StepKept
  <1>3. KeptInv => MoveKeepsSnapshot
    BY DEF KeptInv, NoCapture, Kept, MoveKeepsSnapshot
  <1> QED
    BY <1>1, <1>2, <1>3, KnownInvariant, PTL DEF Spec
=============================================================================

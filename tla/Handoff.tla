------------------------------- MODULE Handoff -------------------------------
(***************************************************************************)
(* The rows of all sessions, and the processes that write them: an         *)
(* explicit handoff (src/recall.rs handoff over Store::find_by_key, take   *)
(* and clone_to) and a synthesize as far as its row goes.  Each process    *)
(* runs once and nothing locks the directory.  The markers of a session    *)
(* are in Delivery.                                                        *)
(***************************************************************************)
EXTENDS Naturals, FiniteSets

CONSTANTS
  Sessions,     \* session ids
  Files,        \* row file names
  Slug,         \* the file of each session; different ids may share one
  Procs,        \* processes
  Jobs,         \* the jobs each process may be given
  FirstRows,    \* the directories the store may start with
  NumKeys,      \* keys 1..NumKeys are minted before the limit is reached
  Crashes,      \* may a process die between two steps
  NoRow,        \* the file does not exist
  Corrupt,      \* the file exists and does not parse
  NoKey         \* a row without a key; a process that was given nothing yet

Keys == 1..NumKeys
JobNames == {"move", "clone", "capture"}
Steps == {"idle", "open", "scan", "save", "forget", "load", "extract", "done", "dead"}

(* A row's memory stands for its handoff text: the snapshots it goes back  *)
(* to, as each extraction is given the prior handoff to carry on.          *)
Rows == [session : Sessions, key : Keys \cup {NoKey}, memory : SUBSET Keys]
NoMemory == {}

VARIABLES
  file,      \* content of every row file
  minted,    \* number of keys minted
  pc, job,
  host,      \* the session a process works for
  want,      \* the key a handoff was given
  todo,      \* directory entries a lookup has still to read
  found,     \* the row a lookup returned
  prior,     \* what a capture carries from the row it loaded
  replaced   \* history: keys whose row another row was saved over

vars == <<file, minted, pc, job, host, want, todo, found, prior, replaced>>
locals == <<job, host, want>>

Parsed(f) == file[f] \notin {NoRow, Corrupt}

(* Mutant: a row that does not parse is taken for the one looked for.      *)
KeyOrCorrupt(f, k) == file[f] = Corrupt \/ (file[f] # NoRow /\ file[f].key = k)

KeyIn(f, k) == Parsed(f) /\ file[f].key = k

(* The keys in the rows of directory d.                                    *)
KeysOf(d) == {k \in Keys : \E f \in Files : d[f] \in Rows /\ d[f].key = k}

(* The store starts as earlier commands left it: the keys they minted, in  *)
(* order, each naming one snapshot, and every row in its session's file.   *)
ASSUME HandoffAssumption ==
  /\ Slug \in [Sessions -> Files]
  /\ Jobs \in [Procs -> SUBSET JobNames]
  /\ NumKeys \in Nat
  /\ Crashes \in BOOLEAN
  /\ NoKey \notin Nat
  /\ NoRow \notin Rows /\ Corrupt \notin Rows /\ NoRow # Corrupt
  /\ \A d \in FirstRows, f \in Files : d[f] \in Rows => Slug[d[f].session] = f
  /\ FirstRows \subseteq [Files -> Rows \cup {NoRow, Corrupt}]
  /\ \A d \in FirstRows : KeysOf(d) = 1..Cardinality(KeysOf(d))
  /\ \A d \in FirstRows, f, g \in Files :
       {d[f], d[g]} \subseteq Rows /\ d[f].key = d[g].key /\ d[f].key # NoKey
         => d[f].memory = d[g].memory

Init ==
  /\ file \in FirstRows
  /\ minted = Cardinality(KeysOf(file))
  /\ pc = [p \in Procs |-> "idle"]
  /\ job = [p \in Procs |-> "none"]
  /\ host = [p \in Procs |-> NoKey]
  /\ want = [p \in Procs |-> NoKey]
  /\ todo = [p \in Procs |-> {}]
  /\ found = [p \in Procs |-> NoRow]
  /\ prior = [p \in Procs |-> NoMemory]
  /\ replaced = {}

Goto(p, to) == pc' = [pc EXCEPT ![p] = to]

(* The host session comes from the environment, the key from the user.     *)
Begin(p) ==
  /\ pc[p] = "idle"
  /\ \E s \in Sessions, j \in Jobs[p] :
      \E k \in IF j = "capture" THEN {NoKey} ELSE 1..minted :
        /\ host' = [host EXCEPT ![p] = s]
        /\ job' = [job EXCEPT ![p] = j]
        /\ want' = [want EXCEPT ![p] = k]
        /\ Goto(p, IF j = "capture" THEN "load" ELSE "open")
  /\ UNCHANGED <<file, minted, todo, found, prior, replaced>>

-----------------------------------------------------------------------------
(* find_by_key: the entries present when the directory is opened are read  *)
(* one by one; one created later may be listed as well, one removed        *)
(* meanwhile fails to read and is passed over, as a corrupt one is.        *)
OpenDirectory(p) ==
  /\ pc[p] = "open"
  /\ \E later \in SUBSET {f \in Files : file[f] = NoRow} :
       todo' = [todo EXCEPT ![p] = later \cup {f \in Files : file[f] # NoRow}]
  /\ Goto(p, "scan")
  /\ UNCHANGED <<file, minted, locals, found, prior, replaced>>

ReadEntry(p) ==
  /\ pc[p] = "scan"
  /\ \E f \in todo[p] :
       \/ /\ KeyIn(f, want[p])
          /\ found' = [found EXCEPT ![p] = file[f]]
          /\ todo' = [todo EXCEPT ![p] = {}]
          /\ Goto(p, "save")
       \/ /\ ~KeyIn(f, want[p])
          /\ todo' = [todo EXCEPT ![p] = @ \ {f}]
          /\ UNCHANGED <<found, pc>>
  /\ UNCHANGED <<file, minted, locals, prior, replaced>>

NoSuchKey(p) ==
  /\ pc[p] = "scan"
  /\ todo[p] = {}
  /\ Goto(p, "done")
  /\ UNCHANGED <<file, minted, locals, todo, found, prior, replaced>>

(* Store::save: an atomic rename over whatever row the session had.        *)
Save(r) ==
  LET f == Slug[r.session] IN
  /\ file' = [file EXCEPT ![f] = r]
  /\ replaced' = replaced \cup {k \in Keys : KeyIn(f, k) /\ r.key # k}

MovedRow(p) == [found[p] EXCEPT !.session = host[p]]

(* Mutant: the giving row goes before the receiving one is saved.          *)
ForgetThenTake(p) ==
  /\ pc[p] = "save" /\ job[p] = "move"
  /\ IF KeyIn(Slug[found[p].session], want[p])
     THEN file' = [file EXCEPT ![Slug[found[p].session]] = NoRow] /\ UNCHANGED <<replaced, pc>>
     ELSE Save(MovedRow(p)) /\ Goto(p, "done")
  /\ UNCHANGED <<minted, locals, todo, found, prior>>

(* Store::take, first half.  A session that takes its own row is done.     *)
TakeRow(p) ==
  /\ pc[p] = "save" /\ job[p] = "move"
  /\ Save(MovedRow(p))
  /\ Goto(p, IF Slug[found[p].session] # Slug[host[p]] THEN "forget" ELSE "done")
  /\ UNCHANGED <<minted, locals, todo, found, prior>>

(* Mutant: a clone keeps its source's key.                                 *)
ClonedRowWithKey(p) == [found[p] EXCEPT !.session = host[p]]

ClonedRow(p) == [found[p] EXCEPT !.session = host[p], !.key = NoKey]

CloneRow(p) ==
  /\ pc[p] = "save" /\ job[p] = "clone"
  /\ Save(ClonedRow(p))
  /\ Goto(p, "done")
  /\ UNCHANGED <<minted, locals, todo, found, prior>>

(* Store::take, second half: the giving session's row goes, whatever it    *)
(* has become since it was found.                                          *)
ForgetRow(p) ==
  /\ pc[p] = "forget"
  /\ file' = [file EXCEPT ![Slug[found[p].session]] = NoRow]
  /\ Goto(p, "done")
  /\ UNCHANGED <<minted, locals, todo, found, prior, replaced>>

-----------------------------------------------------------------------------
(* The worker of a synthesize: it loads the row, a corrupt one counting as *)
(* none, extracts for minutes, and saves a row with a fresh key.           *)
LoadPrior(p) ==
  /\ pc[p] = "load"
  /\ prior' = [prior EXCEPT ![p] = IF Parsed(Slug[host[p]]) THEN file[Slug[host[p]]].memory
                                                            ELSE NoMemory]
  /\ Goto(p, "extract")
  /\ UNCHANGED <<file, minted, locals, todo, found, replaced>>

(* Mutant: a session keeps the key of the row it carries on.               *)
MintedRowOldKey(p) ==
  [session |-> host[p],
   key |-> IF prior[p] = NoMemory THEN minted + 1 ELSE CHOOSE k \in prior[p] : \A j \in prior[p] : j <= k,
   memory |-> prior[p] \cup {minted + 1}]

MintedRow(p) == [session |-> host[p], key |-> minted + 1, memory |-> prior[p] \cup {minted + 1}]

SaveSnapshot(p) ==
  /\ pc[p] = "extract"
  /\ minted < NumKeys
  /\ Save(MintedRow(p))
  /\ minted' = minted + 1
  /\ Goto(p, "done")
  /\ UNCHANGED <<locals, todo, found, prior>>

FailExtraction(p) ==
  /\ pc[p] = "extract"
  /\ Goto(p, "done")
  /\ UNCHANGED <<file, minted, locals, todo, found, prior, replaced>>

-----------------------------------------------------------------------------
(* A process is killed, or a call fails and its error is returned.         *)
Die(p) ==
  /\ Crashes
  /\ pc[p] \notin {"idle", "done", "dead"}
  /\ Goto(p, "dead")
  /\ UNCHANGED <<file, minted, locals, todo, found, prior, replaced>>

Step(p) ==
  \/ Begin(p) \/ OpenDirectory(p) \/ ReadEntry(p) \/ NoSuchKey(p)
  \/ TakeRow(p) \/ ForgetRow(p) \/ CloneRow(p)
  \/ LoadPrior(p) \/ SaveSnapshot(p) \/ FailExtraction(p) \/ Die(p)

Finished == (\A p \in Procs : pc[p] \in {"done", "dead"}) /\ UNCHANGED vars

Next == (\E p \in Procs : Step(p)) \/ Finished

Spec == Init /\ [][Next]_vars

-----------------------------------------------------------------------------
TypeOK ==
  /\ file \in [Files -> Rows \cup {NoRow, Corrupt}]
  /\ minted \in 0..NumKeys
  /\ pc \in [Procs -> Steps]
  /\ job \in [Procs -> JobNames \cup {"none"}]
  /\ host \in [Procs -> Sessions \cup {NoKey}]
  /\ want \in [Procs -> Keys \cup {NoKey}]
  /\ todo \in [Procs -> SUBSET Files]
  /\ found \in [Procs -> Rows \cup {NoRow}]
  /\ prior \in [Procs -> SUBSET Keys]
  /\ replaced \subseteq Keys

(* A key names one snapshot: whatever is moved, cloned and captured        *)
(* meanwhile, two rows with the same key hold the same memory.             *)
KeyNamesOneSnapshot ==
  \A f, g \in Files, k \in Keys : KeyIn(f, k) /\ KeyIn(g, k) => file[f].memory = file[g].memory

(* Where a key is moved once at a time: one process moves, and the keys    *)
(* the store starts with have one owner each.                              *)
OneMover == \A p, q \in Procs : "move" \in Jobs[p] /\ "move" \in Jobs[q] => p = q

OwnedAtFirst ==
  \A d \in FirstRows, f, g \in Files :
    {d[f], d[g]} \subseteq Rows /\ d[f].key = d[g].key /\ d[f].key # NoKey => f = g

(* A key has one owner: it is in two rows only while the move that brought *)
(* it to the second has not yet forgotten the first, or died before that.  *)
(* This is so while a key is moved once at a time: of two moves that both  *)
(* found the key before either forgot it, both keep it.                    *)
OneOwner ==
  \A f, g \in Files, k \in Keys :
    KeyIn(f, k) /\ KeyIn(g, k) /\ f # g
      => \E p \in Procs : job[p] = "move" /\ want[p] = k /\ pc[p] \in {"forget", "dead"}

(* Moving loses nothing, wherever it is interrupted: a minted key is in a  *)
(* row unless another row was saved over it.  Captures are left out: see   *)
(* the hazard of forget.                                                   *)
MoveKeepsSnapshot ==
  (\A p \in Procs : job[p] # "capture") =>
    \A k \in 1..minted : k \in replaced \/ \E f \in Files : KeyIn(f, k)
=============================================================================

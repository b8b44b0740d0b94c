------------------------------ MODULE StoreHome ------------------------------
(***************************************************************************)
(* How a process starts, up to the store it works on: the hooks point      *)
(* stderr at the log before anything that can fail (src/detach.rs          *)
(* log_stderr_to), read their payload, and open the store; commands open   *)
(* it at once (src/store.rs base_dir_under, at, create_dir_private).       *)
(* Every process resolves the directory anew, another program may create   *)
(* ~/.local at any time, and nothing locks anything.                       *)
(***************************************************************************)
EXTENDS Naturals, FiniteSets

CONSTANTS
  Procs,
  Kinds,     \* what each process may be: a hook, a command or a peek
  Homes,     \* what earlier lives left in the home directory
  OldNotes,  \* what an earlier life may have left in the log
  MaxLog,    \* MAX_LOG_BYTES, in notes
  Faults,    \* the calls that may fail
  None

Hooks == {"capture", "recall"}
Bases == {"amtr", "share"}     \* ~/.amtr and ~/.local/share/amtr
Parts == {"base", "cortex"}
Dirs == Bases \X Parts
Modes == {"absent", "loose", "private"}
Logs == Procs \cup {"old"}     \* log files, named for who created them

ASSUME StoreHomeAssumption ==
  /\ Kinds \in [Procs -> SUBSET (Hooks \cup {"command", "peek"})]
  /\ MaxLog \in Nat
  /\ Faults \subseteq {"mkdir", "open log", "create", "restrict"}
  /\ IsFiniteSet(Procs) /\ IsFiniteSet(OldNotes)
  /\ None \notin Logs \cup Bases \cup Dirs
  /\ "old" \notin Procs
  /\ \A h \in Homes : /\ h.local \in BOOLEAN
                      /\ h.dir \in [Dirs -> Modes]
                      /\ h.rows \subseteq {b \in Bases : h.dir[<<b, "cortex">>] # "absent"}
                      /\ h.log \in [Bases -> {"old", None}]

VARIABLES
  local,     \* ~/.local exists
  dir,       \* the directories of the two possible stores
  rows,      \* the stores that hold a row
  log,       \* the file amtr.log of each store
  notes,     \* what is in each log file, also after it was unlinked
  pc, kind,
  home,      \* the store a process resolved
  stderr,    \* where its stderr goes; None: the host, which discards it
  lost,      \* history: the directory whose creation was refused to a process
  maker,     \* history: who created each directory
  faulted,   \* history: processes that met a failing call
  hasty      \* history: ~/.local appeared between a resolution and a creation

vars == <<local, dir, rows, log, notes, pc, kind, home, stderr, lost, maker, faulted, hasty>>
disk == <<local, dir, rows, log, notes>>
history == <<lost, maker, faulted, hasty>>

Init ==
  /\ \E h \in Homes : local = h.local /\ dir = h.dir /\ rows = h.rows /\ log = h.log
  /\ notes = [f \in Logs |-> IF f = "old" THEN OldNotes ELSE {}]
  /\ pc = [p \in Procs |-> "idle"]
  /\ kind = [p \in Procs |-> "none"]
  /\ home = [p \in Procs |-> None]
  /\ stderr = [p \in Procs |-> None]
  /\ lost = [p \in Procs |-> None]
  /\ maker = [d \in Dirs |-> None]
  /\ faulted = {}
  /\ hasty = FALSE

Exists(b, part) == dir[<<b, part>>] # "absent"
Goto(p, to) == pc' = [pc EXCEPT ![p] = to]
May(fault, p) == fault \in Faults /\ faulted' = faulted \cup {p}

(* Mutant: ~/.local decides, whether a store exists or not.                *)
LocalDecides == IF local THEN "share" ELSE "amtr"

(* base_dir_under: an existing ~/.amtr wins, else ~/.local decides.        *)
BaseDir == IF ~Exists("amtr", "base") /\ local THEN "share" ELSE "amtr"

Resolve(p, from, to) ==
  /\ pc[p] = from
  /\ home' = [home EXCEPT ![p] = BaseDir]
  /\ Goto(p, to)
  /\ UNCHANGED <<kind, disk, stderr, history>>

(* Mutant: a hook opens the store first.                                   *)
BeginWithStore(p) ==
  /\ pc[p] = "idle"
  /\ kind' \in {[kind EXCEPT ![p] = k] : k \in Kinds[p]}
  /\ Goto(p, "resolve")
  /\ UNCHANGED <<disk, home, stderr, history>>

(* main: the hooks redirect first, the others run at a terminal.           *)
Begin(p) ==
  /\ pc[p] = "idle"
  /\ \E k \in Kinds[p] : /\ kind' = [kind EXCEPT ![p] = k]
                         /\ Goto(p, IF k \in Hooks THEN "redirect" ELSE "resolve")
  /\ UNCHANGED <<disk, home, stderr, history>>

-----------------------------------------------------------------------------
(* log_stderr_to.  Each call may fail and none is an error.                *)
ResolveLog(p) == Resolve(p, "redirect", "mkdir")

MakeLogDir(p) ==
  /\ pc[p] = "mkdir"
  /\ Goto(p, "measure")
  /\ \/ /\ Exists(home[p], "base")
        /\ UNCHANGED <<local, dir, maker, faulted>>
     \/ /\ ~Exists(home[p], "base")
        /\ dir' = [dir EXCEPT ![<<home[p], "base">>] = "loose"]
        /\ maker' = [maker EXCEPT ![<<home[p], "base">>] = p]
        /\ local' = (local \/ home[p] = "share")
        /\ UNCHANGED faulted
     \/ May("mkdir", p) /\ UNCHANGED <<local, dir, maker>>
  /\ UNCHANGED <<kind, rows, log, notes, home, stderr, lost, hasty>>

(* Mutant: the log is never started anew.                                  *)
LogIsLongNever(b) == FALSE

LogIsLong(b) == log[b] # None /\ Cardinality(notes[log[b]]) > MaxLog

MeasureLog(p) ==
  /\ pc[p] = "measure"
  /\ Goto(p, IF LogIsLong(home[p]) THEN "rotate" ELSE "open log")
  /\ UNCHANGED <<kind, disk, home, stderr, history>>

(* remove_file, whatever file bears the name by now.                       *)
RotateLog(p) ==
  /\ pc[p] = "rotate"
  /\ log' = [log EXCEPT ![home[p]] = None]
  /\ Goto(p, "open log")
  /\ UNCHANGED <<kind, local, dir, rows, notes, home, stderr, history>>

(* Mutant: the log is opened without O_CREAT.                              *)
OpenOldLog(p) ==
  /\ pc[p] = "open log"
  /\ stderr' = [stderr EXCEPT ![p] = log[home[p]]]
  /\ Goto(p, "input")
  /\ UNCHANGED <<kind, disk, home, history>>

(* open with O_APPEND and O_CREAT, then dup2 over stderr.                  *)
OpenLog(p) ==
  /\ pc[p] = "open log"
  /\ Goto(p, "input")
  /\ \/ /\ Exists(home[p], "base")
        /\ log' = [log EXCEPT ![home[p]] = IF @ = None THEN p ELSE @]
        /\ stderr' = [stderr EXCEPT ![p] = log'[home[p]]]
        /\ UNCHANGED faulted
     \/ /\ ~Exists(home[p], "base")
        /\ UNCHANGED <<log, stderr, faulted>>
     \/ May("open log", p) /\ UNCHANGED <<log, stderr>>
  /\ UNCHANGED <<kind, local, dir, rows, notes, home, lost, maker, hasty>>

(* Request::read and, for a capture, Request::journal.                     *)
ReadInput(p) ==
  /\ pc[p] = "input"
  /\ Goto(p, "resolve") \/ Goto(p, "error")
  /\ UNCHANGED <<kind, disk, home, stderr, history>>

-----------------------------------------------------------------------------
(* Store::open, which resolves again, or Store::open_existing.             *)
ResolveStore(p) ==
  Resolve(p, "resolve", IF kind[p] = "peek" THEN "peek" ELSE "look base")

OpenExisting(p) ==
  /\ pc[p] = "peek"
  /\ Goto(p, IF Exists(home[p], "base") THEN "work" ELSE "done")
  /\ UNCHANGED <<kind, disk, home, stderr, history>>

(* Mutant: the directory is created without a look.                        *)
NeverLook(p, part, from, create, next) ==
  /\ pc[p] = from
  /\ Goto(p, create)
  /\ UNCHANGED <<kind, disk, home, stderr, history>>

(* create_dir_private, first half: is_dir.                                 *)
LookFor(p, part, from, create, next) ==
  /\ pc[p] = from
  /\ Goto(p, IF Exists(home[p], part) THEN next ELSE create)
  /\ UNCHANGED <<kind, disk, home, stderr, history>>

(* Second half: the parents, then the directory itself, owner-only.  The   *)
(* call that creates it is refused if another process was faster.          *)
CreateDir(p, part, from, next) ==
  /\ pc[p] = from
  /\ \/ /\ ~Exists(home[p], part)
        /\ dir' = [dir EXCEPT ![<<home[p], part>>] = "private"]
        /\ maker' = [maker EXCEPT ![<<home[p], part>>] = p]
        /\ Goto(p, next)
        /\ UNCHANGED <<lost, faulted>>
     \/ /\ Exists(home[p], part)
        /\ lost' = [lost EXCEPT ![p] = <<home[p], part>>]
        /\ Goto(p, "error")
        /\ UNCHANGED <<dir, maker, faulted>>
     \/ May("create", p) /\ Goto(p, "error") /\ UNCHANGED <<dir, maker, lost>>
  /\ local' = (local \/ home[p] = "share")
  /\ UNCHANGED <<kind, rows, log, notes, home, stderr, hasty>>

(* Mutant: only a directory that is created is private.                    *)
LeaveMode(p, part, from, next) ==
  /\ pc[p] = from
  /\ Goto(p, next)
  /\ UNCHANGED <<kind, disk, home, stderr, history>>

RestrictDir(p, part, from, next) ==
  /\ pc[p] = from
  /\ Goto(p, next)
  /\ \/ dir' = [dir EXCEPT ![<<home[p], part>>] = "private"] /\ UNCHANGED faulted
     \/ May("restrict", p) /\ UNCHANGED dir
  /\ UNCHANGED <<kind, local, rows, log, notes, home, stderr, lost, maker, hasty>>

(* Store::at.                                                              *)
OpenStore(p) ==
  \/ LookFor(p, "base", "look base", "create base", "look cortex")
  \/ CreateDir(p, "base", "create base", "look cortex")
  \/ LookFor(p, "cortex", "look cortex", "create cortex", "restrict base")
  \/ CreateDir(p, "cortex", "create cortex", "restrict base")
  \/ RestrictDir(p, "base", "restrict base", "restrict cortex")
  \/ RestrictDir(p, "cortex", "restrict cortex", "work")

-----------------------------------------------------------------------------
(* What follows is in the other modules.  It may take minutes; a capture   *)
(* may end with a row in the store it opened, and any command may fail.    *)
Work(p) ==
  /\ pc[p] = "work"
  /\ \/ Goto(p, "done") /\ UNCHANGED rows
     \/ Goto(p, "error") /\ UNCHANGED rows
     \/ kind[p] = "capture" /\ rows' = rows \cup {home[p]} /\ Goto(p, "done")
  /\ UNCHANGED <<kind, local, dir, log, notes, home, stderr, history>>

(* main prints the error, or the worker does, and exits with status 1.     *)
PrintError(p) ==
  /\ pc[p] = "error"
  /\ notes' = [f \in Logs |-> IF f = stderr[p] THEN notes[f] \cup {p} ELSE notes[f]]
  /\ Goto(p, "failed")
  /\ UNCHANGED <<kind, local, dir, rows, log, home, stderr, history>>

Die(p) ==
  /\ pc[p] \notin {"idle", "done", "failed", "dead"}
  /\ Goto(p, "dead")
  /\ UNCHANGED <<kind, disk, home, stderr, history>>

Step(p) ==
  \/ Begin(p) \/ ResolveLog(p) \/ MakeLogDir(p) \/ MeasureLog(p) \/ RotateLog(p)
  \/ OpenLog(p) \/ ReadInput(p) \/ ResolveStore(p) \/ OpenExisting(p) \/ OpenStore(p)
  \/ Work(p) \/ PrintError(p) \/ Die(p)

(* An unrelated program creates ~/.local.                                  *)
Undecided(p) ==
  pc[p] \in {"mkdir", "look base", "create base"} /\ home[p] = "amtr" /\ ~Exists("amtr", "base")

MakeLocal ==
  /\ ~local
  /\ local' = TRUE
  /\ hasty' = \E p \in Procs : Undecided(p)
  /\ UNCHANGED <<dir, rows, log, notes, pc, kind, home, stderr, lost, maker, faulted>>

Finished == (\A p \in Procs : pc[p] \in {"done", "failed", "dead"}) /\ UNCHANGED vars

Next == (\E p \in Procs : Step(p)) \/ MakeLocal \/ Finished

Spec == Init /\ [][Next]_vars

-----------------------------------------------------------------------------
Steps == {"idle", "redirect", "mkdir", "measure", "rotate", "open log", "input", "resolve",
          "peek", "look base", "create base", "look cortex", "create cortex",
          "restrict base", "restrict cortex", "work", "error", "done", "failed", "dead"}

(* A hook that reached its payload logs, unless a call failed.             *)
TypeOK ==
  /\ local \in BOOLEAN /\ hasty \in BOOLEAN
  /\ dir \in [Dirs -> Modes]
  /\ rows \subseteq Bases
  /\ log \in [Bases -> Logs \cup {None}]
  /\ notes \in [Logs -> SUBSET (Procs \cup OldNotes)]
  /\ pc \in [Procs -> Steps]
  /\ kind \in [Procs -> Hooks \cup {"command", "peek", "none"}]
  /\ home \in [Procs -> Bases \cup {None}]
  /\ stderr \in [Procs -> Logs \cup {None}]
  /\ \A p \in Procs : pc[p] = "input" /\ p \notin faulted => stderr[p] \in Logs
  /\ lost \in [Procs -> Dirs \cup {None}]
  /\ maker \in [Dirs -> Procs \cup {None}]
  /\ faulted \subseteq Procs

(* No earlier life has left a row in a store that a new process would not  *)
(* resolve.                                                                *)
SettledAtFirst ==
  \A h \in Homes :
    /\ "amtr" \in h.rows => h.dir[<<"amtr", "base">>] # "absent"
    /\ "share" \in h.rows => h.local /\ h.dir[<<"amtr", "base">>] = "absent"

(* Nothing moves a store once it exists: every later process resolves the  *)
(* store that holds a row.  The one exception is ~/.local appearing while  *)
(* a process has resolved ~/.amtr and not yet created it: that process     *)
(* creates ~/.amtr in front of a store others may have begun to use.       *)
StoreStays == \A b \in rows : BaseDir = b \/ hasty

(* A process that works on a store it opened has it for the owner alone,   *)
(* though an older version or the log redirection of another process made  *)
(* the directory with the umask's mode, unless a call of its own failed.   *)
OpenedIsPrivate ==
  \A p \in Procs : (pc[p] = "work" /\ kind[p] # "peek" /\ p \notin faulted)
                     => \A part \in Parts : dir[<<home[p], part>>] = "private"

(* Opening is refused only to the loser of a race: another process of the  *)
(* same moment created the directory, so that the next attempt finds it.   *)
OpenLosesOnlyRaces ==
  \A p \in Procs : lost[p] # None => Exists(lost[p][1], lost[p][2]) /\ maker[lost[p]] \in Procs \ {p}

(* The log explains the last failure: the error of a hook is in the log of *)
(* its store, unless a call failed or another hook, seeing or having seen  *)
(* the log too long, has taken its file away since.                        *)
FailureIsLogged ==
  \A p \in Procs : pc[p] = "failed" /\ kind[p] \in Hooks /\ p \notin faulted =>
    \E f \in Logs : /\ stderr[p] = f /\ p \in notes[f]
                    /\ \/ \E b \in Bases : log[b] = f
                       \/ \E q \in Procs \ {p} : kind[q] \in Hooks /\ pc[q] \notin {"idle", "redirect", "mkdir", "measure"}

(* It accumulates no history: a log in use holds at most MaxLog notes and  *)
(* one of each process that uses it.                                       *)
LogIsShort ==
  \A b \in Bases : LET users == {p \in Procs : stderr[p] = log[b]} IN
    log[b] # None /\ users # {} => Cardinality(notes[log[b]]) <= MaxLog + Cardinality(users)
=============================================================================

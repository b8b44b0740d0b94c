------------------------------- MODULE Cortex -------------------------------
(***************************************************************************)
(* The files of the store's cortex directory, one system call at a time:   *)
(* write_atomic of rows and markers (src/store.rs), the publication of a   *)
(* deadline and the claims on a marker (src/recall.rs), the removals of    *)
(* either and the sweep (src/synthesize.rs).  A file that is being written *)
(* stays with its writer when it is renamed or removed, a process may be   *)
(* killed between any two calls, and the power may fail.                   *)
(***************************************************************************)
EXTENDS Naturals, Sequences, Functions

CONSTANTS
  Workers,   \* the processes that write rows and markers
  Hooks,     \* those that publish deadlines and claim markers; in both, a
             \* new process may get the id of a dead one
  Operations, \* the words of a claim's name, "delivering" and "expiring"
  Sessions,  \* the sessions that are at work
  Rows,      \* the texts of rows
  Marks,     \* the texts of markers
  Times,     \* the texts of deadlines
  Found,     \* directories that earlier lives may have left, name to text
  Torn,      \* the text of a file that is empty or written in part
  None

VARIABLES
  dir,    \* the text under each name
  dirty,  \* the names whose text is not on the disk yet
  proc    \* what each process is doing, and the name its file has now

Procs == Workers \cup Hooks
cortex == <<dir, dirty, proc>>

-----------------------------------------------------------------------------
(* A name is the sequence of its parts; the ids of hosts hold no part of ours. *)
RowOf(s) == <<s, "json">>
Marker(s) == <<s, "marker">>
Deadline(s) == <<s, "deliver-deadline">>

(* Mutant: every process writes to the same temporary file.                *)
SharedTemp(n, p) == <<n[1], n[2], "tmp", "shared">>

Temp(n, p) == <<n[1], n[2], "tmp", p>>

(* unique_path *)
Unique(n, operation, p) == <<n[1], n[2], operation, p>>

Claims(s) == {Unique(Marker(s), operation, p) : operation \in Operations, p \in Procs}
Candidates(s) == {Unique(Deadline(s), "publishing", p) : p \in Procs}
Published(s) == {RowOf(s), Marker(s), Deadline(s)} \cup Claims(s)

Temps(s) == {Temp(n, p) : n \in {RowOf(s), Marker(s)}, p \in Procs}

TextsOf(n) == IF n[2] = "json" THEN Rows ELSE IF n[2] = "marker" THEN Marks ELSE Times

Parts == {"json", "marker", "deliver-deadline"}

(* A published name, or one with a word and an id more.                    *)
WellNamed(n) == n[2] \in Parts /\ (Len(n) = 2 \/ (Len(n) = 4 /\ n[4] \notin Parts))

(* The names under which a text may be caught before it is complete.       *)
Unfinished(n) == Len(n) = 4 /\ n[3] \in {"tmp", "publishing"}

(* What earlier lives left is what this one leaves: a text that is not     *)
(* whole only under the names it is written under.                         *)
ASSUME CortexAssumption ==
  /\ Operations \subseteq {"delivering", "expiring"}
  /\ Procs \cap Parts = {}
  /\ \A d \in Found : \A n \in DOMAIN d :
       WellNamed(n) /\ d[n] \in TextsOf(n) \cup {x \in {Torn} : Unfinished(n)}
  /\ \A s \in Sessions : None \notin Published(s) \cup Candidates(s) \cup Temps(s)
  /\ \A d \in Found : None \notin DOMAIN d
  /\ None \notin Rows \cup Marks \cup Times \cup {Torn}
  /\ \A s \in Sessions : \A n \in Published(s) : \A t \in TextsOf(n) : None # <<n, t>>

-----------------------------------------------------------------------------
Idle == [pc |-> "idle", to |-> None, via |-> None, text |-> None, file |-> None]

Init ==
  /\ dir \in Found
  /\ dirty = {}
  /\ proc = [p \in Procs |-> Idle]

Set(p, r) == proc' = [proc EXCEPT ![p] = r]
Goto(p, to) == Set(p, [proc[p] EXCEPT !.pc = to])

(* rename takes a text away from under one name and puts it under another; *)
(* whoever is writing it goes on in the same file, and whoever was writing *)
(* what it replaces goes on in a file without a name.                      *)
Renamed(from, to, procs) ==
  /\ dir' = [n \in (DOMAIN dir \ {from}) \cup {to} |-> IF n = to THEN dir[from] ELSE dir[n]]
  /\ dirty' = (dirty \ {from, to}) \cup {n \in {to} : from \in dirty}
  /\ proc' = [q \in Procs |->
       [procs[q] EXCEPT !.file = IF @ = from THEN to ELSE IF @ = to THEN None ELSE @]]

Removed(n, procs) ==
  /\ dir' = Restrict(dir, DOMAIN dir \ {n})
  /\ dirty' = dirty \ {n}
  /\ proc' = [q \in Procs |-> [procs[q] EXCEPT !.file = IF @ = n THEN None ELSE @]]

Writing(p) == proc[p].pc \in {"asked", "opened", "written", "synced"}

-----------------------------------------------------------------------------
(* Store::save, mark_ongoing and mark_ready call write_atomic.             *)
Save(p, s) ==
  /\ proc[p] = Idle
  /\ \E n \in {RowOf(s), Marker(s)} : \E t \in TextsOf(n) :
       Set(p, [Idle EXCEPT !.pc = "asked", !.to = n, !.via = Temp(n, p), !.text = t])
  /\ UNCHANGED <<dir, dirty>>

(* open_or_join_window writes its candidate.                               *)
Publish(p, s) ==
  /\ proc[p] = Idle
  /\ \E t \in Times :
       Set(p, [Idle EXCEPT !.pc = "asked", !.to = Deadline(s), !.text = t,
                           !.via = Unique(Deadline(s), "publishing", p)])
  /\ UNCHANGED <<dir, dirty>>

Publishing(p) == proc[p].via \in UNION {Candidates(s) : s \in Sessions}

(* create and truncate, or for a candidate create_new: what is there under *)
(* the name is used again, or is in the way.                               *)
Open(p) ==
  LET via == proc[p].via
  IN  /\ proc[p].pc = "asked"
      /\ ~(via \in DOMAIN dir /\ Publishing(p))
      /\ dir' = [n \in DOMAIN dir \cup {via} |-> IF n = via THEN Torn ELSE dir[n]]
      /\ dirty' = dirty \cup {via}
      /\ Set(p, [proc[p] EXCEPT !.pc = "opened", !.file = via])

Write(p) ==
  LET file == proc[p].file
  IN  /\ proc[p].pc = "opened"
      /\ dir' = [n \in DOMAIN dir |-> IF n = file THEN proc[p].text ELSE dir[n]]
      /\ dirty' = dirty \cup ({file} \ {None})
      /\ Goto(p, "written")

(* Mutant: the text is not brought to the disk before the name.            *)
SkipSync(p) ==
  /\ proc[p].pc = "written"
  /\ Goto(p, "synced")
  /\ UNCHANGED <<dir, dirty>>

Sync(p) ==
  /\ proc[p].pc = "written"
  /\ dirty' = dirty \ {proc[p].file}
  /\ Goto(p, "synced")
  /\ UNCHANGED dir

Rename(p) ==
  /\ proc[p].pc = "synced" /\ ~Publishing(p)
  /\ proc[p].via \in DOMAIN dir
  /\ Renamed(proc[p].via, proc[p].to, [proc EXCEPT ![p] = Idle])

(* Mutant: the second publication or restoration replaces the first.       *)
ReplacingLink(p) ==
  LET via == proc[p].via to == proc[p].to
  IN  /\ proc[p].pc = "held" \/ (proc[p].pc = "synced" /\ Publishing(p))
      /\ via \in DOMAIN dir
      /\ dir' = [n \in DOMAIN dir \cup {to} |-> IF n = to THEN dir[via] ELSE dir[n]]
      /\ Set(p, [Idle EXCEPT !.pc = "linked", !.via = via])
      /\ UNCHANGED dirty

(* hard_link, of a candidate or of a claim that is restored: it never      *)
(* replaces anything, and whether it found the name taken or not, the      *)
(* source is removed next.  Both were synced before.                       *)
HardLink(p) ==
  LET via == proc[p].via to == proc[p].to
  IN  /\ proc[p].pc = "held" \/ (proc[p].pc = "synced" /\ Publishing(p))
      /\ via \in DOMAIN dir
      /\ dir' = [n \in DOMAIN dir \cup {to} |-> IF n \in DOMAIN dir THEN dir[n] ELSE dir[via]]
      /\ Set(p, [Idle EXCEPT !.pc = "linked", !.via = via])
      /\ UNCHANGED dirty

(* remove_file of the source, which may be gone; a claim is also removed   *)
(* when it is discharged or folded.                                        *)
DropSource(p) ==
  /\ proc[p].pc \in {"linked", "held"}
  /\ Removed(proc[p].via, [proc EXCEPT ![p] = Idle])

(* Any call of a write may fail: the temporary file or candidate is        *)
(* removed, unless that fails too.                                         *)
CallFails(p) ==
  /\ Writing(p)
  /\ \/ Removed(proc[p].via, [proc EXCEPT ![p] = Idle])
     \/ Set(p, Idle) /\ UNCHANGED <<dir, dirty>>

(* deliver_claim and fold_debt rename the marker to a name of their own.   *)
Claim(p, s) ==
  /\ proc[p] = Idle
  /\ Marker(s) \in DOMAIN dir
  /\ \E operation \in Operations :
       LET c == Unique(Marker(s), operation, p)
       IN  Renamed(Marker(s), c,
             [proc EXCEPT ![p] = [Idle EXCEPT !.pc = "held", !.to = Marker(s), !.via = c]])

(* A process is killed, or the restoring link fails and the claim stays:   *)
(* what the process left stays.                                            *)
Die(p) ==
  /\ proc[p] # Idle
  /\ Set(p, Idle)
  /\ UNCHANGED <<dir, dirty>>

(* forget, unmark, the removal of a deadline, and the sweep of prepare_debt *)
(* through the claims and candidates of whatever process.                  *)
Remove(s) ==
  \E n \in (Published(s) \cup Candidates(s)) \cap DOMAIN dir : Removed(n, proc)

(* The power fails.  A text that was not synced is lost; the directory is  *)
(* taken to be kept in the order it was changed.                           *)
PowerLoss ==
  /\ proc' = [p \in Procs |-> Idle]
  /\ dir' = [n \in DOMAIN dir |-> IF n \in dirty THEN Torn ELSE dir[n]]
  /\ dirty' = {}

Step ==
  \/ \E p \in Procs :
       \/ Open(p) \/ Write(p) \/ Sync(p) \/ Rename(p) \/ HardLink(p) \/ DropSource(p)
       \/ CallFails(p) \/ Die(p)
  \/ \E s \in Sessions :
       \/ \E p \in Workers : Save(p, s)
       \/ \E p \in Hooks : Publish(p, s) \/ Claim(p, s)
       \/ Remove(s)

-----------------------------------------------------------------------------
(* Beyond types: a process writes to a file of its own, under the name it  *)
(* chose unless the sweep took that, and only such files may be unsynced   *)
(* or left by a process that did not finish.                               *)
CortexTypeOK ==
  /\ \A n \in DOMAIN dir : dir[n] \in TextsOf(n) \cup {Torn}
  /\ dirty \subseteq DOMAIN dir
  /\ \A p \in Procs : /\ proc[p].pc \in {"idle", "asked", "opened", "written", "synced", "held", "linked"}
                      /\ proc[p].file \in {None, proc[p].via} \cap (DOMAIN dir \cup {None})

(* Readers and claims see whole texts, whatever name of the store they     *)
(* open, in whatever order the writers, crashes and power failures came.   *)
PublishedIsWhole ==
  \A s \in Sessions : \A n \in Published(s) \cap DOMAIN dir : dir[n] \in TextsOf(n)

(* Every call is one step for those who read the store.                    *)
Names == UNION {Published(s) : s \in Sessions}

Promise == INSTANCE Shelf WITH
  Texts <- Rows \cup Marks \cup Times,
  SeizedAs <- LAMBDA n, c : \E s \in Sessions : n = Marker(s) /\ c \in Claims(s),
  shelf <- [n \in Names |-> IF n \in DOMAIN dir THEN dir[n] ELSE None],
  asked <- [p \in Procs |-> IF Writing(p) THEN <<proc[p].to, proc[p].text>> ELSE None]

(* A row, a marker or a deadline is replaced in one step by a text that    *)
(* somebody asked to put there, a claim takes all of a marker, a restored  *)
(* one replaces nothing newer, and a call that fails changes nothing.      *)
ImplementsShelf == Promise!Spec
=============================================================================

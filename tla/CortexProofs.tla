---------------------------- MODULE CortexProofs ----------------------------
(***************************************************************************)
(* The files of the store are whole under every name that others read, for *)
(* any number of processes and sessions and whatever is killed, removed or *)
(* lost between two system calls.  Every step of Cortex keeps CortexInv;   *)
(* PeekProofs takes that to the behaviours in which peek reads the files.  *)
(***************************************************************************)
EXTENDS Cortex, TLAPS

AnyName == (UNION {Published(s) \cup Candidates(s) \cup Temps(s) : s \in Sessions}) \cup {None}
AnyText == Rows \cup Marks \cup Times \cup {None}
WritingPcs == {"asked", "opened", "written", "synced"}
Job == [pc : WritingPcs \cup {"idle", "held", "linked"},
        to : AnyName, via : AnyName, text : AnyText, file : AnyName]

(* What a process writes, and under which name of its own until then.      *)
MayWrite(p, to, via, text) ==
  \E s \in Sessions :
    \/ to \in {RowOf(s), Marker(s)} /\ via = Temp(to, p) /\ text \in TextsOf(to)
    \/ to = Deadline(s) /\ via = Unique(to, "publishing", p) /\ text \in Times

MayHold(p, to, via) ==
  \E s \in Sessions, operation \in Operations :
    to = Marker(s) /\ via = Unique(to, operation, p)

(* The file a process writes to is the one under its name, unless that was *)
(* swept; only the process itself puts a file there.                       *)
OwnFile(r, d, dd) ==
  /\ r.file = IF r.via \in DOMAIN d THEN r.via ELSE None
  /\ r.via \in DOMAIN d =>
       /\ r.pc \in {"written", "synced"} => d[r.via] = r.text
       /\ r.pc = "synced" => r.via \notin dd

(* What r tells of the process p, with the directory d and the names dd    *)
(* whose text is not on the disk.                                          *)
Doing(p, r, d, dd) ==
  /\ r \in Job
  /\ r.pc = "idle" => r = Idle
  /\ r.pc = "held" => MayHold(p, r.to, r.via)
  /\ r.pc \in {"idle", "asked", "held", "linked"} => r.file = None
  /\ r.pc \in WritingPcs => MayWrite(p, r.to, r.via, r.text)
  /\ r.pc \in {"opened", "written", "synced"} => OwnFile(r, d, dd)

(* Only a file that is being written may be torn, or become so.            *)
Kept(d, dd) ==
  /\ None \notin DOMAIN d
  /\ dd \subseteq DOMAIN d
  /\ \A n \in DOMAIN d : WellNamed(n) /\ d[n] \in TextsOf(n) \cup {Torn}
  /\ \A n \in DOMAIN d : ~Unfinished(n) => d[n] \in TextsOf(n) /\ n \notin dd

CortexInv ==
  /\ Kept(dir, dirty)
  /\ DOMAIN proc = Procs /\ proc = [p \in Procs |-> proc[p]]
  /\ \A p \in Procs : Doing(p, proc[p], dir, dirty)

-----------------------------------------------------------------------------
(* The names.                                                              *)
LEMMA SessionNames ==
  ASSUME NEW s \in Sessions, NEW n \in Published(s) \cup Candidates(s) \cup Temps(s)
  PROVE  n # None /\ n \in AnyName
  <1>1. n # None
    BY CortexAssumption, Zenon
  <1>2. n \in AnyName
    BY Zenon DEF AnyName
  <1> QED
    BY <1>1, <1>2

LEMMA JobNames ==
  ASSUME NEW p \in Procs, NEW to, NEW via, NEW text, MayWrite(p, to, via, text)
  PROVE  /\ to # None /\ WellNamed(to) /\ ~Unfinished(to) /\ to \in AnyName
         /\ via # None /\ WellNamed(via) /\ Unfinished(via) /\ via \in AnyName
         /\ via[4] = p
         /\ text \in TextsOf(to) /\ TextsOf(via) = TextsOf(to)
         /\ \E s \in Sessions : to \in Published(s)
  <1>1. PICK s \in Sessions :
          \/ to \in {RowOf(s), Marker(s)} /\ via = Temp(to, p) /\ text \in TextsOf(to)
          \/ to = Deadline(s) /\ via = Unique(to, "publishing", p) /\ text \in Times
    BY DEF MayWrite
  <1>2. p \notin Parts
    BY CortexAssumption
  <1>3. \/ to = <<s, "json">> /\ via = <<s, "json", "tmp", p>> /\ text \in Rows
        \/ to = <<s, "marker">> /\ via = <<s, "marker", "tmp", p>> /\ text \in Marks
        \/ to = <<s, "deliver-deadline">> /\ via = <<s, "deliver-deadline", "publishing", p>> /\ text \in Times
    BY <1>1 DEF RowOf, Marker, Deadline, Temp, Unique, TextsOf
  <1>4. to \in Published(s) /\ via \in Candidates(s) \cup Temps(s)
    BY <1>1 DEF Published, Candidates, Temps
  <1>5. to # None /\ via # None /\ to \in AnyName /\ via \in AnyName
    BY <1>4, SessionNames
  <1>6. /\ WellNamed(to) /\ ~Unfinished(to)
        /\ WellNamed(via) /\ Unfinished(via) /\ via[4] = p
        /\ text \in TextsOf(to) /\ TextsOf(via) = TextsOf(to)
    BY <1>2, <1>3 DEF WellNamed, Unfinished, Parts, TextsOf
  <1> QED
    BY <1>4, <1>5, <1>6

LEMMA ClaimNames ==
  ASSUME NEW p \in Procs, NEW to, NEW via, MayHold(p, to, via)
  PROVE  /\ to # None /\ WellNamed(to) /\ ~Unfinished(to) /\ to \in AnyName
         /\ via # None /\ WellNamed(via) /\ ~Unfinished(via) /\ via \in AnyName
         /\ TextsOf(to) = Marks /\ TextsOf(via) = Marks
         /\ \E s \in Sessions : to = Marker(s) /\ via \in Claims(s)
  <1>1. PICK s \in Sessions, operation \in Operations :
          to = Marker(s) /\ via = Unique(to, operation, p)
    BY DEF MayHold
  <1>2. p \notin Parts /\ operation \in {"delivering", "expiring"}
    BY CortexAssumption
  <1>3. to = <<s, "marker">> /\ via = <<s, "marker", operation, p>>
    BY <1>1 DEF Marker, Unique
  <1>4. to \in Published(s) /\ via \in Claims(s) /\ via \in Published(s)
    BY <1>1 DEF Published, Claims
  <1>5. to # None /\ via # None /\ to \in AnyName /\ via \in AnyName
    BY <1>4, SessionNames
  <1>6. /\ WellNamed(to) /\ ~Unfinished(to)
        /\ WellNamed(via) /\ ~Unfinished(via)
        /\ TextsOf(to) = Marks /\ TextsOf(via) = Marks
    BY <1>2, <1>3 DEF WellNamed, Unfinished, Parts, TextsOf
  <1> QED
    BY <1>1, <1>4, <1>5, <1>6

(* What a process writes to is not what another one writes to.             *)
LEMMA OwnNames ==
  ASSUME NEW p \in Procs, NEW q \in Procs, p # q,
         NEW r, NEW v, MayWrite(p, r.to, r.via, r.text), MayWrite(q, v.to, v.via, v.text)
  PROVE  r.via # v.via
  BY JobNames

(* What others may read is no file that is being written.                  *)
LEMMA PublishedNames ==
  ASSUME NEW s \in Sessions, NEW n \in Published(s)
  PROVE  n # None /\ WellNamed(n) /\ ~Unfinished(n)
  <1>1. CASE n \in {RowOf(s), Marker(s), Deadline(s)}
    <2>1. n \in {<<s, "json">>, <<s, "marker">>, <<s, "deliver-deadline">>}
      BY <1>1 DEF RowOf, Marker, Deadline
    <2>2. WellNamed(n) /\ ~Unfinished(n)
      BY <2>1 DEF WellNamed, Unfinished, Parts
    <2>3. n # None
      BY CortexAssumption
    <2> QED
      BY <2>2, <2>3
  <1>2. CASE n \in Claims(s)
    <2>1. PICK operation \in Operations, p \in Procs : n = Unique(Marker(s), operation, p)
      BY <1>2 DEF Claims
    <2>2. MayHold(p, Marker(s), n)
      BY <2>1 DEF MayHold
    <2> QED
      BY <2>2, ClaimNames
  <1> QED
    BY <1>1, <1>2 DEF Published

-----------------------------------------------------------------------------
(* What the others do leaves a process as it was, unless they touch its    *)
(* file.                                                                   *)
Untouched(r, d, dd, d2, dd2) ==
  r.pc \in {"opened", "written", "synced"} =>
    /\ r.via \in DOMAIN d2 <=> r.via \in DOMAIN d
    /\ r.via \in DOMAIN d => d2[r.via] = d[r.via]
    /\ r.via \in dd2 => r.via \in dd

LEMMA StillDoing ==
  ASSUME NEW q, NEW r, NEW d, NEW dd, NEW d2, NEW dd2,
         Doing(q, r, d, dd), Untouched(r, d, dd, d2, dd2)
  PROVE  Doing(q, r, d2, dd2)
  <1>1. r.pc \in {"opened", "written", "synced"} => OwnFile(r, d2, dd2)
    BY DEF Doing, Untouched, OwnFile
  <1> QED
    BY <1>1, Zenon DEF Doing

(* A step in which one process goes on.                                    *)
LEMMA OneGoesOn ==
  ASSUME CortexInv, NEW p \in Procs, NEW r, Set(p, r),
         Kept(dir', dirty'), Doing(p, r, dir', dirty'),
         \A q \in Procs \ {p} : Untouched(proc[q], dir, dirty, dir', dirty')
  PROVE  CortexInv'
  <1>1. /\ DOMAIN proc = Procs
        /\ \A q \in Procs : Doing(q, proc[q], dir, dirty)
        /\ proc' = [proc EXCEPT ![p] = r]
    BY DEF CortexInv, Set
  <1>2. /\ DOMAIN proc' = Procs /\ proc' = [q \in Procs |-> proc'[q]]
        /\ proc'[p] = r /\ \A q \in Procs \ {p} : proc'[q] = proc[q]
    BY <1>1
  <1>3. ASSUME NEW q \in Procs PROVE Doing(q, proc'[q], dir', dirty')
    <2>1. CASE q = p
      BY <1>2, <2>1
    <2>2. CASE q # p
      <3>1. Doing(q, proc[q], dir', dirty')
        BY <1>1, <2>2, StillDoing
      <3> QED
        BY <1>2, <2>2, <3>1
    <2> QED
      BY <2>1, <2>2
  <1> QED
    BY <1>2, <1>3, Zenon DEF CortexInv

LEMMA IdleJob ==
  /\ Idle \in Job
  /\ \A p, d, dd : Doing(p, Idle, d, dd)
  <1>1. None \in AnyName /\ None \in AnyText
    <2>1. \A S : None \in S \cup {None}
      OBVIOUS
    <2>2. None \in AnyName
      BY <2>1, Zenon DEF AnyName
    <2>3. None \in AnyText
      BY <2>1, Zenon DEF AnyText
    <2> QED
      BY <2>2, <2>3
  <1>2. Idle \in Job /\ Idle.pc = "idle" /\ Idle.file = None
    BY <1>1 DEF Idle, Job
  <1>3. \A p, d, dd : Doing(p, Idle, d, dd)
    BY <1>2 DEF Doing, WritingPcs
  <1> QED
    BY <1>2, <1>3

(* Save and Publish: a write begins.                                       *)
LEMMA AskInv ==
  ASSUME CortexInv, NEW p \in Procs, proc[p] = Idle, NEW to, NEW via, NEW text,
         MayWrite(p, to, via, text),
         Set(p, [Idle EXCEPT !.pc = "asked", !.to = to, !.via = via, !.text = text]),
         UNCHANGED <<dir, dirty>>
  PROVE  CortexInv'
  <1> DEFINE r == [Idle EXCEPT !.pc = "asked", !.to = to, !.via = via, !.text = text]
  <1>1. to \in AnyName /\ via \in AnyName /\ text \in TextsOf(to) /\ WellNamed(to)
    BY JobNames
  <1>2. text \in AnyText
    BY <1>1 DEF AnyText, TextsOf
  <1>3. Idle \in Job /\ Idle.file = None
    BY IdleJob DEF Idle
  <1>4. r \in Job
    BY <1>1, <1>2, <1>3 DEF Job, WritingPcs
  <1>5. /\ r.pc = "asked" /\ r.to = to /\ r.via = via /\ r.text = text /\ r.file = None
    BY <1>3 DEF Job
  <1> HIDE DEF r
  <1>6. Doing(p, r, dir', dirty')
    BY <1>4, <1>5 DEF Doing
  <1>7. Kept(dir', dirty')
    BY DEF CortexInv
  <1>8. \A q \in Procs : Untouched(proc[q], dir, dirty, dir', dirty')
    BY DEF Untouched
  <1>9. Set(p, r)
    BY DEF r
  <1> QED
    BY <1>6, <1>7, <1>8, <1>9, OneGoesOn

LEMMA SaveInv ==
  ASSUME CortexInv, NEW p \in Procs, NEW s \in Sessions, Save(p, s)
  PROVE  CortexInv'
  <1>1. PICK n \in {RowOf(s), Marker(s)} : \E t \in TextsOf(n) :
          Set(p, [Idle EXCEPT !.pc = "asked", !.to = n, !.via = Temp(n, p), !.text = t])
    BY Zenon DEF Save
  <1>2. PICK t \in TextsOf(n) :
          Set(p, [Idle EXCEPT !.pc = "asked", !.to = n, !.via = Temp(n, p), !.text = t])
    BY <1>1
  <1>3. MayWrite(p, n, Temp(n, p), t)
    BY <1>1, <1>2 DEF MayWrite
  <1>4. proc[p] = Idle /\ UNCHANGED <<dir, dirty>>
    BY DEF Save
  <1> QED
    BY <1>2, <1>3, <1>4, AskInv

LEMMA PublishInv ==
  ASSUME CortexInv, NEW p \in Procs, NEW s \in Sessions, Publish(p, s)
  PROVE  CortexInv'
  <1> DEFINE to == Deadline(s)
             via == Unique(Deadline(s), "publishing", p)
  <1>1. PICK t \in Times :
          Set(p, [Idle EXCEPT !.pc = "asked", !.to = to, !.text = t, !.via = via])
    BY Zenon DEF Publish
  <1>2. [Idle EXCEPT !.pc = "asked", !.to = to, !.text = t, !.via = via]
          = [Idle EXCEPT !.pc = "asked", !.to = to, !.via = via, !.text = t]
    BY DEF Idle
  <1>3. MayWrite(p, to, via, t)
    BY <1>1 DEF MayWrite
  <1>4. proc[p] = Idle /\ UNCHANGED <<dir, dirty>>
    BY DEF Publish
  <1> HIDE DEF to, via
  <1>5. Set(p, [Idle EXCEPT !.pc = "asked", !.to = to, !.via = via, !.text = t])
    BY <1>1, <1>2
  <1> QED
    BY <1>3, <1>4, <1>5, AskInv

(* A process that writes, by CortexInv.                                    *)
LEMMA Writer ==
  ASSUME CortexInv, NEW p \in Procs, proc[p].pc \in WritingPcs
  PROVE  /\ proc[p] \in Job
         /\ MayWrite(p, proc[p].to, proc[p].via, proc[p].text)
         /\ proc[p].pc = "asked" => proc[p].file = None
         /\ proc[p].pc # "asked" => OwnFile(proc[p], dir, dirty)
  BY DEF CortexInv, Doing, WritingPcs

(* Whoever else writes does not notice what happens to a name of p's, ...  *)
LEMMA OthersUntouched ==
  ASSUME CortexInv, NEW p \in Procs, proc[p].pc \in WritingPcs, NEW d2, NEW dd2,
         \A n : n # proc[p].via => /\ n \in DOMAIN d2 <=> n \in DOMAIN dir
                                   /\ n \in DOMAIN dir => d2[n] = dir[n]
                                   /\ n \in dd2 => n \in dirty
  PROVE  \A q \in Procs \ {p} : Untouched(proc[q], dir, dirty, d2, dd2)
  <1> SUFFICES ASSUME NEW q \in Procs \ {p}, proc[q].pc \in {"opened", "written", "synced"}
               PROVE  /\ proc[q].via \in DOMAIN d2 <=> proc[q].via \in DOMAIN dir
                      /\ proc[q].via \in DOMAIN dir => d2[proc[q].via] = dir[proc[q].via]
                      /\ proc[q].via \in dd2 => proc[q].via \in dirty
    BY DEF Untouched
  <1>1. proc[q].pc \in WritingPcs
    BY DEF WritingPcs
  <1>2. proc[q].via # proc[p].via
    <2>1. MayWrite(q, proc[q].to, proc[q].via, proc[q].text)
      BY <1>1, Writer
    <2>2. MayWrite(p, proc[p].to, proc[p].via, proc[p].text)
      BY Writer
    <2> QED
      BY <2>1, <2>2, OwnNames
  <1> QED
    BY <1>2

(* ... and nobody who writes notices what happens to a finished file.      *)
LEMMA WritersUntouched ==
  ASSUME CortexInv, NEW d2, NEW dd2,
         \A n : Unfinished(n) => /\ n \in DOMAIN d2 <=> n \in DOMAIN dir
                                 /\ n \in DOMAIN dir => d2[n] = dir[n]
                                 /\ n \in dd2 => n \in dirty
  PROVE  \A q \in Procs : Untouched(proc[q], dir, dirty, d2, dd2)
  <1> SUFFICES ASSUME NEW q \in Procs, proc[q].pc \in {"opened", "written", "synced"}
               PROVE  /\ proc[q].via \in DOMAIN d2 <=> proc[q].via \in DOMAIN dir
                      /\ proc[q].via \in DOMAIN dir => d2[proc[q].via] = dir[proc[q].via]
                      /\ proc[q].via \in dd2 => proc[q].via \in dirty
    BY DEF Untouched
  <1>1. proc[q].pc \in WritingPcs
    BY DEF WritingPcs
  <1>2. Unfinished(proc[q].via)
    BY <1>1, Writer, JobNames
  <1> QED
    BY <1>2

LEMMA OpenInv ==
  ASSUME CortexInv, NEW p \in Procs, Open(p)
  PROVE  CortexInv'
  <1> DEFINE via == proc[p].via
             r == [proc[p] EXCEPT !.pc = "opened", !.file = via]
  <1>1. /\ proc[p].pc = "asked" /\ proc[p].pc \in WritingPcs
        /\ dir' = [n \in DOMAIN dir \cup {via} |-> IF n = via THEN Torn ELSE dir[n]]
        /\ dirty' = dirty \cup {via}
        /\ Set(p, r)
    BY DEF Open, WritingPcs
  <1>2. proc[p] \in Job /\ MayWrite(p, proc[p].to, via, proc[p].text)
    BY <1>1, Writer
  <1>3. via # None /\ WellNamed(via) /\ Unfinished(via) /\ via \in AnyName
    BY <1>2, JobNames
  <1>4. r \in Job /\ r.pc = "opened" /\ r.file = via /\ r.via = via /\ r.to = proc[p].to /\ r.text = proc[p].text
    BY <1>2, <1>3 DEF Job, WritingPcs
  <1> HIDE DEF r
  <1>5. Kept(dir', dirty')
    <2>1. Kept(dir, dirty)
      BY DEF CortexInv
    <2> QED
      BY <1>1, <1>3, <2>1 DEF Kept
  <1>6. Doing(p, r, dir', dirty')
    <2>1. OwnFile(r, dir', dirty')
      BY <1>1, <1>4 DEF OwnFile
    <2> QED
      BY <1>2, <1>4, <2>1 DEF Doing
  <1>7. \A q \in Procs \ {p} : Untouched(proc[q], dir, dirty, dir', dirty')
    <2>1. \A n : n # via => /\ n \in DOMAIN dir' <=> n \in DOMAIN dir
                            /\ n \in DOMAIN dir => dir'[n] = dir[n]
                            /\ n \in dirty' => n \in dirty
      BY <1>1
    <2> QED
      BY <1>1, <2>1, OthersUntouched
  <1> QED
    BY <1>1, <1>5, <1>6, <1>7, OneGoesOn

LEMMA WriteInv ==
  ASSUME CortexInv, NEW p \in Procs, Write(p)
  PROVE  CortexInv'
  <1> DEFINE via == proc[p].via
             file == proc[p].file
             text == proc[p].text
             r == [proc[p] EXCEPT !.pc = "written"]
  <1>1. /\ proc[p].pc = "opened" /\ proc[p].pc \in WritingPcs
        /\ dir' = [n \in DOMAIN dir |-> IF n = file THEN text ELSE dir[n]]
        /\ dirty' = dirty \cup ({file} \ {None})
        /\ Set(p, r)
    BY DEF Write, Goto, WritingPcs
  <1>2. /\ proc[p] \in Job /\ MayWrite(p, proc[p].to, via, text)
        /\ OwnFile(proc[p], dir, dirty)
    BY <1>1, Writer
  <1>3. /\ via # None /\ WellNamed(via) /\ Unfinished(via)
        /\ text \in TextsOf(via)
    BY <1>2, JobNames
  <1>4. r \in Job /\ r.pc = "written" /\ r.file = file /\ r.via = via /\ r.to = proc[p].to /\ r.text = text
    BY <1>2 DEF Job, WritingPcs
  <1>5. Kept(dir, dirty)
    BY DEF CortexInv
  <1>6. file = IF via \in DOMAIN dir THEN via ELSE None
    BY <1>2 DEF OwnFile
  <1> HIDE DEF r
  <1>7. /\ DOMAIN dir' = DOMAIN dir
        /\ via \in DOMAIN dir => dir'[via] = text
        /\ \A n : n # via => /\ n \in DOMAIN dir => dir'[n] = dir[n]
                             /\ n \in dirty' => n \in dirty
        /\ dirty' \subseteq DOMAIN dir
    BY <1>1, <1>5, <1>6 DEF Kept
  <1> HIDE DEF via, file, text
  <1>8. Kept(dir', dirty')
    BY <1>3, <1>5, <1>7 DEF Kept
  <1>9. Doing(p, r, dir', dirty')
    <2>1. OwnFile(r, dir', dirty')
      BY <1>4, <1>6, <1>7 DEF OwnFile
    <2> QED
      BY <1>2, <1>4, <2>1 DEF Doing
  <1>10. \A q \in Procs \ {p} : Untouched(proc[q], dir, dirty, dir', dirty')
    BY <1>1, <1>7, OthersUntouched DEF via
  <1> QED
    BY <1>1, <1>8, <1>9, <1>10, OneGoesOn

LEMMA SyncInv ==
  ASSUME CortexInv, NEW p \in Procs, Sync(p)
  PROVE  CortexInv'
  <1> DEFINE r == [proc[p] EXCEPT !.pc = "synced"]
  <1>1. /\ proc[p].pc = "written" /\ proc[p].pc \in WritingPcs
        /\ dir' = dir /\ dirty' = dirty \ {proc[p].file}
        /\ Set(p, r)
    BY DEF Sync, Goto, WritingPcs
  <1>2. /\ proc[p] \in Job /\ MayWrite(p, proc[p].to, proc[p].via, proc[p].text)
        /\ OwnFile(proc[p], dir, dirty)
    BY <1>1, Writer
  <1>3. /\ r \in Job /\ r.pc = "synced" /\ r.file = proc[p].file
        /\ r.via = proc[p].via /\ r.to = proc[p].to /\ r.text = proc[p].text
    BY <1>2 DEF Job, WritingPcs
  <1> HIDE DEF r
  <1>4. Kept(dir', dirty')
    BY <1>1 DEF CortexInv, Kept
  <1>5. Doing(p, r, dir', dirty')
    <2>1. OwnFile(r, dir', dirty')
      BY <1>1, <1>2, <1>3 DEF OwnFile
    <2> QED
      BY <1>2, <1>3, <2>1 DEF Doing
  <1>6. \A q \in Procs \ {p} : Untouched(proc[q], dir, dirty, dir', dirty')
    BY <1>1 DEF Untouched
  <1> QED
    BY <1>1, <1>4, <1>5, <1>6, OneGoesOn

-----------------------------------------------------------------------------
(* rename and remove_file, which files that are being written outlive.     *)
LEMMA SameFile ==
  ASSUME NEW r \in Job, NEW file, file = r.file
  PROVE  [r EXCEPT !.file = file] = r
  BY DEF Job

LEMMA RenamedInv ==
  ASSUME CortexInv, NEW p \in Procs, NEW r, r.pc \in {"idle", "held"},
         Doing(p, r, dir, dirty), NEW from, NEW to,
         from \in DOMAIN dir, from \notin dirty, dir[from] \in TextsOf(to),
         to # None, WellNamed(to), ~Unfinished(to),
         \A q \in Procs \ {p} : proc[q].pc \in WritingPcs => proc[q].via # from,
         Renamed(from, to, [proc EXCEPT ![p] = r])
  PROVE  CortexInv'
  <1> DEFINE procs == [proc EXCEPT ![p] = r]
  <1>1. /\ DOMAIN proc = Procs /\ Kept(dir, dirty)
        /\ \A q \in Procs : Doing(q, proc[q], dir, dirty)
    BY DEF CortexInv
  <1>2. /\ DOMAIN procs = Procs /\ procs[p] = r
        /\ \A q \in Procs \ {p} : procs[q] = proc[q]
    BY <1>1
  <1>3. /\ dir' = [n \in (DOMAIN dir \ {from}) \cup {to} |-> IF n = to THEN dir[from] ELSE dir[n]]
        /\ dirty' = (dirty \ {from, to}) \cup {n \in {to} : from \in dirty}
        /\ proc' = [q \in Procs |->
             [procs[q] EXCEPT !.file = IF @ = from THEN to ELSE IF @ = to THEN None ELSE @]]
    BY DEF Renamed
  <1> HIDE DEF procs
  <1>4. from # None
    BY <1>1 DEF Kept
  <1>5. ASSUME NEW q \in Procs
        PROVE  procs[q] \in Job /\ procs[q].file # from /\ procs[q].file # to
    <2>1. CASE q = p
      <3>1. r \in Job /\ r.file = None
        BY DEF Doing
      <3> QED
        BY <1>2, <1>4, <2>1, <3>1
    <2>2. CASE q # p /\ proc[q].pc \in {"opened", "written", "synced"}
      <3>1. proc[q].pc \in WritingPcs
        BY <2>2 DEF WritingPcs
      <3>2. proc[q].file \in {None, proc[q].via} /\ proc[q] \in Job
        BY <1>1, <2>2 DEF Doing, OwnFile
      <3>3. Unfinished(proc[q].via)
        BY <3>1, Writer, JobNames
      <3>4. proc[q].via # from
        BY <2>2, <3>1
      <3> QED
        BY <1>2, <1>4, <2>2, <3>2, <3>3, <3>4
    <2>3. CASE q # p /\ proc[q].pc \notin {"opened", "written", "synced"}
      <3>1. proc[q].file = None /\ proc[q] \in Job
        BY <1>1, <2>3 DEF Doing, Job, WritingPcs
      <3> QED
        BY <1>2, <1>4, <2>3, <3>1
    <2> QED
      BY <2>1, <2>2, <2>3
  <1>6. ASSUME NEW q \in Procs PROVE proc'[q] = procs[q]
    <2>1. proc'[q] = [procs[q] EXCEPT !.file =
             IF procs[q].file = from THEN to ELSE IF procs[q].file = to THEN None ELSE procs[q].file]
      BY <1>3
    <2>2. proc'[q] = [procs[q] EXCEPT !.file = procs[q].file]
      BY <1>5, <2>1
    <2> QED
      BY <1>5, <2>2, SameFile
  <1>7. Kept(dir', dirty')
    BY <1>1, <1>3 DEF Kept
  <1>8. ASSUME NEW q \in Procs PROVE Doing(q, procs[q], dir', dirty')
    <2>1. CASE q = p
      BY <1>2, <2>1, Zenon DEF Doing, WritingPcs
    <2>2. CASE q # p
      <3>1. Untouched(proc[q], dir, dirty, dir', dirty')
        <4> SUFFICES ASSUME proc[q].pc \in {"opened", "written", "synced"}
                     PROVE  /\ proc[q].via \in DOMAIN dir' <=> proc[q].via \in DOMAIN dir
                            /\ proc[q].via \in DOMAIN dir => dir'[proc[q].via] = dir[proc[q].via]
                            /\ proc[q].via \in dirty' => proc[q].via \in dirty
          BY DEF Untouched
        <4>1. proc[q].pc \in WritingPcs
          BY DEF WritingPcs
        <4>2. Unfinished(proc[q].via)
          BY <4>1, Writer, JobNames
        <4>3. proc[q].via # from /\ proc[q].via # to
          BY <2>2, <4>1, <4>2
        <4> QED
          BY <1>3, <4>3
      <3>2. Doing(q, proc[q], dir', dirty')
        BY <1>1, <3>1, StillDoing
      <3> QED
        BY <1>2, <2>2, <3>2
    <2> QED
      BY <2>1, <2>2
  <1>9. DOMAIN proc' = Procs /\ proc' = [q \in Procs |-> proc'[q]]
    BY <1>3
  <1>10. \A q \in Procs : Doing(q, proc'[q], dir', dirty')
    BY <1>6, <1>8
  <1> QED
    BY <1>7, <1>9, <1>10, Zenon DEF CortexInv

LEMMA RemovedInv ==
  ASSUME CortexInv, NEW procs, NEW n, Removed(n, procs),
         \A q \in Procs : procs[q] \in {proc[q], Idle}
  PROVE  CortexInv'
  <1>1. /\ Kept(dir, dirty)
        /\ \A q \in Procs : Doing(q, procs[q], dir, dirty)
    BY IdleJob DEF CortexInv
  <1>2. /\ dir' = [m \in DOMAIN dir \ {n} |-> dir[m]]
        /\ dirty' = dirty \ {n}
        /\ proc' = [q \in Procs |-> [procs[q] EXCEPT !.file = IF @ = n THEN None ELSE @]]
    BY DEF Removed, Restrict
  <1>3. Kept(dir', dirty')
    BY <1>1, <1>2 DEF Kept
  <1>4. ASSUME NEW q \in Procs PROVE Doing(q, proc'[q], dir', dirty')
    <2> DEFINE r == procs[q]
               file == IF r.file = n THEN None ELSE r.file
    <2>1. r \in Job /\ Doing(q, r, dir, dirty)
      BY <1>1 DEF Doing
    <2>2. proc'[q] = [r EXCEPT !.file = file]
      BY <1>2
    <2> HIDE DEF r
    <2>3. CASE r.pc \in {"opened", "written", "synced"}
      <3>1. OwnFile(r, dir, dirty) /\ MayWrite(q, r.to, r.via, r.text)
        BY <2>1, <2>3 DEF Doing, WritingPcs
      <3>2. r.via # None
        BY <3>1, JobNames
      <3>3. file \in AnyName
        BY <2>1, IdleJob DEF Job, Idle
      <3>4. file = IF r.via \in DOMAIN dir' THEN r.via ELSE None
        BY <1>2, <3>1, <3>2 DEF OwnFile
      <3> HIDE DEF file
      <3>5. /\ proc'[q] \in Job /\ proc'[q].pc = r.pc /\ proc'[q].file = file
            /\ proc'[q].to = r.to /\ proc'[q].via = r.via /\ proc'[q].text = r.text
        BY <2>1, <2>2, <3>3 DEF Job
      <3>6. OwnFile(proc'[q], dir', dirty')
        BY <1>2, <3>1, <3>4, <3>5 DEF OwnFile
      <3> QED
        BY <2>3, <3>1, <3>5, <3>6 DEF Doing
    <2>4. CASE r.pc \notin {"opened", "written", "synced"}
      <3>1. r.file = None
        BY <2>1, <2>4 DEF Doing, Job, WritingPcs
      <3>2. proc'[q] = r
        BY <2>1, <2>2, <3>1, SameFile
      <3> QED
        BY <2>1, <2>4, <3>2, Zenon DEF Doing
    <2> QED
      BY <2>3, <2>4
  <1>5. DOMAIN proc' = Procs /\ proc' = [q \in Procs |-> proc'[q]]
    BY <1>2
  <1> QED
    BY <1>3, <1>4, <1>5, Zenon DEF CortexInv

LEMMA RenameInv ==
  ASSUME CortexInv, NEW p \in Procs, Rename(p)
  PROVE  CortexInv'
  <1> DEFINE via == proc[p].via
             to == proc[p].to
  <1>1. /\ proc[p].pc = "synced" /\ proc[p].pc \in WritingPcs /\ via \in DOMAIN dir
        /\ Renamed(via, to, [proc EXCEPT ![p] = Idle])
    BY DEF Rename, WritingPcs
  <1>2. MayWrite(p, to, via, proc[p].text) /\ OwnFile(proc[p], dir, dirty)
    BY <1>1, Writer
  <1>3. dir[via] \in TextsOf(to) /\ via \notin dirty
    BY <1>1, <1>2, JobNames DEF OwnFile
  <1>4. to # None /\ WellNamed(to) /\ ~Unfinished(to)
    BY <1>2, JobNames
  <1>5. ASSUME NEW q \in Procs \ {p}, proc[q].pc \in WritingPcs
        PROVE  proc[q].via # via
    <2>1. MayWrite(q, proc[q].to, proc[q].via, proc[q].text)
      BY <1>5, Writer
    <2> QED
      BY <1>2, <2>1, OwnNames
  <1>6. Idle.pc \in {"idle", "held"} /\ Doing(p, Idle, dir, dirty)
    BY IdleJob DEF Idle
  <1> HIDE DEF via, to
  <1> QED
    BY <1>1, <1>3, <1>4, <1>5, <1>6, RenamedInv

LEMMA ClaimInv ==
  ASSUME CortexInv, NEW p \in Procs, NEW s \in Sessions, Claim(p, s)
  PROVE  CortexInv'
  <1>1. PICK operation \in Operations :
          Renamed(Marker(s), Unique(Marker(s), operation, p),
            [proc EXCEPT ![p] = [Idle EXCEPT !.pc = "held", !.to = Marker(s),
                                             !.via = Unique(Marker(s), operation, p)]])
    BY DEF Claim
  <1> DEFINE m == Marker(s)
             c == Unique(Marker(s), operation, p)
             r == [Idle EXCEPT !.pc = "held", !.to = m, !.via = c]
  <1>2. m \in DOMAIN dir /\ Renamed(m, c, [proc EXCEPT ![p] = r])
    BY <1>1 DEF Claim
  <1>3. MayHold(p, m, c)
    BY DEF MayHold
  <1>4. /\ m \in AnyName /\ ~Unfinished(m) /\ TextsOf(m) = Marks
        /\ c \in AnyName /\ c # None /\ WellNamed(c) /\ ~Unfinished(c) /\ TextsOf(c) = Marks
    BY <1>3, ClaimNames
  <1>5. Idle \in Job /\ Idle.file = None
    BY IdleJob DEF Idle
  <1> HIDE DEF m, c
  <1>6. r \in Job /\ r.pc = "held" /\ r.to = m /\ r.via = c /\ r.file = None
    BY <1>4, <1>5 DEF Job
  <1> HIDE DEF r
  <1>7. Doing(p, r, dir, dirty)
    BY <1>3, <1>6 DEF Doing, WritingPcs
  <1>8. dir[m] \in TextsOf(c) /\ m \notin dirty
    BY <1>2, <1>4 DEF CortexInv, Kept
  <1>9. ASSUME NEW q \in Procs \ {p}, proc[q].pc \in WritingPcs
        PROVE  proc[q].via # m
    <2>1. Unfinished(proc[q].via)
      BY <1>9, Writer, JobNames
    <2> QED
      BY <1>4, <2>1
  <1> QED
    BY <1>2, <1>4, <1>6, <1>7, <1>8, <1>9, RenamedInv

(* hard_link puts a whole text under a published name, or nothing.         *)
LEMMA HardLinkInv ==
  ASSUME CortexInv, NEW p \in Procs, HardLink(p)
  PROVE  CortexInv'
  <1> DEFINE via == proc[p].via
             to == proc[p].to
             r == [Idle EXCEPT !.pc = "linked", !.via = via]
  <1>1. /\ proc[p].pc \in {"held", "synced"} /\ via \in DOMAIN dir
        /\ dir' = [n \in DOMAIN dir \cup {to} |-> IF n \in DOMAIN dir THEN dir[n] ELSE dir[via]]
        /\ Set(p, r)
        /\ dirty' = dirty
    BY DEF HardLink
  <1>2. /\ to # None /\ WellNamed(to) /\ ~Unfinished(to)
        /\ dir[via] \in TextsOf(to) /\ via \in AnyName
    <2>1. CASE proc[p].pc = "held"
      <3>1. MayHold(p, to, via)
        BY <2>1 DEF CortexInv, Doing
      <3>2. /\ to # None /\ WellNamed(to) /\ ~Unfinished(to)
            /\ ~Unfinished(via) /\ via \in AnyName /\ TextsOf(to) = TextsOf(via)
        BY <3>1, ClaimNames
      <3>3. dir[via] \in TextsOf(via)
        BY <1>1, <3>2 DEF CortexInv, Kept
      <3> QED
        BY <3>2, <3>3
    <2>2. CASE proc[p].pc = "synced"
      <3>1. MayWrite(p, to, via, proc[p].text) /\ OwnFile(proc[p], dir, dirty)
        BY <2>2, Writer DEF WritingPcs
      <3>2. /\ to # None /\ WellNamed(to) /\ ~Unfinished(to)
            /\ proc[p].text \in TextsOf(to) /\ via \in AnyName
        BY <3>1, JobNames
      <3>3. dir[via] = proc[p].text
        BY <1>1, <2>2, <3>1 DEF OwnFile
      <3> QED
        BY <3>2, <3>3
    <2> QED
      BY <1>1, <2>1, <2>2
  <1>3. Idle \in Job /\ Idle.file = None
    BY IdleJob DEF Idle
  <1> HIDE DEF via, to
  <1>4. r \in Job /\ r.pc = "linked" /\ r.file = None
    BY <1>2, <1>3 DEF Job
  <1> HIDE DEF r
  <1>5. Kept(dir', dirty')
    <2>1. Kept(dir, dirty)
      BY DEF CortexInv
    <2> QED
      BY <1>1, <1>2, <2>1 DEF Kept
  <1>6. Doing(p, r, dir', dirty')
    BY <1>4 DEF Doing, WritingPcs
  <1>7. \A q \in Procs : Untouched(proc[q], dir, dirty, dir', dirty')
    <2>1. \A n : Unfinished(n) => /\ n \in DOMAIN dir' <=> n \in DOMAIN dir
                                  /\ n \in DOMAIN dir => dir'[n] = dir[n]
                                  /\ n \in dirty' => n \in dirty
      BY <1>1, <1>2
    <2> QED
      BY <2>1, WritersUntouched
  <1> QED
    BY <1>1, <1>5, <1>6, <1>7, OneGoesOn

(* A call that fails, a death: the process is idle, its files stay.        *)
LEMMA StoppedInv ==
  ASSUME CortexInv, NEW p \in Procs, Set(p, Idle), UNCHANGED <<dir, dirty>>
  PROVE  CortexInv'
  <1>1. Kept(dir', dirty') /\ Doing(p, Idle, dir', dirty')
    BY IdleJob DEF CortexInv
  <1>2. \A q \in Procs : Untouched(proc[q], dir, dirty, dir', dirty')
    BY DEF Untouched
  <1> QED
    BY <1>1, <1>2, OneGoesOn

LEMMA PowerLossInv ==
  ASSUME CortexInv, PowerLoss
  PROVE  CortexInv'
  <1>1. Kept(dir, dirty)
    BY DEF CortexInv
  <1>2. Kept(dir', dirty')
    BY <1>1 DEF Kept, PowerLoss
  <1>3. /\ DOMAIN proc' = Procs /\ proc' = [p \in Procs |-> proc'[p]]
        /\ \A p \in Procs : proc'[p] = Idle
    BY DEF PowerLoss
  <1>4. \A p \in Procs : Doing(p, proc'[p], dir', dirty')
    BY <1>3, IdleJob
  <1> QED
    BY <1>2, <1>3, <1>4, Zenon DEF CortexInv

LEMMA StepInv ==
  ASSUME CortexInv, Step
  PROVE  CortexInv'
  <1>1. ASSUME NEW p \in Procs, DropSource(p) \/ CallFails(p)
        PROVE  CortexInv'
    <2>1. CASE Removed(proc[p].via, [proc EXCEPT ![p] = Idle])
      <3>1. \A q \in Procs : [proc EXCEPT ![p] = Idle][q] \in {proc[q], Idle}
        BY DEF CortexInv
      <3> QED
        BY <2>1, <3>1, RemovedInv
    <2>2. CASE Set(p, Idle) /\ UNCHANGED <<dir, dirty>>
      BY <2>2, StoppedInv
    <2> QED
      BY <1>1, <2>1, <2>2 DEF DropSource, CallFails
  <1>2. ASSUME NEW p \in Procs, Die(p)
        PROVE  CortexInv'
    BY <1>2, StoppedInv DEF Die
  <1>3. ASSUME NEW s \in Sessions, Remove(s)
        PROVE  CortexInv'
    <2>1. PICK n : Removed(n, proc)
      BY <1>3 DEF Remove
    <2> QED
      BY <2>1, RemovedInv
  <1>4. Workers \subseteq Procs /\ Hooks \subseteq Procs
    BY DEF Procs
  <1> QED
    BY <1>1, <1>2, <1>3, <1>4, OpenInv, WriteInv, SyncInv, RenameInv, HardLinkInv,
       SaveInv, PublishInv, ClaimInv DEF Step

LEMMA InitInv == Init => CortexInv
  <1> SUFFICES ASSUME Init PROVE CortexInv
    OBVIOUS
  <1>1. Kept(dir, dirty)
    BY CortexAssumption DEF Init, Kept
  <1>2. DOMAIN proc = Procs /\ proc = [p \in Procs |-> proc[p]] /\ \A p \in Procs : proc[p] = Idle
    BY DEF Init
  <1>3. \A p \in Procs : Doing(p, proc[p], dir, dirty)
    BY <1>2, IdleJob
  <1> QED
    BY <1>1, <1>2, <1>3, Zenon DEF CortexInv

-----------------------------------------------------------------------------
(* What the invariant says to those who read the store.                    *)
LEMMA WholeByInv == CortexInv => PublishedIsWhole
  <1> SUFFICES ASSUME CortexInv, NEW s \in Sessions, NEW n \in Published(s) \cap DOMAIN dir
               PROVE  dir[n] \in TextsOf(n)
    BY DEF PublishedIsWhole
  <1>1. ~Unfinished(n)
    BY PublishedNames
  <1> QED
    BY <1>1 DEF CortexInv, Kept

LEMMA TypesByInv == CortexInv => CortexTypeOK
  <1> SUFFICES ASSUME CortexInv PROVE CortexTypeOK
    OBVIOUS
  <1>1. /\ \A n \in DOMAIN dir : dir[n] \in TextsOf(n) \cup {Torn}
        /\ dirty \subseteq DOMAIN dir
    BY DEF CortexInv, Kept
  <1>2. ASSUME NEW p \in Procs
        PROVE  /\ proc[p].pc \in {"idle", "asked", "opened", "written", "synced", "held", "linked"}
               /\ proc[p].file \in {None, proc[p].via} \cap (DOMAIN dir \cup {None})
    <2>1. Doing(p, proc[p], dir, dirty)
      BY DEF CortexInv
    <2>2. proc[p].pc \in {"idle", "asked", "opened", "written", "synced", "held", "linked"}
      BY <2>1 DEF Doing, Job, WritingPcs
    <2>3. proc[p].file = None \/ OwnFile(proc[p], dir, dirty)
      BY <2>1, <2>2 DEF Doing
    <2> QED
      BY <2>2, <2>3 DEF OwnFile
  <1> QED
    BY <1>1, <1>2 DEF CortexTypeOK

-----------------------------------------------------------------------------
(* The refinement: what the names of the store hold, and what the writers  *)
(* want there.                                                             *)
OnShelf(d) == [n \in Names |-> IF n \in DOMAIN d THEN d[n] ELSE None]
Wanted(pr) == [p \in Procs |-> IF pr[p].pc \in WritingPcs THEN <<pr[p].to, pr[p].text>> ELSE None]

SameShelf == OnShelf(dir') = OnShelf(dir)
SameWanted == Wanted(proc') = Wanted(proc)

LEMMA AsStutter ==
  ASSUME SameShelf, SameWanted
  PROVE  UNCHANGED Promise!vars
  BY DEF SameShelf, SameWanted, OnShelf, Wanted, Promise!vars, Writing, WritingPcs

LEMMA AsAsk ==
  ASSUME NEW p \in Procs, NEW n \in Names, NEW t \in Rows \cup Marks \cup Times,
         Wanted(proc)[p] = None, Wanted(proc') = [Wanted(proc) EXCEPT ![p] = <<n, t>>], SameShelf
  PROVE  Promise!Next
  <1>1. Promise!Ask(p, n, t)
    BY DEF SameShelf, OnShelf, Wanted, Promise!Ask, Writing, WritingPcs
  <1> QED
    BY <1>1, Zenon DEF Promise!Next

LEMMA AsPut ==
  ASSUME NEW p \in Procs, Wanted(proc)[p] # None,
         OnShelf(dir') = [OnShelf(dir) EXCEPT ![Wanted(proc)[p][1]] = Wanted(proc)[p][2]],
         Wanted(proc') = [Wanted(proc) EXCEPT ![p] = None]
  PROVE  Promise!Next
  <1>1. Promise!Put(p)
    BY DEF OnShelf, Wanted, Promise!Put, Writing, WritingPcs
  <1> QED
    BY <1>1, Zenon DEF Promise!Next

LEMMA AsFail ==
  ASSUME SameShelf, \A p \in Procs : Wanted(proc')[p] \in {Wanted(proc)[p], None}
  PROVE  Promise!Next
  <1>1. Promise!Fail
    BY DEF SameShelf, OnShelf, Wanted, Promise!Fail, Writing, WritingPcs
  <1> QED
    BY <1>1, Zenon DEF Promise!Next

LEMMA AsRemove ==
  ASSUME NEW n \in Names, OnShelf(dir') = [OnShelf(dir) EXCEPT ![n] = None], SameWanted
  PROVE  Promise!Next
  <1>1. Promise!Remove(n)
    BY DEF SameWanted, OnShelf, Wanted, Promise!Remove, Writing, WritingPcs
  <1> QED
    BY <1>1, Zenon DEF Promise!Next

LEMMA AsSeize ==
  ASSUME NEW s \in Sessions, NEW n \in Names, NEW c \in Names, n = Marker(s), c \in Claims(s),
         OnShelf(dir)[n] # None,
         OnShelf(dir') = [OnShelf(dir) EXCEPT ![c] = OnShelf(dir)[n], ![n] = None], SameWanted
  PROVE  Promise!Next
  <1>1. Promise!Seize(n, c)
    BY DEF SameWanted, OnShelf, Wanted, Promise!Seize, Writing, WritingPcs
  <1> QED
    BY <1>1, Zenon DEF Promise!Next

LEMMA AsGiveBack ==
  ASSUME NEW s \in Sessions, NEW n \in Names, NEW c \in Names, n = Marker(s), c \in Claims(s),
         OnShelf(dir)[n] = None,
         OnShelf(dir') = [OnShelf(dir) EXCEPT ![n] = OnShelf(dir)[c]], SameWanted
  PROVE  Promise!Next
  <1>1. Promise!GiveBack(c, n)
    BY DEF SameWanted, OnShelf, Wanted, Promise!GiveBack, Writing, WritingPcs
  <1> QED
    BY <1>1, Zenon DEF Promise!Next

LEMMA NamesFacts ==
  ASSUME NEW n \in Names
  PROVE  n # None /\ WellNamed(n) /\ ~Unfinished(n)
  BY PublishedNames DEF Names

LEMMA ShelfUnchanged ==
  ASSUME \A n \in Names : /\ n \in DOMAIN dir' <=> n \in DOMAIN dir
                          /\ n \in DOMAIN dir => dir'[n] = dir[n]
  PROVE  SameShelf
  BY DEF SameShelf, OnShelf

(* What is wanted when one process goes on, ...                            *)
LEMMA WantedOne ==
  ASSUME CortexInv, NEW p \in Procs, NEW r, Set(p, r)
  PROVE  Wanted(proc') = [Wanted(proc) EXCEPT ![p] =
                            IF r.pc \in WritingPcs THEN <<r.to, r.text>> ELSE None]
  BY DEF CortexInv, Set, Wanted

(* ... and when files are renamed or removed under the others.             *)
LEMMA WantedAll ==
  ASSUME NEW procs, \A q \in Procs : procs[q] \in Job, NEW F,
         proc' = [q \in Procs |-> [procs[q] EXCEPT !.file = F[q]]]
  PROVE  Wanted(proc') = Wanted(procs)
  <1>1. ASSUME NEW q \in Procs
        PROVE  /\ proc'[q].pc = procs[q].pc /\ proc'[q].to = procs[q].to
               /\ proc'[q].text = procs[q].text
    BY DEF Job
  <1> QED
    BY <1>1 DEF Wanted

LEMMA WantedRenamed ==
  ASSUME NEW procs, \A q \in Procs : procs[q] \in Job, NEW from, NEW to,
         Renamed(from, to, procs)
  PROVE  Wanted(proc') = Wanted(procs)
  <1> DEFINE F == [q \in Procs |-> IF procs[q].file = from THEN to
                                   ELSE IF procs[q].file = to THEN None ELSE procs[q].file]
  <1>1. proc' = [q \in Procs |-> [procs[q] EXCEPT !.file = F[q]]]
    BY DEF Renamed
  <1> HIDE DEF F
  <1> QED
    BY <1>1, WantedAll

LEMMA WantedRemoved ==
  ASSUME NEW procs, \A q \in Procs : procs[q] \in Job, NEW n,
         Removed(n, procs)
  PROVE  Wanted(proc') = Wanted(procs)
  <1> DEFINE F == [q \in Procs |-> IF procs[q].file = n THEN None ELSE procs[q].file]
  <1>1. proc' = [q \in Procs |-> [procs[q] EXCEPT !.file = F[q]]]
    BY DEF Removed
  <1> HIDE DEF F
  <1> QED
    BY <1>1, WantedAll

LEMMA WantedWithout ==
  ASSUME CortexInv, NEW p \in Procs, NEW r
  PROVE  /\ Wanted([proc EXCEPT ![p] = r]) =
              [Wanted(proc) EXCEPT ![p] = IF r.pc \in WritingPcs THEN <<r.to, r.text>> ELSE None]
         /\ r \in Job => \A q \in Procs : [proc EXCEPT ![p] = r][q] \in Job
  BY DEF CortexInv, Doing, Wanted

(* To stop wanting is to fail, or nothing for who wants nothing.           *)
LEMMA WantsNothing ==
  ASSUME NEW p \in Procs, proc[p].pc \notin WritingPcs,
         Wanted(proc') = [Wanted(proc) EXCEPT ![p] = None]
  PROVE  SameWanted
  BY DEF SameWanted, Wanted

LEMMA StopsWanting ==
  ASSUME NEW p \in Procs, SameShelf, Wanted(proc') = [Wanted(proc) EXCEPT ![p] = None]
  PROVE  Promise!Next
  <1>1. \A q \in Procs : Wanted(proc')[q] \in {Wanted(proc)[q], None}
    BY DEF Wanted
  <1> QED
    BY <1>1, AsFail

LEMMA IdleWants == Idle.pc \notin WritingPcs /\ Idle \in Job
  BY IdleJob DEF Idle, WritingPcs

-----------------------------------------------------------------------------
LEMMA AskPromised ==
  ASSUME CortexInv, NEW p \in Procs, proc[p] = Idle, NEW to, NEW via, NEW text,
         MayWrite(p, to, via, text),
         Set(p, [Idle EXCEPT !.pc = "asked", !.to = to, !.via = via, !.text = text]),
         UNCHANGED <<dir, dirty>>
  PROVE  Promise!Next
  <1> DEFINE r == [Idle EXCEPT !.pc = "asked", !.to = to, !.via = via, !.text = text]
  <1>1. to \in Names /\ text \in TextsOf(to)
    BY JobNames DEF Names
  <1>2. text \in Rows \cup Marks \cup Times
    BY <1>1 DEF TextsOf
  <1>3. r.pc \in WritingPcs /\ r.to = to /\ r.text = text
    BY IdleJob DEF Job, WritingPcs
  <1>4. Set(p, r)
    OBVIOUS
  <1> HIDE DEF r
  <1>5. Wanted(proc') = [Wanted(proc) EXCEPT ![p] = <<to, text>>]
    BY <1>3, <1>4, WantedOne
  <1>6. Wanted(proc)[p] = None
    BY IdleWants DEF Wanted
  <1>7. SameShelf
    BY ShelfUnchanged
  <1> QED
    BY <1>1, <1>2, <1>5, <1>6, <1>7, AsAsk

LEMMA SavePromised ==
  ASSUME CortexInv, NEW p \in Procs, NEW s \in Sessions, Save(p, s)
  PROVE  Promise!Next
  <1>1. PICK n \in {RowOf(s), Marker(s)} : \E t \in TextsOf(n) :
          Set(p, [Idle EXCEPT !.pc = "asked", !.to = n, !.via = Temp(n, p), !.text = t])
    BY Zenon DEF Save
  <1>2. PICK t \in TextsOf(n) :
          Set(p, [Idle EXCEPT !.pc = "asked", !.to = n, !.via = Temp(n, p), !.text = t])
    BY <1>1
  <1>3. MayWrite(p, n, Temp(n, p), t)
    BY <1>1, <1>2 DEF MayWrite
  <1>4. proc[p] = Idle /\ UNCHANGED <<dir, dirty>>
    BY DEF Save
  <1> QED
    BY <1>2, <1>3, <1>4, AskPromised

LEMMA PublishPromised ==
  ASSUME CortexInv, NEW p \in Procs, NEW s \in Sessions, Publish(p, s)
  PROVE  Promise!Next
  <1> DEFINE to == Deadline(s)
             via == Unique(Deadline(s), "publishing", p)
  <1>1. PICK t \in Times :
          Set(p, [Idle EXCEPT !.pc = "asked", !.to = to, !.text = t, !.via = via])
    BY Zenon DEF Publish
  <1>2. [Idle EXCEPT !.pc = "asked", !.to = to, !.text = t, !.via = via]
          = [Idle EXCEPT !.pc = "asked", !.to = to, !.via = via, !.text = t]
    BY DEF Idle
  <1>3. MayWrite(p, to, via, t)
    BY <1>1 DEF MayWrite
  <1>4. proc[p] = Idle /\ UNCHANGED <<dir, dirty>>
    BY DEF Publish
  <1> HIDE DEF to, via
  <1>5. Set(p, [Idle EXCEPT !.pc = "asked", !.to = to, !.via = via, !.text = t])
    BY <1>1, <1>2
  <1> QED
    BY <1>3, <1>4, <1>5, AskPromised

(* Until its rename or link, nobody sees what a process writes.            *)
LEMMA GoOnPromised ==
  ASSUME CortexInv, NEW p \in Procs, Open(p) \/ Write(p) \/ Sync(p)
  PROVE  UNCHANGED Promise!vars
  <1> DEFINE via == proc[p].via
  <1>1. proc[p].pc \in WritingPcs
    BY DEF Open, Write, Sync, WritingPcs
  <1>2. /\ proc[p] \in Job /\ MayWrite(p, proc[p].to, via, proc[p].text)
        /\ proc[p].pc # "asked" => proc[p].file = IF via \in DOMAIN dir THEN via ELSE None
    BY <1>1, Writer DEF OwnFile
  <1>3. Unfinished(via)
    BY <1>2, JobNames
  <1>4. PICK r : /\ Set(p, r) /\ r.pc \in WritingPcs
                 /\ r.to = proc[p].to /\ r.text = proc[p].text
    <2>1. CASE Open(p)
      <3> DEFINE r == [proc[p] EXCEPT !.pc = "opened", !.file = via]
      <3>1. Set(p, r)
        BY <2>1 DEF Open
      <3>2. r.pc \in WritingPcs /\ r.to = proc[p].to /\ r.text = proc[p].text
        BY <1>2 DEF Job, WritingPcs
      <3> QED
        BY <3>1, <3>2, Zenon
    <2>2. CASE Write(p)
      <3>1. Set(p, [proc[p] EXCEPT !.pc = "written"])
        BY <2>2 DEF Write, Goto
      <3> QED
        BY <1>2, <3>1 DEF Job, WritingPcs
    <2>3. CASE Sync(p)
      <3>1. Set(p, [proc[p] EXCEPT !.pc = "synced"])
        BY <2>3 DEF Sync, Goto
      <3> QED
        BY <1>2, <3>1 DEF Job, WritingPcs
    <2> QED
      BY <2>1, <2>2, <2>3
  <1>5. SameWanted
    <2>1. Wanted(proc') = [Wanted(proc) EXCEPT ![p] = <<proc[p].to, proc[p].text>>]
      BY <1>4, WantedOne
    <2> QED
      BY <1>1, <2>1 DEF SameWanted, Wanted
  <1>6. ASSUME NEW n \in Names
        PROVE  /\ n \in DOMAIN dir' <=> n \in DOMAIN dir
               /\ n \in DOMAIN dir => dir'[n] = dir[n]
    <2>1. n # via /\ n # None
      BY <1>3, NamesFacts
    <2>2. CASE Open(p)
      BY <2>1, <2>2 DEF Open
    <2>3. CASE Write(p)
      BY <1>2, <2>1, <2>3 DEF Write
    <2>4. CASE Sync(p)
      BY <2>4 DEF Sync
    <2> QED
      BY <2>2, <2>3, <2>4
  <1>7. SameShelf
    BY <1>6, ShelfUnchanged
  <1> QED
    BY <1>5, <1>7, AsStutter

LEMMA RenamePromised ==
  ASSUME CortexInv, NEW p \in Procs, Rename(p)
  PROVE  Promise!Next
  <1> DEFINE via == proc[p].via
             to == proc[p].to
             text == proc[p].text
  <1>1. /\ proc[p].pc = "synced" /\ proc[p].pc \in WritingPcs /\ via \in DOMAIN dir
        /\ Renamed(via, to, [proc EXCEPT ![p] = Idle])
    BY DEF Rename, WritingPcs
  <1>2. MayWrite(p, to, via, text) /\ OwnFile(proc[p], dir, dirty)
    BY <1>1, Writer
  <1>3. dir[via] = text
    BY <1>1, <1>2 DEF OwnFile
  <1>4. /\ Unfinished(via) /\ text \in TextsOf(to)
        /\ \E s \in Sessions : to \in Published(s)
    BY <1>2, JobNames
  <1>5. to \in Names /\ <<to, text>> # None
    BY <1>4, CortexAssumption DEF Names
  <1>6. Wanted(proc') = [Wanted(proc) EXCEPT ![p] = None]
    <2> DEFINE procs == [proc EXCEPT ![p] = Idle]
    <2>1. (\A q \in Procs : procs[q] \in Job) /\ Wanted(procs) = [Wanted(proc) EXCEPT ![p] = None]
      BY IdleWants, WantedWithout
    <2> HIDE DEF procs
    <2>2. Wanted(proc') = Wanted(procs)
      BY <1>1, <2>1, WantedRenamed DEF procs
    <2> QED
      BY <2>1, <2>2
  <1>7. Wanted(proc)[p] = <<to, text>>
    BY <1>1 DEF Wanted
  <1> HIDE DEF via, to, text
  <1>8. OnShelf(dir') = [OnShelf(dir) EXCEPT ![to] = text]
    <2>1. dir' = [n \in (DOMAIN dir \ {via}) \cup {to} |-> IF n = to THEN dir[via] ELSE dir[n]]
      BY <1>1 DEF Renamed
    <2>2. \A n \in Names : n # via
      BY <1>4, NamesFacts
    <2> QED
      BY <1>3, <1>5, <2>1, <2>2 DEF OnShelf
  <1>9. Wanted(proc)[p] # None /\ Wanted(proc)[p][1] = to /\ Wanted(proc)[p][2] = text
    BY <1>5, <1>7
  <1> QED
    BY <1>6, <1>8, <1>9, AsPut

LEMMA HardLinkPromised ==
  ASSUME CortexInv, NEW p \in Procs, HardLink(p)
  PROVE  Promise!Next \/ UNCHANGED Promise!vars
  <1> DEFINE via == proc[p].via
             to == proc[p].to
             text == proc[p].text
             r == [Idle EXCEPT !.pc = "linked", !.via = via]
  <1>1. /\ proc[p].pc \in {"held", "synced"} /\ via \in DOMAIN dir
        /\ dir' = [n \in DOMAIN dir \cup {to} |-> IF n \in DOMAIN dir THEN dir[n] ELSE dir[via]]
        /\ Set(p, r)
    BY DEF HardLink
  <1>2. r.pc \notin WritingPcs
    BY IdleWants DEF Job, WritingPcs
  <1> HIDE DEF r
  <1>3. Wanted(proc') = [Wanted(proc) EXCEPT ![p] = None]
    BY <1>1, <1>2, WantedOne
  <1>4. to \in DOMAIN dir => SameShelf
    <2>1. ASSUME to \in DOMAIN dir PROVE dir' = [n \in DOMAIN dir |-> dir[n]]
      <3>1. DOMAIN dir \cup {to} = DOMAIN dir
        BY <2>1
      <3> QED
        BY <1>1, <3>1
    <2>2. ASSUME to \in DOMAIN dir, NEW n \in Names
          PROVE  /\ n \in DOMAIN dir' <=> n \in DOMAIN dir
                 /\ n \in DOMAIN dir => dir'[n] = dir[n]
      BY <2>1, <2>2
    <2> QED
      BY <2>2, ShelfUnchanged
  <1>5. ASSUME to \in Names, to \notin DOMAIN dir
        PROVE  OnShelf(dir') = [OnShelf(dir) EXCEPT ![to] = dir[via]]
    BY <1>1, <1>5 DEF OnShelf
  <1>6. CASE proc[p].pc = "held"
    <2>1. MayHold(p, to, via)
      BY <1>6 DEF CortexInv, Doing
    <2>2. PICK s \in Sessions : to = Marker(s) /\ via \in Claims(s)
      BY <2>1, ClaimNames
    <2>3. to \in Names /\ via \in Names
      BY <2>2 DEF Names, Published
    <2>4. SameWanted
      BY <1>3, <1>6, WantsNothing DEF WritingPcs
    <2>5. CASE to \in DOMAIN dir
      BY <1>4, <2>4, <2>5, AsStutter
    <2>6. CASE to \notin DOMAIN dir
      <3>1. OnShelf(dir)[to] = None /\ OnShelf(dir)[via] = dir[via]
        BY <1>1, <2>3, <2>6 DEF OnShelf
      <3>2. OnShelf(dir') = [OnShelf(dir) EXCEPT ![to] = OnShelf(dir)[via]]
        BY <1>5, <2>3, <2>6, <3>1
      <3> QED
        BY <2>2, <2>3, <2>4, <3>1, <3>2, AsGiveBack
    <2> QED
      BY <2>5, <2>6
  <1>7. CASE proc[p].pc = "synced"
    <2>1. proc[p].pc \in WritingPcs
      BY <1>7 DEF WritingPcs
    <2>2. MayWrite(p, to, via, text) /\ OwnFile(proc[p], dir, dirty)
      BY <1>7, <2>1, Writer
    <2>3. dir[via] = text
      BY <1>1, <1>7, <2>2 DEF OwnFile
    <2>4. text \in TextsOf(to) /\ \E s \in Sessions : to \in Published(s)
      BY <2>2, JobNames
    <2>5. to \in Names /\ <<to, text>> # None
      BY <2>4, CortexAssumption DEF Names
    <2>6. Wanted(proc)[p] = <<to, text>>
      BY <2>1 DEF Wanted
    <2>7. CASE to \in DOMAIN dir
      BY <1>3, <1>4, <2>7, StopsWanting
    <2>8. CASE to \notin DOMAIN dir
      <3>1. OnShelf(dir') = [OnShelf(dir) EXCEPT ![to] = text]
        BY <1>5, <2>3, <2>5, <2>8
      <3> HIDE DEF to, text
      <3>2. Wanted(proc)[p] # None /\ Wanted(proc)[p][1] = to /\ Wanted(proc)[p][2] = text
        BY <2>5, <2>6
      <3> QED
        BY <1>3, <3>1, <3>2, AsPut
    <2> QED
      BY <2>7, <2>8
  <1> QED
    BY <1>1, <1>6, <1>7

LEMMA ClaimPromised ==
  ASSUME CortexInv, NEW p \in Procs, NEW s \in Sessions, Claim(p, s)
  PROVE  Promise!Next
  <1>1. PICK operation \in Operations :
          Renamed(Marker(s), Unique(Marker(s), operation, p),
            [proc EXCEPT ![p] = [Idle EXCEPT !.pc = "held", !.to = Marker(s),
                                             !.via = Unique(Marker(s), operation, p)]])
    BY DEF Claim
  <1> DEFINE m == Marker(s)
             c == Unique(Marker(s), operation, p)
             r == [Idle EXCEPT !.pc = "held", !.to = m, !.via = c]
             procs == [proc EXCEPT ![p] = r]
  <1>2. m \in DOMAIN dir /\ Renamed(m, c, procs) /\ proc[p] = Idle
    BY <1>1 DEF Claim
  <1>3. MayHold(p, m, c) /\ c \in Claims(s)
    BY DEF MayHold, Claims
  <1>4. m \in AnyName /\ c \in AnyName /\ ~Unfinished(m) /\ TextsOf(m) = Marks
    BY <1>3, ClaimNames
  <1>5. m \in Names /\ c \in Names
    BY <1>3 DEF Names, Published
  <1>6. m # c
    BY DEF Marker, Unique
  <1>7. Idle \in Job /\ Idle.pc \notin WritingPcs
    BY IdleWants
  <1>8. r \in Job /\ r.pc \notin WritingPcs
    <2> HIDE DEF m, c
    <2> QED
      BY <1>4, <1>7 DEF Job, WritingPcs
  <1> HIDE DEF r
  <1>9. SameWanted
    <2>1. (\A q \in Procs : procs[q] \in Job) /\ Wanted(procs) = [Wanted(proc) EXCEPT ![p] = None]
      BY <1>8, WantedWithout
    <2> HIDE DEF procs
    <2>2. Wanted(proc') = Wanted(procs)
      BY <1>2, <2>1, WantedRenamed
    <2> QED
      BY <1>2, <1>7, <2>1, <2>2, WantsNothing
  <1> HIDE DEF m, c
  <1>10. OnShelf(dir)[m] = dir[m] /\ dir[m] # None
    <2>1. dir[m] \in Marks
      BY <1>2, <1>4 DEF CortexInv, Kept
    <2>2. dir[m] # None
      BY <2>1, CortexAssumption
    <2> QED
      BY <1>2, <1>5, <2>2 DEF OnShelf
  <1>11. OnShelf(dir') = [OnShelf(dir) EXCEPT ![c] = OnShelf(dir)[m], ![m] = None]
    <2>1. dir' = [n \in (DOMAIN dir \ {m}) \cup {c} |-> IF n = c THEN dir[m] ELSE dir[n]]
      BY <1>2 DEF Renamed
    <2> QED
      BY <1>5, <1>6, <1>10, <2>1 DEF OnShelf
  <1>12. m = Marker(s)
    BY DEF m
  <1> QED
    BY <1>3, <1>5, <1>9, <1>10, <1>11, <1>12, AsSeize

(* A removal, by a process that is done or that fails, or by the sweep.    *)
LEMMA RemovedPromised ==
  ASSUME NEW n, DOMAIN dir' = DOMAIN dir \ {n},
         \A m \in DOMAIN dir \ {n} : dir'[m] = dir[m]
  PROVE  /\ n \notin Names => SameShelf
         /\ n \in Names => OnShelf(dir') = [OnShelf(dir) EXCEPT ![n] = None]
  <1>1. n \notin Names => SameShelf
    BY ShelfUnchanged
  <1>2. n \in Names => OnShelf(dir') = [OnShelf(dir) EXCEPT ![n] = None]
    BY DEF OnShelf
  <1> QED
    BY <1>1, <1>2

LEMMA RemovedDir ==
  ASSUME NEW n, NEW procs, Removed(n, procs)
  PROVE  /\ DOMAIN dir' = DOMAIN dir \ {n}
         /\ \A m \in DOMAIN dir \ {n} : dir'[m] = dir[m]
  BY DEF Removed, Restrict

LEMMA DropPromised ==
  ASSUME CortexInv, NEW p \in Procs, DropSource(p)
  PROVE  Promise!Next \/ UNCHANGED Promise!vars
  <1> DEFINE via == proc[p].via
             procs == [proc EXCEPT ![p] = Idle]
  <1>1. proc[p].pc \notin WritingPcs /\ Removed(via, procs)
    BY DEF DropSource, WritingPcs
  <1>2. (\A q \in Procs : procs[q] \in Job) /\ Wanted(procs) = [Wanted(proc) EXCEPT ![p] = None]
    BY IdleWants, WantedWithout
  <1> HIDE DEF procs
  <1>3. Wanted(proc') = Wanted(procs)
    BY <1>1, <1>2, WantedRemoved
  <1>4. SameWanted
    BY <1>1, <1>2, <1>3, WantsNothing
  <1>5. /\ via \notin Names => SameShelf
        /\ via \in Names => OnShelf(dir') = [OnShelf(dir) EXCEPT ![via] = None]
    BY <1>1, RemovedDir, RemovedPromised
  <1> QED
    BY <1>4, <1>5, AsStutter, AsRemove

LEMMA CallFailsPromised ==
  ASSUME CortexInv, NEW p \in Procs, CallFails(p)
  PROVE  Promise!Next
  <1> DEFINE via == proc[p].via
             procs == [proc EXCEPT ![p] = Idle]
  <1>1. proc[p].pc \in WritingPcs
    BY DEF CallFails, Writing, WritingPcs
  <1>2. via \notin Names
    BY <1>1, Writer, JobNames, NamesFacts
  <1>3. CASE Removed(via, procs)
    <2>1. (\A q \in Procs : procs[q] \in Job) /\ Wanted(procs) = [Wanted(proc) EXCEPT ![p] = None]
      BY IdleWants, WantedWithout
    <2> HIDE DEF procs
    <2>2. Wanted(proc') = Wanted(procs)
      BY <1>3, <2>1, WantedRemoved
    <2>3. SameShelf
      BY <1>2, <1>3, RemovedDir, RemovedPromised
    <2> QED
      BY <2>1, <2>2, <2>3, StopsWanting
  <1>4. CASE Set(p, Idle) /\ UNCHANGED <<dir, dirty>>
    <2>1. Wanted(proc') = [Wanted(proc) EXCEPT ![p] = None]
      BY <1>4, IdleWants, WantedOne
    <2>2. SameShelf
      BY <1>4, ShelfUnchanged
    <2> QED
      BY <2>1, <2>2, StopsWanting
  <1> QED
    BY <1>3, <1>4 DEF CallFails

LEMMA DiePromised ==
  ASSUME CortexInv, NEW p \in Procs, Die(p)
  PROVE  Promise!Next
  <1>1. Wanted(proc') = [Wanted(proc) EXCEPT ![p] = None]
    BY IdleWants, WantedOne DEF Die
  <1>2. SameShelf
    BY ShelfUnchanged DEF Die
  <1> QED
    BY <1>1, <1>2, StopsWanting

LEMMA RemovePromised ==
  ASSUME CortexInv, NEW s \in Sessions, Remove(s)
  PROVE  Promise!Next \/ UNCHANGED Promise!vars
  <1>1. PICK n : Removed(n, proc)
    BY DEF Remove
  <1>2. \A q \in Procs : proc[q] \in Job
    BY DEF CortexInv, Doing
  <1>3. SameWanted
    BY <1>1, <1>2, WantedRemoved DEF SameWanted
  <1>4. /\ n \notin Names => SameShelf
        /\ n \in Names => OnShelf(dir') = [OnShelf(dir) EXCEPT ![n] = None]
    BY <1>1, RemovedDir, RemovedPromised
  <1> QED
    BY <1>3, <1>4, AsStutter, AsRemove

(* A power failure loses no text under a name of the store, since those    *)
(* were synced first, and only what was being written is forgotten.        *)
LEMMA PowerLossPromised ==
  ASSUME CortexInv, PowerLoss
  PROVE  Promise!Next
  <1>1. ASSUME NEW n \in Names
        PROVE  /\ n \in DOMAIN dir' <=> n \in DOMAIN dir
               /\ n \in DOMAIN dir => dir'[n] = dir[n]
    <2>1. n \in DOMAIN dir => n \notin dirty
      BY NamesFacts DEF CortexInv, Kept
    <2> QED
      BY <2>1 DEF PowerLoss
  <1>2. SameShelf
    BY <1>1, ShelfUnchanged
  <1>3. \A p \in Procs : Wanted(proc')[p] \in {Wanted(proc)[p], None}
    BY IdleWants DEF PowerLoss, Wanted
  <1> QED
    BY <1>2, <1>3, AsFail

LEMMA StepPromised ==
  ASSUME CortexInv, Step
  PROVE  Promise!Next \/ UNCHANGED Promise!vars
  <1>1. Workers \subseteq Procs /\ Hooks \subseteq Procs
    BY DEF Procs
  <1> QED
    BY <1>1, SavePromised, PublishPromised, GoOnPromised, RenamePromised, HardLinkPromised,
       DropPromised, CallFailsPromised, ClaimPromised, DiePromised, RemovePromised, Zenon DEF Step

LEMMA InitPromised ==
  ASSUME CortexInv, Init
  PROVE  Promise!Init
  <1>1. OnShelf(dir) \in [Names -> (Rows \cup Marks \cup Times) \cup {None}]
    <2> SUFFICES ASSUME NEW n \in Names, n \in DOMAIN dir
                 PROVE  dir[n] \in Rows \cup Marks \cup Times
      BY DEF OnShelf
    <2>1. dir[n] \in TextsOf(n)
      BY NamesFacts DEF CortexInv, Kept
    <2> QED
      BY <2>1 DEF TextsOf
  <1>2. Wanted(proc) = [p \in Procs |-> None]
    BY IdleWants DEF Init, Wanted
  <1> QED
    BY <1>1, <1>2 DEF OnShelf, Wanted, Promise!Init, Writing, WritingPcs

LEMMA StillPromised ==
  ASSUME UNCHANGED cortex
  PROVE  UNCHANGED Promise!vars
  BY AsStutter DEF cortex, SameShelf, SameWanted
=============================================================================

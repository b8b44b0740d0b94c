------------------------------- MODULE Journal -------------------------------
(***************************************************************************)
(* The journal of one session and the windows captures cut from it         *)
(* (src/journal.rs): the host appends records while workers read, and the  *)
(* row a worker saves carries the boundary at which the next window        *)
(* starts.  Captures may overlap, fail, or find a row that is corrupt, and *)
(* explicit handoffs give the row away or put another session's in place.  *)
(***************************************************************************)
EXTENDS Naturals, Sequences, SequencesExt

CONSTANTS
  Captures,    \* the synthesize workers of the session
  MaxStamp,    \* timestamps are 1..MaxStamp
  MaxEntry,    \* MAX_ENTRY_CHARS, in units
  MaxWindow,   \* MAX_WINDOW_CHARS, in units
  MaxRecords,  \* bound on the length of the journal
  Faults,      \* may a read or a save fail, may the row be damaged
  MaxHandoffs, \* bound on the handoffs that give the row away or replace it
  NoRow,       \* the session has no row yet
  Corrupt      \* the row does not parse

ASSUME JournalAssumption ==
  /\ {MaxStamp, MaxEntry, MaxWindow, MaxRecords, MaxHandoffs} \subseteq Nat
  /\ MaxEntry <= MaxWindow
  /\ Faults \in BOOLEAN

(* A record is its timestamp and the size of what render makes of it, 0 if *)
(* that is nothing.  Timestamp 0: there is none, or the line is too long,  *)
(* not UTF-8 or not JSON; all of these are passed over.                    *)
Stamps == 1..MaxStamp
Records == [stamp : {0} \cup Stamps, size : 0..MaxEntry]

(* A row is its compacted_at and, as history, where its text comes from:   *)
(* the records some extraction it goes back to read whole, by position,    *)
(* those that did not fit the window, and the boundary of the handoff it   *)
(* carries on from, 0 if it is all of this session's own making.           *)
Rows == [memory : SUBSET (1..MaxRecords), cut : SUBSET (1..MaxRecords),
         inherited : {0} \cup Stamps, boundary : Stamps]
Nothing == [memory |-> {}, cut |-> {}, inherited |-> 0, boundary |-> 0]

ASSUME NoRowIsARow == NoRow # Corrupt /\ NoRow \notin Rows /\ Corrupt \notin Rows

VARIABLES
  journal,   \* the records, the last one possibly half written
  partial,   \* is it
  row,
  handoffs,  \* those there were
  pc,        \* the next step of each capture
  prior,     \* the row it carries on from
  pos,       \* records it has read
  half,      \* it has read the first half of the next one
  last,      \* timestamp of the last record in its window
  seen,      \* the records rendered into its window, in order
  shed,      \* how many of them the ring has dropped
  torn       \* history: records some capture met half written

vars == <<journal, partial, row, handoffs, pc, prior, pos, half, last, seen, shed, torn>>
host == <<journal, partial, handoffs>>
reader == <<pos, half, last, seen, shed>>

Init ==
  /\ journal = <<>> /\ partial = FALSE
  /\ row = NoRow /\ handoffs = 0
  /\ pc = [s \in Captures |-> "idle"]
  /\ prior = [s \in Captures |-> Nothing]
  /\ pos = [s \in Captures |-> 0]
  /\ half = [s \in Captures |-> FALSE]
  /\ last = [s \in Captures |-> 0]
  /\ seen = [s \in Captures |-> <<>>]
  /\ shed = [s \in Captures |-> 0]
  /\ torn = {}

Goto(s, to) == pc' = [pc EXCEPT ![s] = to]

-----------------------------------------------------------------------------
(* The host: it appends a record in one write or in two, with whatever     *)
(* timestamp its clock gives.                                              *)
AppendRecord ==
  /\ ~partial /\ Len(journal) < MaxRecords
  /\ \E r \in Records : (r.stamp = 0 => r.size = 0) /\ journal' = Append(journal, r)
  /\ partial' \in BOOLEAN
  /\ UNCHANGED <<handoffs, row, pc, prior, reader, torn>>

FinishRecord ==
  /\ partial
  /\ partial' = FALSE
  /\ UNCHANGED <<handoffs, journal, row, pc, prior, reader, torn>>

DamageRow ==
  /\ Faults
  /\ row \in Rows
  /\ row' = Corrupt
  /\ UNCHANGED <<host, pc, prior, reader, torn>>

(* An explicit handoff: another session's row is saved as this session's.  *)
(* take keeps that session's boundary, clone_to sets the time.  What a row *)
(* that returns from elsewhere knows of this journal is not counted.       *)
ReceiveRow ==
  /\ handoffs < MaxHandoffs /\ handoffs' = handoffs + 1
  /\ \E b \in Stamps :
       row' = [memory |-> {}, cut |-> {}, inherited |-> b, boundary |-> b]
  /\ UNCHANGED <<journal, partial, pc, prior, reader, torn>>

(* Another session takes the row: this one forgets, by name.               *)
ForgetRow ==
  /\ handoffs < MaxHandoffs /\ handoffs' = handoffs + 1
  /\ row # NoRow
  /\ row' = NoRow
  /\ UNCHANGED <<journal, partial, pc, prior, reader, torn>>

-----------------------------------------------------------------------------
(* work loads the prior row; none and a corrupt one are the same to it.    *)
LoadPrior(s) ==
  /\ pc[s] = "idle"
  /\ prior' = [prior EXCEPT ![s] = IF row \in Rows THEN row ELSE Nothing]
  /\ Goto(s, "read")
  /\ UNCHANGED <<host, row, reader, torn>>

(* Mutant: the record at the boundary belongs to the next window too.      *)
AtOrAfter(stamp, boundary) == stamp >= boundary

(* The window starts strictly after the boundary.                          *)
After(stamp, boundary) == stamp > boundary

(* Mutant: the ring holds no more than the window.                         *)
OneWindowful == MaxWindow

RingCap == 2 * MaxWindow

(* The units of entries as the ring counts them, and joined as the agent   *)
(* reads them, with a separator (0) before each but the first.             *)
Entry(i) == [u \in 1..journal[i].size |-> i]
Chars(entries) == FlattenSeq([n \in DOMAIN entries |-> Entry(entries[n])])
Joined(entries) ==
  FlattenSeq([n \in DOMAIN entries |-> IF n = 1 THEN Entry(entries[n]) ELSE <<0>> \o Entry(entries[n])])

Dropping(entries, n) == SubSeq(entries, n + 1, Len(entries))

(* Mutant: the final cut keeps the beginning.                              *)
OldestUnits(text) == SubSeq(text, 1, IF Len(text) > MaxWindow THEN MaxWindow ELSE Len(text))

NewestUnits(text) == Dropping(text, IF Len(text) > MaxWindow THEN Len(text) - MaxWindow ELSE 0)

(* The ring drops entries from the front until the rest fits.              *)
Fits(entries, n) == Len(Chars(Dropping(entries, n))) <= RingCap

Shed(entries, n) ==
  CHOOSE m \in n..Len(entries) :
    Fits(entries, m) /\ \A k \in n..(m - 1) : ~Fits(entries, k)

Include(s, i) ==
  LET entries == IF journal[i].size = 0 THEN seen[s] ELSE Append(seen[s], i) IN
  /\ last' = [last EXCEPT ![s] = journal[i].stamp]
  /\ seen' = [seen EXCEPT ![s] = entries]
  /\ shed' = [shed EXCEPT ![s] = Shed(entries, @)]

(* One line, read whole: in the window or passed over.  The second half of *)
(* a record whose first half was taken for a line does not parse.          *)
ReadRecord(s) ==
  LET i == pos[s] + 1 IN
  /\ pc[s] = "read"
  /\ i <= Len(journal)
  /\ ~(partial /\ i = Len(journal))
  /\ pos' = [pos EXCEPT ![s] = i]
  /\ half' = [half EXCEPT ![s] = FALSE]
  /\ \/ /\ ~half[s] /\ journal[i].stamp # 0 /\ After(journal[i].stamp, prior[s].boundary)
        /\ Include(s, i)
     \/ /\ half[s] \/ journal[i].stamp = 0 \/ ~After(journal[i].stamp, prior[s].boundary)
        /\ UNCHANGED <<last, seen, shed>>
  /\ UNCHANGED <<host, row, pc, prior, torn>>

(* The end of the file in the middle of a record: what is there counts as  *)
(* a line, which does not parse.                                           *)
ReadHalf(s) ==
  /\ pc[s] = "read"
  /\ partial /\ pos[s] + 1 = Len(journal) /\ ~half[s]
  /\ half' = [half EXCEPT ![s] = TRUE]
  /\ torn' = torn \cup {Len(journal)}
  /\ UNCHANGED <<host, row, pc, prior, pos, last, seen, shed>>

(* Mutant: a window without text is extracted like any other.              *)
NeverVacuous(s) ==
  /\ pc[s] = "read"
  /\ pos[s] = Len(journal) \/ (partial /\ half[s])
  /\ Goto(s, "extract")
  /\ UNCHANGED <<host, row, prior, reader, torn>>

ReachEnd(s) ==
  /\ pc[s] = "read"
  /\ pos[s] = Len(journal) \/ (partial /\ half[s])
  /\ Goto(s, IF seen[s] = <<>> THEN "done" ELSE "extract")
  /\ UNCHANGED <<host, row, prior, reader, torn>>

(* An I/O error of the reader, a failed extraction or a failed save: the   *)
(* row stays, so that the next capture reads the same records again.       *)
GiveUp(s) ==
  /\ pc[s] = "extract" \/ (Faults /\ pc[s] = "read")
  /\ Goto(s, "done")
  /\ UNCHANGED <<host, row, prior, reader, torn>>

(* What the agent reads of the window, the note aside, and the records     *)
(* that are in it whole.                                                   *)
Text(s) == NewestUnits(Joined(Dropping(seen[s], shed[s])))
Seen(s) == {seen[s][n] : n \in DOMAIN seen[s]}
Told(s) ==
  {i \in Seen(s) :
     \E k \in 0..(Len(Text(s)) - journal[i].size) :
       SubSeq(Text(s), k + 1, k + journal[i].size) = Entry(i)}

Carried(s, end) ==
  [memory |-> prior[s].memory \cup Told(s), cut |-> prior[s].cut \cup (Seen(s) \ Told(s)),
   inherited |-> prior[s].inherited, boundary |-> end]

(* Mutant: the boundary is where the journal ends when the row is saved.   *)
SaveAtEnd(s) ==
  /\ pc[s] = "extract"
  /\ journal[Len(journal)].stamp \in Stamps
  /\ row' = Carried(s, journal[Len(journal)].stamp)
  /\ Goto(s, "done")
  /\ UNCHANGED <<host, prior, reader, torn>>

SaveRow(s) ==
  /\ pc[s] = "extract"
  /\ row' = Carried(s, last[s])
  /\ Goto(s, "done")
  /\ UNCHANGED <<host, prior, reader, torn>>

Step(s) == LoadPrior(s) \/ ReadRecord(s) \/ ReadHalf(s) \/ ReachEnd(s) \/ GiveUp(s) \/ SaveRow(s)

Finished == (\A s \in Captures : pc[s] = "done") /\ UNCHANGED vars

Next ==
  \/ AppendRecord \/ FinishRecord \/ DamageRow \/ ReceiveRow \/ ForgetRow
  \/ (\E s \in Captures : Step(s)) \/ Finished

Spec == Init /\ [][Next]_vars

-----------------------------------------------------------------------------
TypeOK ==
  /\ journal \in Seq(Records) /\ Len(journal) <= MaxRecords
  /\ partial \in BOOLEAN
  /\ row \in Rows \cup {NoRow, Corrupt} /\ handoffs \in 0..MaxHandoffs
  /\ pc \in [Captures -> {"idle", "read", "extract", "done"}]
  /\ prior \in [Captures -> Rows \cup {Nothing}]
  /\ pos \in [Captures -> 0..Len(journal)]
  /\ half \in [Captures -> BOOLEAN]
  /\ last \in [Captures -> {0} \cup Stamps]
  /\ seen \in [Captures -> Seq(DOMAIN journal)]
  /\ \A s \in Captures : shed[s] \in 0..Len(seen[s])
  /\ torn \subseteq DOMAIN journal

(* Nothing up to the row's boundary is lost: every record with text was    *)
(* read whole by an extraction the row goes back to, or was cut there      *)
(* because newer ones filled the window (CutOnlyWhenFull says when).  The  *)
(* exceptions are what the boundary of a handoff passes, when another      *)
(* session's row came in between, and the two the code cannot see: a       *)
(* record that was half written when it was read, and one whose timestamp  *)
(* is not later than an earlier record's.  Overlapping and failing         *)
(* captures, a damaged row and one given away are no exception.            *)
NothingSkipped ==
  row \in Rows =>
    \A i \in DOMAIN journal :
      (journal[i].size > 0 /\ journal[i].stamp \in (row.inherited + 1)..row.boundary)
        => \/ i \in row.memory \cup row.cut
           \/ i \in torn
           \/ \E j \in 1..(i - 1) : journal[j].stamp >= journal[i].stamp

(* A record of the window is cut only when it does not fit together with   *)
(* all the newer ones: what the agent reads holds every other one whole,   *)
(* although the ring sheds by a count of its own while it reads.           *)
CutOnlyWhenFull ==
  \A s \in Captures :
    \A n \in DOMAIN seen[s] :
      Len(Joined(Dropping(seen[s], n - 1))) <= MaxWindow => seen[s][n] \in Told(s)

(* Nothing is told twice: a window holds a record its prior row goes back  *)
(* to only if a later record went back in time.                            *)
NothingReplayed ==
  \A s \in Captures :
    \A n \in DOMAIN seen[s] :
      LET i == seen[s][n] IN
      i \in prior[s].memory \cup prior[s].cut =>
        \E j \in (i + 1)..Len(journal) : journal[j].stamp \in 1..(journal[i].stamp - 1)

(* What the ring drops while it reads never shows: the agent sees the same *)
(* newest units as if every entry had been kept, and is told that earlier  *)
(* ones are missing exactly when some are.                                 *)
TextIsTail ==
  \A s \in Captures :
    LET kept == Joined(Dropping(seen[s], shed[s]))
        all == Joined(seen[s]) IN
    /\ NewestUnits(kept) = NewestUnits(all)
    /\ Len(kept) > MaxWindow \/ shed[s] > 0 <=> Len(all) > MaxWindow
=============================================================================

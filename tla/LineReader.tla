----------------------------- MODULE LineReader -----------------------------
(***************************************************************************)
(* bounded_lines over read_bounded_line (src/journal.rs): the journal is   *)
(* read in chunks whose sizes the buffered reader decides, and handed on   *)
(* as records of at most Cap bytes.  A longer record is drained chunk by   *)
(* chunk, one that is not UTF-8 is dropped, and the host may append to the *)
(* file at any time.  Journal.tla takes over from here: its records are    *)
(* the ones this module yields.                                            *)
(***************************************************************************)
EXTENDS Naturals, Sequences, FiniteSets

CONSTANTS
  Bytes,      \* the bytes of a journal
  Newline,
  Lead, Trail, \* the two bytes of one character
  Cap,        \* MAX_LINE_BYTES
  MaxInput    \* the host stops writing at this length

ASSUME LineReaderAssumption ==
  /\ Newline \in Bytes \ {Lead, Trail}
  /\ Lead # Trail
  /\ Cap \in Nat /\ MaxInput \in Nat

VARIABLES
  input,    \* the bytes written to the journal so far
  pos,      \* how many of them were consumed
  buf,      \* the record as read so far
  over,     \* its length passed Cap
  got,      \* got_anything
  records,  \* the lines yielded
  status,
  start,    \* history: where the record that is being read starts
  cuts      \* history: the places where a record ended with the file

vars == <<input, pos, buf, over, got, records, status, start, cuts>>

Init ==
  /\ input = <<>>
  /\ pos = 0
  /\ buf = <<>> /\ over = FALSE /\ got = FALSE
  /\ records = <<>>
  /\ status = "reading"
  /\ start = 0
  /\ cuts = {}

(* The host appends to its journal, in any portions.                       *)
Append1 ==
  /\ Len(input) < MaxInput
  /\ \E b \in Bytes : input' = Append(input, b)
  /\ UNCHANGED <<pos, buf, over, got, records, status, start, cuts>>

(* std::str::from_utf8.                                                    *)
Utf8(text) ==
  \A i \in 1..Len(text) :
    /\ text[i] = Lead => i < Len(text) /\ text[i + 1] = Trail
    /\ text[i] = Trail => i > 1 /\ text[i - 1] = Lead

(* bounded_lines: a record that is too long or not UTF-8 is dropped.       *)
Yield(text, tooLong) == IF tooLong \/ ~Utf8(text) THEN records ELSE Append(records, text)

(* The call returns its record and the next one starts with a clean buffer.*)
EndRecord(text, tooLong) ==
  /\ records' = Yield(text, tooLong)
  /\ buf' = <<>> /\ over' = FALSE /\ got' = FALSE
  /\ start' = pos'

(* Mutant: what follows the newline in the chunk goes with it.             *)
WholeChunk(n) == {n}

(* How much of a chunk of n bytes is consumed: up to and including its     *)
(* first newline, or all of it.                                            *)
Take(n) == {t \in 1..n : /\ t = n \/ input[pos + t] = Newline
                         /\ \A i \in 1..(t - 1) : input[pos + i] # Newline}

(* Mutant: only the chunk is measured, not the line.                       *)
TooLongChunk(take) == over \/ take > Cap

TooLong(take) == over \/ Len(buf) + take > Cap

(* One round of the loop, which consumes take of the bytes on offer.       *)
ReadChunk(take) ==
  LET long == TooLong(take)
      text == IF long THEN <<>> ELSE buf \o SubSeq(input, pos + 1, pos + take)
  IN  /\ status = "reading"
      /\ pos' = pos + take
      /\ \/ input[pos + take] = Newline /\ EndRecord(text, long)
         \/ /\ input[pos + take] # Newline
            /\ buf' = text /\ over' = long /\ got' = TRUE
            /\ UNCHANGED <<records, start>>
      /\ UNCHANGED <<input, status, cuts>>

(* fill_buf offers n bytes, any number of those that are there.            *)
ReadSome == \E n \in 1..(Len(input) - pos) : \E take \in Take(n) : ReadChunk(take)

(* Mutant: at the end of the file an over-long record is still drained.    *)
ReachEndUnlessLong ==
  /\ status = "reading" /\ pos = Len(input)
  /\ UNCHANGED <<input, pos>>
  /\ \/ ~got /\ status' = "end" /\ UNCHANGED <<buf, over, got, records, start, cuts>>
     \/ got /\ ~over /\ EndRecord(buf, over) /\ cuts' = cuts \cup {pos} /\ UNCHANGED status

(* An empty chunk: the end of the file as it is now.  A record without a   *)
(* newline ends here, and the next call starts a new one.                  *)
ReachEnd ==
  /\ status = "reading" /\ pos = Len(input)
  /\ UNCHANGED <<input, pos>>
  /\ \/ ~got /\ status' = "end" /\ UNCHANGED <<buf, over, got, records, start, cuts>>
     \/ got /\ EndRecord(buf, over) /\ cuts' = cuts \cup {pos} /\ UNCHANGED status

(* A read that is interrupted made no progress and is asked again.         *)
Interrupted == status = "reading" /\ UNCHANGED vars

(* Mutant: an error ends the record as the end of the file does.           *)
ErrorEndsRecord ==
  /\ status = "reading" /\ got
  /\ UNCHANGED <<input, pos, cuts>>
  /\ EndRecord(buf, over)
  /\ status' = "failed"

(* Any other error ends the iteration, and nothing of the record is told.  *)
ReadError ==
  /\ status = "reading"
  /\ status' = "failed"
  /\ UNCHANGED <<input, pos, buf, over, got, records, start, cuts>>

Read == ReadSome \/ ReachEnd

Stopped == status # "reading" /\ UNCHANGED vars

Next == Append1 \/ Read \/ Interrupted \/ ReadError \/ Stopped

(* The worker runs and a file is not interrupted forever.                  *)
Spec == Init /\ [][Next]_vars /\ WF_vars(Read)

-----------------------------------------------------------------------------
(* Whatever the journal holds, no record takes more memory than Cap.       *)
TypeOK ==
  /\ input \in Seq(Bytes)
  /\ pos \in Nat /\ start \in Nat
  /\ buf \in Seq(Bytes) /\ Len(buf) <= Cap
  /\ over \in BOOLEAN /\ got \in BOOLEAN
  /\ records \in Seq(Seq(Bytes))
  /\ status \in {"reading", "end", "failed"}
  /\ cuts \subseteq Nat

(* The reader is aligned with the file: whatever the chunks were, the      *)
(* record in hand is what was consumed since the last record ended, holds  *)
(* no newline, and is given up exactly when it is longer than Cap.         *)
Aligned ==
  /\ start <= pos /\ pos <= Len(input)
  /\ \A i \in (start + 1)..pos : input[i] # Newline
  /\ got <=> pos > start
  /\ over <=> pos - start > Cap
  /\ buf = IF over THEN <<>> ELSE SubSeq(input, start + 1, pos)

(* What is told does not depend on the chunks: it is the lines of the      *)
(* consumed bytes, less those that are too long or not UTF-8, where a line *)
(* ends after a newline or where the file ended when the reader was there. *)
Ends == {i \in 1..pos : input[i] = Newline} \cup cuts
LastBefore(ends, e) ==
  LET before == {0} \cup {d \in ends : d < e}
  IN  CHOOSE d \in before : \A c \in before : c <= d
LineTo(e) == SubSeq(input, LastBefore(Ends, e) + 1, e)
Good(e) == Len(LineTo(e)) <= Cap /\ Utf8(LineTo(e))

YieldsTheLines ==
  LET told == {e \in Ends : Good(e)}
      place(e) == Cardinality({d \in told : d <= e})
  IN  /\ Len(records) = Cardinality(told)
      /\ \A e \in told : records[place(e)] = LineTo(e)

(* The reading of a file comes to an end, however its lines are cut.       *)
Terminates == <>(status # "reading")
=============================================================================

-------------------------- MODULE LineReaderProofs --------------------------
(***************************************************************************)
(* The reader stays aligned with the lines of the file and within its      *)
(* memory bound, for every journal, limit and way of cutting it in chunks. *)
(***************************************************************************)
EXTENDS LineReader, FiniteSetTheorems, TLAPS

(* The stretch of s after place a and up to place b.                       *)
LEMMA Stretch ==
  ASSUME NEW S, NEW s \in Seq(S), NEW a \in Nat, NEW b \in Nat, a <= b, b <= Len(s)
  PROVE  /\ SubSeq(s, a + 1, b) \in Seq(S)
         /\ Len(SubSeq(s, a + 1, b)) = b - a
  OBVIOUS

LEMMA EmptyStretch ==
  ASSUME NEW S, NEW s \in Seq(S), NEW a \in Nat, a <= Len(s)
  PROVE  SubSeq(s, a + 1, a) = <<>>
  <1>1. SubSeq(s, a + 1, a) \in Seq(S) /\ Len(SubSeq(s, a + 1, a)) = 0
    OBVIOUS
  <1> QED
    BY <1>1

(* SubSeq of adjacent stretches: what was kept and what is taken.          *)
LEMMA AdjacentStretches ==
  ASSUME NEW S, NEW s \in Seq(S), NEW a \in Nat, NEW b \in Nat, NEW c \in Nat,
         a <= b, b <= c, c <= Len(s)
  PROVE  /\ SubSeq(s, a + 1, b) \in Seq(S)
         /\ Len(SubSeq(s, a + 1, b)) = b - a
         /\ SubSeq(s, a + 1, b) \o SubSeq(s, b + 1, c) = SubSeq(s, a + 1, c)
  <1>1. /\ SubSeq(s, a + 1, b) \in Seq(S) /\ Len(SubSeq(s, a + 1, b)) = b - a
        /\ SubSeq(s, b + 1, c) \in Seq(S) /\ Len(SubSeq(s, b + 1, c)) = c - b
        /\ SubSeq(s, a + 1, c) \in Seq(S) /\ Len(SubSeq(s, a + 1, c)) = c - a
    OBVIOUS
  <1> DEFINE l == SubSeq(s, a + 1, b)
             m == SubSeq(s, b + 1, c)
             r == SubSeq(s, a + 1, c)
  <1>2. l \o m \in Seq(S) /\ Len(l \o m) = c - a
    BY <1>1
  <1>3. \A i \in 1..(c - a) : (l \o m)[i] = r[i]
    BY <1>1
  <1>4. l \o m = r
    BY <1>1, <1>2, <1>3
  <1> QED
    BY <1>1, <1>4

(* Between a record and the next nothing is in hand.                       *)
LEMMA NothingRead ==
  ASSUME NEW p \in Nat, NEW q, q = p
  PROVE  /\ q <= p /\ ~(q > p) /\ ~(p - q > Cap)
         /\ (q + 1)..p = {}
  <1>1. Cap \in Nat
    BY LineReaderAssumption
  <1> QED
    BY <1>1

(* What was consumed does not change when the host appends.                *)
LEMMA AppendKeeps ==
  ASSUME NEW S, NEW s \in Seq(S), NEW x \in S, NEW a \in Nat, NEW b \in Nat,
         a <= b, b <= Len(s)
  PROVE  /\ Append(s, x) \in Seq(S) /\ Len(Append(s, x)) = Len(s) + 1
         /\ \A i \in 1..Len(s) : Append(s, x)[i] = s[i]
         /\ SubSeq(Append(s, x), a + 1, b) = SubSeq(s, a + 1, b)
  <1>1. /\ Append(s, x) \in Seq(S) /\ Len(Append(s, x)) = Len(s) + 1
        /\ \A i \in 1..Len(s) : Append(s, x)[i] = s[i]
    OBVIOUS
  <1> DEFINE l == SubSeq(Append(s, x), a + 1, b)
             r == SubSeq(s, a + 1, b)
  <1>2. /\ l \in Seq(S) /\ Len(l) = b - a
        /\ r \in Seq(S) /\ Len(r) = b - a
    BY <1>1
  <1>3. \A i \in 1..(b - a) : l[i] = r[i]
    BY <1>1
  <1>4. l = r
    BY <1>2, <1>3, SMTT(30)
  <1> QED
    BY <1>1, <1>4

-----------------------------------------------------------------------------
ReaderInv == TypeOK /\ Aligned

LEMMA InitAligned == Init => ReaderInv
  <1> SUFFICES ASSUME Init PROVE ReaderInv
    OBVIOUS
  <1> USE LineReaderAssumption DEF Init
  <1>1. input \in Seq(Bytes) /\ Len(input) = 0 /\ SubSeq(input, start + 1, pos) = <<>>
    OBVIOUS
  <1>2. TypeOK
    <2>1. <<>> \in Seq(Bytes) /\ <<>> \in Seq(Seq(Bytes)) /\ Len(<<>>) <= Cap /\ 0 \in Nat
      OBVIOUS
    <2> QED
      BY <2>1, Zenon DEF TypeOK
  <1>3. Aligned
    BY <1>1 DEF Aligned
  <1> QED
    BY <1>2, <1>3 DEF ReaderInv

(* The record that is complete or goes on after a chunk: what Aligned says *)
(* of it, with the bytes just taken.                                       *)
LEMMA TakenRecord ==
  ASSUME ReaderInv, NEW n \in 1..(Len(input) - pos), NEW t \in Take(n)
  PROVE  /\ t \in Nat \ {0} /\ pos + t <= Len(input)
         /\ TooLong(t) <=> pos + t - start > Cap
         /\ ~TooLong(t) =>
               buf \o SubSeq(input, pos + 1, pos + t) = SubSeq(input, start + 1, pos + t)
         /\ \A i \in (start + 1)..(pos + t - 1) : input[i] # Newline
  <1> USE DEF ReaderInv, TypeOK, Aligned
  <1>1. /\ n \in Nat /\ pos + n <= Len(input) /\ Len(input) \in Nat
        /\ pos \in Nat /\ start \in Nat /\ Cap \in Nat
    BY LineReaderAssumption
  <1>2. /\ t \in 1..n
        /\ \A i \in 1..(t - 1) : input[pos + i] # Newline
    BY DEF Take
  <1>3. t \in Nat \ {0} /\ pos + t <= Len(input)
    BY <1>1, <1>2
  <1>4. TooLong(t) <=> pos + t - start > Cap
    <2>1. CASE over
      BY <1>1, <1>3, <2>1 DEF TooLong
    <2>2. CASE ~over
      <3>1. Len(buf) = pos - start
        BY <1>1, <2>2, AdjacentStretches
      <3> QED
        BY <1>1, <1>3, <2>2, <3>1 DEF TooLong
    <2> QED
      BY <2>1, <2>2
  <1>5. ASSUME ~TooLong(t)
        PROVE  buf \o SubSeq(input, pos + 1, pos + t) = SubSeq(input, start + 1, pos + t)
    <2>1. buf = SubSeq(input, start + 1, pos)
      BY <1>5 DEF TooLong
    <2>2. input \in Seq(Bytes) /\ start <= pos /\ pos <= pos + t /\ pos + t \in Nat
      BY <1>1, <1>3
    <2> HIDE DEF ReaderInv, TypeOK, Aligned
    <2> QED
      BY <1>1, <1>3, <2>1, <2>2, AdjacentStretches
  <1>6. \A i \in (start + 1)..(pos + t - 1) : input[i] # Newline
    <2> SUFFICES ASSUME NEW i \in (start + 1)..(pos + t - 1), ~(i <= pos)
                 PROVE  input[i] # Newline
      BY <1>1, <1>3
    <2>1. i - pos \in 1..(t - 1) /\ pos + (i - pos) = i
      BY <1>1, <1>3
    <2> QED
      BY <1>2, <2>1
  <1> QED
    BY <1>3, <1>4, <1>5, <1>6

(* A record that ends leaves the reader aligned, and what it adds to the   *)
(* lines told is the whole record or nothing.                              *)
LEMMA EndedRecord ==
  ASSUME ReaderInv, NEW long \in BOOLEAN, NEW text, EndRecord(text, long),
         input' = input, pos' \in Nat, pos <= pos', pos' <= Len(input),
         cuts' \subseteq Nat, status' \in {"reading", "end", "failed"},
         ~long => text = SubSeq(input, start + 1, pos') /\ pos' - start <= Cap
  PROVE  /\ ReaderInv'
         /\ records' # records => /\ records' = Append(records, SubSeq(input, start + 1, pos'))
                                  /\ pos' - start <= Cap
  <1> USE LineReaderAssumption DEF ReaderInv, EndRecord
  <1>1. /\ input \in Seq(Bytes) /\ start \in Nat /\ start <= pos'
        /\ records \in Seq(Seq(Bytes))
    BY DEF TypeOK, Aligned
  <1>2. records' # records => ~long /\ records' = Append(records, text)
    BY DEF Yield
  <1>3. ~long => text \in Seq(Bytes)
    <2>1. SubSeq(input, start + 1, pos') \in Seq(Bytes)
      BY <1>1, Stretch
    <2> QED
      BY <2>1
  <1>4. records' \in Seq(Seq(Bytes))
    <2>1. CASE records' = records
      BY <1>1, <2>1
    <2>2. CASE records' # records
      <3>1. text \in Seq(Bytes) /\ records' = Append(records, text)
        BY <1>2, <1>3, <2>2
      <3> HIDE DEF ReaderInv, EndRecord
      <3> QED
        BY <1>1, <3>1
    <2> QED
      BY <2>1, <2>2
  <1>5. TypeOK'
    <2>1. <<>> \in Seq(Bytes) /\ Len(<<>>) <= Cap
      OBVIOUS
    <2> QED
      BY <1>1, <1>4, <2>1, Zenon DEF TypeOK
  <1>6. SubSeq(input, pos' + 1, pos') = <<>>
    BY <1>1, EmptyStretch
  <1>7. Aligned'
    <2>1. start' = pos' /\ over' = FALSE /\ got' = FALSE /\ buf' = <<>>
      OBVIOUS
    <2> HIDE DEF ReaderInv, EndRecord
    <2>2. /\ start' <= pos' /\ ~(pos' > start') /\ ~(pos' - start' > Cap)
          /\ (start' + 1)..pos' = {}
      BY <2>1, NothingRead
    <2>3. pos' <= Len(input')
      OBVIOUS
    <2>4. \A i \in (start' + 1)..pos' : input'[i] # Newline
      BY <2>2, Zenon
    <2>5. buf' = SubSeq(input', start' + 1, pos')
      BY <1>6, <2>1
    <2> QED
      BY <2>1, <2>2, <2>3, <2>4, <2>5, Zenon DEF Aligned
  <1> QED
    BY <1>2, <1>5, <1>7

(* ReadChunk: the record ends with the newline, or goes on.                *)
LEMMA ReadChunkAligned ==
  ASSUME ReaderInv, NEW n \in 1..(Len(input) - pos), NEW t \in Take(n), ReadChunk(t)
  PROVE  /\ ReaderInv'
         /\ records' # records => /\ records' = Append(records, SubSeq(input, start + 1, pos'))
                                  /\ pos' - start <= Cap
                                  /\ input[pos'] = Newline
  <1> DEFINE text == IF TooLong(t) THEN <<>> ELSE buf \o SubSeq(input, pos + 1, pos + t)
  <1>1. /\ t \in Nat \ {0} /\ pos + t <= Len(input)
        /\ TooLong(t) <=> pos + t - start > Cap
        /\ ~TooLong(t) => text = SubSeq(input, start + 1, pos + t)
        /\ \A i \in (start + 1)..(pos + t - 1) : input[i] # Newline
    BY TakenRecord
  <1>2. /\ pos \in Nat /\ start \in Nat /\ Cap \in Nat /\ start <= pos
        /\ input \in Seq(Bytes) /\ TooLong(t) \in BOOLEAN
    BY LineReaderAssumption DEF ReaderInv, TypeOK, Aligned, TooLong
  <1>3. /\ pos' = pos + t /\ input' = input /\ cuts' = cuts /\ status' = status
        /\ pos' \in Nat /\ pos <= pos' /\ pos' <= Len(input)
    BY <1>1, <1>2 DEF ReadChunk
  <1>4. CASE input[pos + t] = Newline
    <2>1. EndRecord(text, TooLong(t))
      BY <1>4 DEF ReadChunk
    <2>2. cuts' \subseteq Nat /\ status' \in {"reading", "end", "failed"}
      BY <1>3 DEF ReaderInv, TypeOK
    <2>3. ~TooLong(t) => text = SubSeq(input, start + 1, pos') /\ pos' - start <= Cap
      BY <1>1, <1>2, <1>3
    <2> HIDE DEF text
    <2> QED
      BY <1>2, <1>3, <1>4, <2>1, <2>2, <2>3, EndedRecord
  <1>5. CASE input[pos + t] # Newline
    <2>1. /\ buf' = text /\ over' = TooLong(t) /\ got' = TRUE
          /\ records' = records /\ start' = start
      BY <1>5 DEF ReadChunk
    <2>2. ASSUME ~TooLong(t)
          PROVE  /\ text \in Seq(Bytes) /\ Len(text) <= Cap
                 /\ text = SubSeq(input, start + 1, pos')
      <3> HIDE DEF text
      <3>1. /\ SubSeq(input, start + 1, pos + t) \in Seq(Bytes)
            /\ Len(SubSeq(input, start + 1, pos + t)) = pos + t - start
        BY <1>1, <1>2, Stretch
      <3>2. text = SubSeq(input, start + 1, pos + t) /\ pos + t - start <= Cap
        BY <1>1, <1>2, <2>2
      <3> QED
        BY <1>3, <3>1, <3>2
    <2>3. TooLong(t) => text = <<>>
      OBVIOUS
    <2> HIDE DEF text
    <2>4. text \in Seq(Bytes) /\ Len(text) <= Cap
      <3>1. <<>> \in Seq(Bytes) /\ Len(<<>>) <= Cap
        BY <1>2
      <3> QED
        BY <2>2, <2>3, <3>1, Zenon
    <2>5. TypeOK'
      BY <1>2, <1>3, <2>1, <2>4, Zenon DEF ReaderInv, TypeOK
    <2>6. /\ start <= pos' /\ pos' <= Len(input) /\ pos' > start
          /\ TooLong(t) <=> pos' - start > Cap
          /\ \A i \in (start + 1)..pos' : input[i] # Newline
      BY <1>1, <1>2, <1>3, <1>5
    <2>7. Aligned'
      BY <1>3, <2>1, <2>2, <2>3, <2>6, Zenon DEF Aligned
    <2> QED
      BY <2>1, <2>5, <2>7 DEF ReaderInv
  <1> QED
    BY <1>4, <1>5

(* ReachEnd: nothing is left, or a record ends with the file.              *)
LEMMA ReachEndAligned ==
  ASSUME ReaderInv, ReachEnd
  PROVE  /\ ReaderInv'
         /\ records' # records => /\ records' = Append(records, SubSeq(input, start + 1, pos'))
                                  /\ pos' - start <= Cap
                                  /\ pos' = Len(input)
  <1>1. /\ pos' = pos /\ input' = input /\ pos \in Nat /\ start \in Nat /\ Cap \in Nat
        /\ pos = Len(input) /\ over \in BOOLEAN
        /\ ~over => buf = SubSeq(input, start + 1, pos) /\ pos - start <= Cap
    BY LineReaderAssumption DEF ReachEnd, ReaderInv, TypeOK, Aligned
  <1>2. CASE got
    <2>1. EndRecord(buf, over) /\ cuts' = cuts \cup {pos} /\ status' = status
      BY <1>2 DEF ReachEnd
    <2>2. cuts' \subseteq Nat /\ status' \in {"reading", "end", "failed"}
      BY <1>1, <2>1 DEF ReaderInv, TypeOK
    <2> QED
      BY <1>1, <2>1, <2>2, EndedRecord
  <1>3. CASE ~got
    <2>1. UNCHANGED <<buf, over, got, records, start, cuts>> /\ status' = "end"
      BY <1>3 DEF ReachEnd
    <2> QED
      BY <1>1, <2>1, Zenon DEF ReaderInv, TypeOK, Aligned
  <1> QED
    BY <1>2, <1>3

(* The host's writing does not disturb the record in hand.                 *)
LEMMA AppendAligned ==
  ASSUME ReaderInv, Append1
  PROVE  ReaderInv' /\ records' = records
  <1>1. PICK b \in Bytes : input' = Append(input, b)
    BY DEF Append1
  <1>2. /\ input \in Seq(Bytes) /\ pos \in Nat /\ start \in Nat /\ Len(input) \in Nat
        /\ start <= pos /\ pos <= Len(input)
    BY DEF ReaderInv, TypeOK, Aligned
  <1>3. UNCHANGED <<pos, buf, over, got, records, status, start, cuts>>
    BY DEF Append1
  <1>4. /\ Append(input, b) \in Seq(Bytes) /\ Len(Append(input, b)) = Len(input) + 1
        /\ \A i \in 1..Len(input) : Append(input, b)[i] = input[i]
        /\ SubSeq(Append(input, b), start + 1, pos) = SubSeq(input, start + 1, pos)
    BY <1>2, AppendKeeps
  <1>5. TypeOK'
    BY <1>1, <1>3, <1>4, Zenon DEF ReaderInv, TypeOK
  <1>6. pos <= Len(Append(input, b))
    BY <1>2, <1>4
  <1>7. \A i \in (start + 1)..pos : Append(input, b)[i] # Newline
    <2> SUFFICES ASSUME NEW i \in (start + 1)..pos PROVE Append(input, b)[i] # Newline
      OBVIOUS
    <2>1. i \in 1..Len(input)
      BY <1>2
    <2> QED
      BY <1>4, <2>1, Zenon DEF ReaderInv, Aligned
  <1>8. Aligned'
    BY <1>1, <1>3, <1>4, <1>6, <1>7, Zenon DEF ReaderInv, Aligned
  <1> QED
    BY <1>3, <1>5, <1>8 DEF ReaderInv

(* One step, whatever it is.                                               *)
TellsWhole ==
  records' # records =>
    /\ records' = Append(records, SubSeq(input, start + 1, pos'))
    /\ pos' - start <= Cap
    /\ input[pos'] = Newline \/ pos' = Len(input)

LEMMA StepAligned == ReaderInv /\ [Next]_vars => ReaderInv' /\ TellsWhole
  <1> SUFFICES ASSUME ReaderInv, [Next]_vars PROVE ReaderInv' /\ TellsWhole
    OBVIOUS
  <1>1. CASE Append1
    BY <1>1, AppendAligned DEF TellsWhole
  <1>2. CASE ReadSome
    BY <1>2, ReadChunkAligned DEF ReadSome, TellsWhole
  <1>3. CASE ReachEnd
    BY <1>3, ReachEndAligned DEF TellsWhole
  <1>4. CASE ReadError
    BY <1>4, Zenon DEF ReadError, ReaderInv, TypeOK, Aligned, TellsWhole
  <1>5. CASE UNCHANGED vars
    BY <1>5, Zenon DEF vars, ReaderInv, TypeOK, Aligned, TellsWhole
  <1> QED
    BY <1>1, <1>2, <1>3, <1>4, <1>5 DEF Next, Read, Interrupted, Stopped

-----------------------------------------------------------------------------
(* Whatever the journal holds and however it is read, the record in hand   *)
(* takes no more than Cap bytes (read_bounded_line's cap).                 *)
THEOREM MemoryIsBounded == Spec => []TypeOK
  <1>1. ReaderInv => TypeOK
    BY DEF ReaderInv
  <1> QED
    BY InitAligned, StepAligned, <1>1, PTL DEF Spec

(* The reader never loses its place among the lines: draining a line that  *)
(* is too long ends exactly at its newline.                                *)
THEOREM ReaderIsAligned == Spec => []Aligned
  <1>1. ReaderInv => Aligned
    BY DEF ReaderInv
  <1> QED
    BY InitAligned, StepAligned, <1>1, PTL DEF Spec

(* A line is told once, whole and never again touched: a step adds at most *)
(* the record that it completes, which is no longer than Cap and ends with *)
(* its newline or at the end of the file.                                  *)
TellsWholeLines ==
  [][records' # records =>
       /\ records' = Append(records, SubSeq(input, start + 1, pos'))
       /\ pos' - start <= Cap
       /\ input[pos'] = Newline \/ pos' = Len(input)]_vars

(* bounded_lines yields only whole lines of at most Cap bytes, in order.   *)
THEOREM LinesAreToldWhole == Spec => TellsWholeLines
  <1>1. TellsWhole => [records' # records =>
       /\ records' = Append(records, SubSeq(input, start + 1, pos'))
       /\ pos' - start <= Cap
       /\ input[pos'] = Newline \/ pos' = Len(input)]_vars
    BY DEF TellsWhole
  <1> QED
    BY InitAligned, StepAligned, <1>1, PTL DEF Spec, TellsWholeLines

-----------------------------------------------------------------------------
(* What is told are the lines of the journal.  The ends lie before the     *)
(* record in hand, which starts at the last of them, and every line starts *)
(* at the end before its own.                                              *)
Before(ends, e) == {0} \cup {d \in ends : d < e}

EndsInv ==
  /\ \A e \in Ends : e \in Nat /\ 0 < e /\ e <= start
  /\ start = 0 \/ start \in Ends
  /\ \A e \in Ends : \E d \in Before(Ends, e) : \A c \in Before(Ends, e) : c <= d

LinesInv == ReaderInv /\ EndsInv /\ YieldsTheLines

Told == {e \in Ends : Good(e)}

(* Where the line that ends at e stands among the ones told.               *)
Place(told, e) == Cardinality({d \in told : d <= e})

(* LastBefore is the largest of the earlier ends.                          *)
LEMMA LastBeforeIs ==
  ASSUME NEW E \in SUBSET Nat, NEW e \in Nat, NEW d \in Before(E, e),
         \A c \in Before(E, e) : c <= d
  PROVE  LastBefore(E, e) = d
  <1> DEFINE P(x) == x \in Before(E, e) /\ \A c \in Before(E, e) : c <= x
  <1>1. LastBefore(E, e) = CHOOSE x : P(x)
    BY Zenon DEF LastBefore, Before
  <1>2. P(d)
    OBVIOUS
  <1>3. \A x : P(x) => x = d
    <2> SUFFICES ASSUME NEW x, P(x) PROVE x = d
      OBVIOUS
    <2>1. x <= d /\ d <= x /\ x \in Nat /\ d \in Nat
      BY <1>2 DEF Before
    <2> QED
      BY <2>1
  <1> HIDE DEF P
  <1>4. P(CHOOSE x : P(x))
    BY <1>2, Zenon
  <1> QED
    BY <1>1, <1>3, <1>4, Zenon

(* One more line, further on than the ones told, is the last of them ...   *)
LEMMA LastPlace ==
  ASSUME NEW told \in SUBSET Nat, NEW p \in Nat, \A d \in told : d < p
  PROVE  Place(told \cup {p}, p) = Cardinality(told \cup {p})
  <1>1. \A d \in told \cup {p} : d <= p
    OBVIOUS
  <1>2. {d \in told \cup {p} : d <= p} = told \cup {p}
    BY <1>1, Zenon
  <1> QED
    BY <1>2, Zenon DEF Place

(* ... and leaves each of them its place.                                  *)
LEMMA SamePlace ==
  ASSUME NEW told \in SUBSET Nat, IsFiniteSet(told),
         NEW p \in Nat, \A d \in told : d < p, NEW e \in told
  PROVE  /\ Place(told \cup {p}, e) = Place(told, e)
         /\ Place(told, e) \in 1..Cardinality(told)
  <1> DEFINE upto == {d \in told : d <= e}
  <1>1. {d \in told \cup {p} : d <= e} = upto
    OBVIOUS
  <1>2. upto \in SUBSET told /\ upto # {}
    OBVIOUS
  <1> HIDE DEF upto
  <1>3. IsFiniteSet(upto) /\ Cardinality(upto) <= Cardinality(told)
    BY <1>2, FS_Subset
  <1>4. Cardinality(upto) \in Nat /\ Cardinality(upto) # 0 /\ Cardinality(told) \in Nat
    BY <1>2, <1>3, FS_CardinalityType, FS_EmptySet
  <1>5. Cardinality(upto) \in 1..Cardinality(told)
    BY <1>3, <1>4
  <1>6. Place(told, e) = Cardinality(upto) /\ Place(told \cup {p}, e) = Cardinality(upto)
    BY <1>1, Zenon DEF Place, upto
  <1> QED
    BY <1>5, <1>6, Zenon

(* The ends are finitely many, and the line up to each is a stretch of     *)
(* what was consumed.                                                      *)
LEMMA LinesAreStretches ==
  ASSUME ReaderInv, EndsInv
  PROVE  /\ Ends \in SUBSET Nat /\ Told \in SUBSET Nat
         /\ IsFiniteSet(Told)
         /\ \A e \in Ends : /\ LastBefore(Ends, e) \in Nat
                            /\ LastBefore(Ends, e) <= e
                            /\ e <= Len(input)
  <1>1. start \in Nat /\ start <= Len(input)
    BY DEF ReaderInv, TypeOK, Aligned
  <1>2. Ends \in SUBSET Nat /\ Told \in SUBSET Nat /\ Told \in SUBSET (1..start)
    BY <1>1 DEF EndsInv, Told
  <1>3. IsFiniteSet(Told)
    <2>1. IsFiniteSet(1..start)
      BY <1>1, FS_Interval
    <2> QED
      BY <1>2, <2>1, FS_Subset
  <1>4. ASSUME NEW e \in Ends
        PROVE  /\ LastBefore(Ends, e) \in Nat
               /\ LastBefore(Ends, e) <= e
               /\ e <= Len(input)
    <2>1. PICK d \in Before(Ends, e) : \A c \in Before(Ends, e) : c <= d
      BY DEF EndsInv
    <2>2. e \in Nat /\ e <= start
      BY DEF EndsInv
    <2>3. LastBefore(Ends, e) = d
      BY <1>2, <2>1, <2>2, LastBeforeIs
    <2>4. d \in Nat /\ d <= e
      BY <1>2, <2>2 DEF Before
    <2> QED
      BY <1>1, <2>2, <2>3, <2>4
  <1> QED
    BY <1>2, <1>3, <1>4

(* Where no record ends and nothing is told, the lines stay as they are.   *)
LEMMA SameLines ==
  ASSUME LinesInv, ReaderInv', Ends' = Ends, start' = start, records' = records,
         \A e \in Ends : LineTo(e)' = LineTo(e)
  PROVE  LinesInv'
  <1>1. EndsInv'
    BY Zenon DEF LinesInv, EndsInv
  <1>2. Told' = Told
    <2>1. \A e \in Ends : Good(e)' <=> Good(e)
      BY DEF Good
    <2> QED
      BY <2>1 DEF Told
  <1>3. YieldsTheLines'
    <2>1. /\ Len(records) = Cardinality(Told)
          /\ \A e \in Told : records[Cardinality({d \in Told : d <= e})] = LineTo(e)
      BY Zenon DEF LinesInv, YieldsTheLines, Told
    <2>2. \A e \in Told : LineTo(e)' = LineTo(e)
      BY DEF Told
    <2>3. /\ Len(records') = Cardinality(Told')
          /\ \A e \in Told' : records'[Cardinality({d \in Told' : d <= e})] = LineTo(e)'
      BY <1>2, <2>1, <2>2, Zenon
    <2> QED
      BY <2>3, Zenon DEF YieldsTheLines, Told
  <1> QED
    BY <1>1, <1>3 DEF LinesInv

LEMMA InitLines == Init => LinesInv
  <1> SUFFICES ASSUME Init PROVE LinesInv
    OBVIOUS
  <1>1. Ends = {}
    BY DEF Init, Ends
  <1>2. EndsInv
    BY <1>1 DEF Init, EndsInv
  <1>3. YieldsTheLines
    <2>1. Told = {} /\ Len(records) = 0
      BY <1>1 DEF Told, Init
    <2>2. Cardinality(Told) = 0
      BY <2>1, FS_EmptySet
    <2> QED
      BY <2>1, <2>2 DEF YieldsTheLines, Told
  <1> QED
    BY <1>2, <1>3, InitAligned DEF LinesInv

(* The host's writing changes no line that was consumed.                   *)
LEMMA AppendLines ==
  ASSUME LinesInv, Append1
  PROVE  LinesInv'
  <1>1. PICK b \in Bytes : input' = Append(input, b)
    BY DEF Append1
  <1>2. UNCHANGED <<pos, buf, over, got, records, status, start, cuts>>
    BY DEF Append1
  <1>3. /\ input \in Seq(Bytes) /\ pos \in Nat /\ pos <= Len(input) /\ Len(input) \in Nat
    BY DEF LinesInv, ReaderInv, TypeOK, Aligned
  <1>4. \A i \in 1..Len(input) : input'[i] = input[i]
    BY <1>1, <1>3, AppendKeeps
  <1>5. Ends' = Ends
    BY <1>2, <1>3, <1>4 DEF Ends
  <1>6. ASSUME NEW e \in Ends
        PROVE  LineTo(e)' = LineTo(e)
    <2> DEFINE a == LastBefore(Ends, e)
    <2>1. a \in Nat /\ a <= e /\ e <= Len(input) /\ e \in Nat
      BY LinesAreStretches DEF LinesInv
    <2>2. LineTo(e)' = SubSeq(input', a + 1, e) /\ LineTo(e) = SubSeq(input, a + 1, e)
      BY <1>5 DEF LineTo
    <2> HIDE DEF a
    <2>3. SubSeq(Append(input, b), a + 1, e) = SubSeq(input, a + 1, e)
      BY <1>3, <2>1, AppendKeeps
    <2> QED
      BY <1>1, <2>2, <2>3
  <1>7. ReaderInv'
    BY AppendAligned DEF LinesInv
  <1> QED
    BY <1>2, <1>5, <1>6, <1>7, SameLines

(* A record that ends adds its line, if that can be told, to the others.   *)
LEMMA EndedLine ==
  ASSUME LinesInv, ReaderInv', NEW long \in BOOLEAN, NEW text, EndRecord(text, long),
         input' = input, NEW p \in Nat, pos' = p, start < p, p <= Len(input),
         Ends' = Ends \cup {p},
         long <=> p - start > Cap,
         ~long => text = SubSeq(input, start + 1, p)
  PROVE  LinesInv'
  <1>1. /\ ReaderInv /\ EndsInv /\ start \in Nat /\ input \in Seq(Bytes) /\ Cap \in Nat
        /\ records \in Seq(Seq(Bytes))
    BY LineReaderAssumption DEF LinesInv, ReaderInv, TypeOK
  <1>2. /\ Ends \in SUBSET Nat /\ Told \in SUBSET Nat /\ IsFiniteSet(Told)
        /\ \A e \in Ends : e <= start /\ e < p
    BY <1>1, LinesAreStretches DEF EndsInv
  <1>3. start' = p
    BY DEF EndRecord
  <1>4. \A e \in Ends : Before(Ends \cup {p}, e) = Before(Ends, e)
    <2> SUFFICES ASSUME NEW e \in Ends PROVE Before(Ends \cup {p}, e) = Before(Ends, e)
      OBVIOUS
    <2>1. ~(p < e)
      BY <1>2
    <2> QED
      BY <2>1 DEF Before
  <1>5. Before(Ends \cup {p}, p) = {0} \cup Ends
    <2>1. ~(p < p) /\ \A e \in Ends : e < p
      BY <1>2
    <2> QED
      BY <2>1, Zenon DEF Before
  <1>6. start \in {0} \cup Ends /\ \A c \in {0} \cup Ends : c <= start
    BY <1>1, <1>2 DEF EndsInv
  <1>7. EndsInv'
    <2>1. \A e \in Ends \cup {p} : e \in Nat /\ 0 < e /\ e <= p
      BY <1>1, <1>2 DEF EndsInv
    <2>2. \A e \in Ends \cup {p} : \E d \in Before(Ends \cup {p}, e) :
             \A c \in Before(Ends \cup {p}, e) : c <= d
      <3>1. \A e \in Ends : \E d \in Before(Ends, e) : \A c \in Before(Ends, e) : c <= d
        BY <1>1 DEF EndsInv
      <3>2. ASSUME NEW e \in Ends
            PROVE  \E d \in Before(Ends \cup {p}, e) : \A c \in Before(Ends \cup {p}, e) : c <= d
        BY <1>4, <3>1, Zenon
      <3>3. \E d \in Before(Ends \cup {p}, p) : \A c \in Before(Ends \cup {p}, p) : c <= d
        BY <1>5, <1>6, Zenon
      <3> QED
        BY <3>2, <3>3, Zenon
    <2>3. p \in Ends \cup {p}
      OBVIOUS
    <2> QED
      BY <1>3, <2>1, <2>2, <2>3, Zenon DEF EndsInv
  <1>8. LineTo(p)' = SubSeq(input, start + 1, p)
    <2>1. LastBefore(Ends \cup {p}, p) = start
      BY <1>2, <1>5, <1>6, LastBeforeIs
    <2> QED
      BY <2>1 DEF LineTo
  <1>9. ASSUME NEW e \in Ends PROVE LineTo(e)' = LineTo(e)
    <2>1. LastBefore(Ends \cup {p}, e) = LastBefore(Ends, e)
      BY <1>4, Zenon DEF LastBefore, Before
    <2> QED
      BY <2>1 DEF LineTo
  <1>10. Good(p)' <=> ~long /\ Utf8(text)
    <2>1. Len(SubSeq(input, start + 1, p)) = p - start
      BY <1>1, Stretch
    <2>2. ~long => (Good(p)' <=> Utf8(text))
      <3>1. Good(p)' <=> Len(SubSeq(input, start + 1, p)) <= Cap /\ Utf8(SubSeq(input, start + 1, p))
        BY <1>8, Zenon DEF Good
      <3>2. ~long => Len(SubSeq(input, start + 1, p)) <= Cap
        BY <1>1, <2>1
      <3>3. ~long => text = SubSeq(input, start + 1, p)
        OBVIOUS
      <3> QED
        BY <3>1, <3>2, <3>3, Zenon
    <2>3. long => ~Good(p)'
      BY <1>1, <1>8, <2>1 DEF Good
    <2> QED
      BY <2>2, <2>3
  <1>11. \A e \in Ends : Good(e)' <=> Good(e)
    BY <1>9 DEF Good
  <1>12. p \notin Ends
    BY <1>2
  <1>13. /\ Len(records) = Cardinality(Told)
         /\ \A e \in Told : records[Place(Told, e)] = LineTo(e)
    BY Zenon DEF LinesInv, YieldsTheLines, Told, Place
  <1>14. CASE Good(p)'
    <2>1. Told' = Told \cup {p}
      BY <1>11, <1>14 DEF Told
    <2>2. text = SubSeq(input, start + 1, p) /\ records' = Append(records, text)
      BY <1>10, <1>14 DEF EndRecord, Yield
    <2>3. text \in Seq(Bytes)
      BY <1>1, <2>2, Stretch
    <2>4. \A d \in Told : d < p
      BY <1>2 DEF Told
    <2>5. /\ Len(records') = Cardinality(Told')
          /\ records'[Place(Told', p)] = text
          /\ \A e \in Told : records'[Place(Told', e)] = records[Place(Told, e)]
      <3>1. Len(records) = Cardinality(Told) /\ records \in Seq(Seq(Bytes))
        BY <1>1, <1>13
      <3>2. Cardinality(Told') = Len(records) + 1
        <4>1. p \notin Told
          BY <2>4
        <4>2. Cardinality(Told \cup {p}) = Cardinality(Told) + 1
          BY <1>2, <4>1, FS_AddElement
        <4> QED
          BY <2>1, <3>1, <4>2
      <3>3. /\ Len(records') = Len(records) + 1
            /\ records'[Len(records) + 1] = text
            /\ \A i \in 1..Len(records) : records'[i] = records[i]
        BY <2>2, <2>3, <3>1
      <3>4. Place(Told', p) = Cardinality(Told')
        BY <1>2, <2>1, <2>4, LastPlace, Zenon
      <3>5. ASSUME NEW e \in Told
            PROVE  Place(Told', e) = Place(Told, e) /\ Place(Told, e) \in 1..Len(records)
        BY <1>2, <2>1, <2>4, <3>1, SamePlace, Zenon
      <3> QED
        BY <3>2, <3>3, <3>4, <3>5, Zenon
    <2>6. \A e \in Told : LineTo(e)' = LineTo(e)
      BY <1>9 DEF Told
    <2>7. \A e \in Told' : records'[Place(Told', e)] = LineTo(e)'
      <3>1. ASSUME NEW e \in Told
            PROVE  records'[Place(Told', e)] = LineTo(e)'
        BY <1>13, <2>5, <2>6, Zenon
      <3>2. records'[Place(Told', p)] = LineTo(p)'
        BY <1>8, <2>2, <2>5, Zenon
      <3> QED
        BY <2>1, <3>1, <3>2, Zenon
    <2>8. YieldsTheLines'
      BY <2>5, <2>7, Zenon DEF YieldsTheLines, Told, Place
    <2> QED
      BY <1>7, <2>8 DEF LinesInv
  <1>15. CASE ~Good(p)'
    <2>1. Told' = Told
      BY <1>11, <1>15 DEF Told
    <2>2. records' = records
      BY <1>10, <1>15 DEF EndRecord, Yield
    <2>3. \A e \in Told : LineTo(e)' = LineTo(e)
      BY <1>9 DEF Told
    <2>4. /\ Len(records') = Cardinality(Told')
          /\ \A e \in Told' : records'[Place(Told', e)] = LineTo(e)'
      BY <1>13, <2>1, <2>2, <2>3, Zenon
    <2>5. YieldsTheLines'
      BY <2>4, Zenon DEF YieldsTheLines, Told, Place
    <2> QED
      BY <1>7, <2>5 DEF LinesInv
  <1> QED
    BY <1>14, <1>15

LEMMA ReadChunkLines ==
  ASSUME LinesInv, NEW n \in 1..(Len(input) - pos), NEW t \in Take(n), ReadChunk(t)
  PROVE  LinesInv'
  <1> DEFINE text == IF TooLong(t) THEN <<>> ELSE buf \o SubSeq(input, pos + 1, pos + t)
  <1>1. ReaderInv /\ ReaderInv'
    BY ReadChunkAligned DEF LinesInv
  <1>2. /\ t \in Nat \ {0} /\ pos + t <= Len(input)
        /\ TooLong(t) <=> pos + t - start > Cap
        /\ ~TooLong(t) => text = SubSeq(input, start + 1, pos + t)
        /\ \A i \in (start + 1)..(pos + t - 1) : input[i] # Newline
    BY <1>1, TakenRecord
  <1>3. /\ pos \in Nat /\ start \in Nat /\ start <= pos
        /\ TooLong(t) \in BOOLEAN
    BY <1>1 DEF ReaderInv, TypeOK, Aligned, TooLong
  <1>4. pos' = pos + t /\ input' = input /\ cuts' = cuts
    BY DEF ReadChunk
  <1> HIDE DEF text
  <1>5. CASE input[pos + t] = Newline
    <2>1. EndRecord(text, TooLong(t))
      BY <1>5 DEF ReadChunk, text
    <2>2. Ends' = Ends \cup {pos + t}
      <3>1. \A i \in 1..(pos + t) : input[i] = Newline <=> i = pos + t \/ (i \in 1..pos /\ input[i] = Newline)
        BY <1>2, <1>3, <1>5
      <3>2. {i \in 1..(pos + t) : input[i] = Newline} = {i \in 1..pos : input[i] = Newline} \cup {pos + t}
        BY <1>2, <1>3, <3>1
      <3> QED
        BY <1>4, <3>2 DEF Ends
    <2>3. pos + t \in Nat /\ start < pos + t
      BY <1>2, <1>3
    <2> QED
      BY <1>1, <1>2, <1>3, <1>4, <2>1, <2>2, <2>3, EndedLine
  <1>6. CASE input[pos + t] # Newline
    <2>1. records' = records /\ start' = start
      BY <1>6 DEF ReadChunk
    <2>2. Ends' = Ends
      <3>1. \A i \in 1..(pos + t) : input[i] = Newline <=> i \in 1..pos /\ input[i] = Newline
        BY <1>2, <1>3, <1>6
      <3>2. {i \in 1..(pos + t) : input[i] = Newline} = {i \in 1..pos : input[i] = Newline}
        BY <1>2, <1>3, <3>1
      <3> QED
        BY <1>4, <3>2 DEF Ends
    <2>3. \A e \in Ends : LineTo(e)' = LineTo(e)
      BY <1>4, <2>2 DEF LineTo
    <2> QED
      BY <1>1, <2>1, <2>2, <2>3, SameLines
  <1> QED
    BY <1>5, <1>6

LEMMA ReachEndLines ==
  ASSUME LinesInv, ReachEnd
  PROVE  LinesInv'
  <1>1. ReaderInv /\ ReaderInv'
    BY ReachEndAligned DEF LinesInv
  <1>2. /\ pos' = pos /\ input' = input /\ pos \in Nat /\ start \in Nat
        /\ pos = Len(input) /\ over \in BOOLEAN
        /\ over <=> pos - start > Cap
        /\ ~over => buf = SubSeq(input, start + 1, pos)
        /\ got <=> pos > start
    BY <1>1 DEF ReachEnd, ReaderInv, TypeOK, Aligned
  <1>3. CASE got
    <2>1. EndRecord(buf, over) /\ cuts' = cuts \cup {pos}
      BY <1>3 DEF ReachEnd
    <2>2. Ends' = Ends \cup {pos}
      BY <1>2, <2>1 DEF Ends
    <2>3. start < pos /\ pos <= Len(input)
      BY <1>2, <1>3
    <2> QED
      BY <1>1, <1>2, <2>1, <2>2, <2>3, EndedLine
  <1>4. CASE ~got
    <2>1. UNCHANGED <<records, start, cuts>>
      BY <1>4 DEF ReachEnd
    <2>2. Ends' = Ends
      BY <1>2, <2>1 DEF Ends
    <2>3. \A e \in Ends : LineTo(e)' = LineTo(e)
      BY <1>2, <2>2 DEF LineTo
    <2> QED
      BY <1>1, <2>1, <2>2, <2>3, SameLines
  <1> QED
    BY <1>3, <1>4

LEMMA StepLines == LinesInv /\ [Next]_vars => LinesInv'
  <1> SUFFICES ASSUME LinesInv, [Next]_vars PROVE LinesInv'
    OBVIOUS
  <1>1. CASE Append1
    BY <1>1, AppendLines
  <1>2. CASE ReadSome
    BY <1>2, ReadChunkLines DEF ReadSome
  <1>3. CASE ReachEnd
    BY <1>3, ReachEndLines
  <1>4. ASSUME UNCHANGED <<input, pos, records, start, cuts>>
        PROVE  LinesInv'
    <2>1. ReaderInv'
      BY StepAligned DEF LinesInv
    <2>2. Ends' = Ends
      BY <1>4 DEF Ends
    <2>3. \A e \in Ends : LineTo(e)' = LineTo(e)
      BY <1>4, <2>2 DEF LineTo
    <2> QED
      BY <1>4, <2>1, <2>2, <2>3, SameLines
  <1>5. CASE ReadError
    BY <1>4, <1>5 DEF ReadError
  <1>6. CASE UNCHANGED vars
    BY <1>4, <1>6 DEF vars
  <1> QED
    BY <1>1, <1>2, <1>3, <1>5, <1>6 DEF Next, Read, Interrupted, Stopped

(* What bounded_lines yields does not depend on how the file was cut into  *)
(* chunks: it is the lines of what was consumed, in their order, less the  *)
(* ones that are too long or not UTF-8.                                    *)
THEOREM LinesOfTheFile == Spec => []YieldsTheLines
  <1>1. LinesInv => YieldsTheLines
    BY DEF LinesInv
  <1> QED
    BY InitLines, StepLines, <1>1, PTL DEF Spec
=============================================================================

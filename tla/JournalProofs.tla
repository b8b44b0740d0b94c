---------------------------- MODULE JournalProofs ----------------------------
(***************************************************************************)
(* Theorems about Journal, for every number of captures, every length of   *)
(* the journal and of its entries, and every timestamp.                    *)
(***************************************************************************)
EXTENDS Journal, SequenceTheorems, WellFoundedInduction, TLAPS

(* Among natural numbers with a property there is a least one: what stands *)
(* for induction in the proofs below.                                      *)
LEMMA LeastNumber ==
  ASSUME NEW T \in SUBSET Nat, T # {}
  PROVE  \E m \in T : \A k \in T : ~(k < m)
  <1>1. IsWellFoundedOn({ss \in Nat \X Nat : ss[1] < ss[2]}, Nat)
    BY NatLessThanWellFounded DEF OpToRel
  <1>2. PICK m \in T : \A k \in T : ~(<<k, m>> \in {ss \in Nat \X Nat : ss[1] < ss[2]})
    BY <1>1, WFMin
  <1>3. ASSUME NEW k \in T, k < m PROVE FALSE
    <2>1. k \in Nat /\ m \in Nat
      OBVIOUS
    <2> QED
      BY <1>2, <1>3, <2>1
  <1> QED
    BY <1>3

-----------------------------------------------------------------------------
(* FlattenSeq concatenates.                                                *)

Flattens(f, s, n) ==
  \A i \in 1..n : f[i] = IF i = 1 THEN s[i] ELSE f[i - 1] \o s[i]

Flattening(s) == CHOOSE f : f = [i \in 1..Len(s) |-> IF i = 1 THEN s[i] ELSE f[i - 1] \o s[i]]

LEMMA FlattenExists ==
  ASSUME NEW X, NEW s \in Seq(Seq(X)), NEW n \in 0..Len(s)
  PROVE  \E f \in [1..n -> Seq(X)] : Flattens(f, s, n)
  <1> DEFINE T == {m \in 0..Len(s) : ~\E f \in [1..m -> Seq(X)] : Flattens(f, s, m)}
  <1>1. SUFFICES ASSUME T # {} PROVE FALSE
    OBVIOUS
  <1>2. Len(s) \in Nat /\ \A i \in 1..Len(s) : s[i] \in Seq(X)
    BY LenProperties, ElementOfSeq
  <1>3. PICK m \in T : \A k \in T : ~(k < m)
    <2>1. T \in SUBSET Nat
      BY <1>2
    <2> HIDE DEF T
    <2> QED
      BY <1>1, <2>1, LeastNumber
  <1>6. m \in 0..Len(s) /\ m \in Nat
    BY <1>2
  <1>4. CASE m = 0
    <2> DEFINE f == [i \in 1..0 |-> <<>>]
    <2>1. f \in [1..m -> Seq(X)] /\ Flattens(f, s, m)
      BY <1>4 DEF Flattens
    <2> QED
      BY <2>1
  <1>5. CASE m # 0
    <2>1. m - 1 \in 0..Len(s) /\ m \in 1..Len(s) /\ m - 1 < m
      BY <1>2, <1>5, <1>6
    <2>9. m - 1 \notin T
      <3> HIDE DEF T
      <3> QED
        BY <1>3, <2>1
    <2>2. PICK f \in [1..(m - 1) -> Seq(X)] : Flattens(f, s, m - 1)
      BY <2>1, <2>9
    <2> DEFINE g == [i \in 1..m |-> IF i = m THEN IF m = 1 THEN s[m] ELSE f[m - 1] \o s[m] ELSE f[i]]
    <2>3. g[m] \in Seq(X) /\ g[m] = IF m = 1 THEN s[m] ELSE f[m - 1] \o s[m]
      <3>1. m # 1 => f[m - 1] \in Seq(X)
        BY <1>6, <2>1
      <3>2. s[m] \in Seq(X) /\ m \in 1..m
        BY <1>2, <2>1
      <3> QED
        BY <3>1, <3>2, ConcatProperties
    <2>4. \A i \in 1..(m - 1) : g[i] = f[i] /\ f[i] \in Seq(X)
      <3>1. \A i \in 1..(m - 1) : i \in 1..m /\ i # m
        BY <1>6
      <3> QED
        BY <3>1
    <2>5. \A i \in 1..m : i = m \/ i \in 1..(m - 1)
      BY <1>6
    <2>6. DOMAIN g = 1..m /\ g = [i \in 1..m |-> g[i]]
      OBVIOUS
    <2> HIDE DEF g
    <2>7. g \in [1..m -> Seq(X)]
      BY <2>3, <2>4, <2>5, <2>6
    <2>8. ASSUME NEW i \in 1..m PROVE g[i] = IF i = 1 THEN s[i] ELSE g[i - 1] \o s[i]
      <3>1. CASE i = m
        <4>1. m # 1 => m - 1 \in 1..(m - 1)
          BY <1>6, <1>5
        <4> QED
          BY <2>3, <2>4, <3>1, <4>1
      <3>2. CASE i \in 1..(m - 1)
        <4>1. i # 1 => i - 1 \in 1..(m - 1)
          BY <1>6, <3>2
        <4> QED
          BY <2>2, <2>4, <3>2, <4>1 DEF Flattens
      <3> QED
        BY <2>5, <3>1, <3>2
    <2> QED
      BY <2>7, <2>8 DEF Flattens
  <1> QED
    BY <1>4, <1>5

LEMMA FlattenUnique ==
  ASSUME NEW n \in Nat, NEW s, NEW t, \A i \in 1..n : s[i] = t[i],
         NEW f, Flattens(f, s, n), NEW g, Flattens(g, t, n)
  PROVE  \A i \in 1..n : f[i] = g[i]
  <1> DEFINE T == {i \in 1..n : f[i] # g[i]}
  <1>1. SUFFICES ASSUME T # {} PROVE FALSE
    OBVIOUS
  <1>2. PICK m \in T : \A k \in T : ~(k < m)
    <2>1. T \in SUBSET Nat
      OBVIOUS
    <2> HIDE DEF T
    <2> QED
      BY <1>1, <2>1, LeastNumber
  <1>3. m \in 1..n /\ f[m] # g[m]
    OBVIOUS
  <1>4. m # 1 => m - 1 \in 1..n /\ f[m - 1] = g[m - 1]
    BY <1>2, <1>3
  <1> QED
    BY <1>3, <1>4 DEF Flattens

LEMMA FlattenIs ==
  ASSUME NEW X, NEW s \in Seq(Seq(X))
  PROVE  /\ Flattening(s) \in [1..Len(s) -> Seq(X)]
         /\ Flattens(Flattening(s), s, Len(s))
         /\ FlattenSeq(s) = IF Len(s) = 0 THEN s ELSE Flattening(s)[Len(s)]
  <1>1. Len(s) \in Nat
    BY LenProperties
  <1>2. PICK f \in [1..Len(s) -> Seq(X)] : Flattens(f, s, Len(s))
    BY <1>1, FlattenExists
  <1>3. f = [i \in 1..Len(s) |-> IF i = 1 THEN s[i] ELSE f[i - 1] \o s[i]]
    BY <1>2 DEF Flattens
  <1> DEFINE h == Flattening(s)
  <1>4. h = [i \in 1..Len(s) |-> IF i = 1 THEN s[i] ELSE h[i - 1] \o s[i]]
    BY <1>3 DEF Flattening
  <1> HIDE DEF h
  <1>5. Flattens(h, s, Len(s)) /\ DOMAIN h = 1..Len(s)
    BY <1>4 DEF Flattens
  <1>6. \A i \in 1..Len(s) : h[i] = f[i]
    <2>1. Flattens(f, s, Len(s)) /\ Flattens(h, s, Len(s))
      BY <1>2, <1>5
    <2> QED
      BY <1>1, <2>1, FlattenUnique
  <1>7. h \in [1..Len(s) -> Seq(X)]
    BY <1>4, <1>6
  <1>8. FlattenSeq(s) = IF Len(s) = 0 THEN s ELSE Flattening(s)[Len(s)]
    BY DEF FlattenSeq, Flattening
  <1> QED
    BY <1>5, <1>7, <1>8 DEF h

LEMMA FlattenAppend ==
  ASSUME NEW X, NEW s \in Seq(Seq(X)), NEW x \in Seq(X)
  PROVE  FlattenSeq(s) \in Seq(X) /\ FlattenSeq(Append(s, x)) = FlattenSeq(s) \o x
  <1> DEFINE a == Append(s, x)
             n == Len(s)
  <1>1. /\ a \in Seq(Seq(X)) /\ Len(a) = n + 1 /\ n \in Nat
        /\ a[n + 1] = x /\ \A i \in 1..n : a[i] = s[i]
    BY AppendProperties, LenProperties
  <1> HIDE DEF a
  <1>2. /\ Flattening(s) \in [1..n -> Seq(X)] /\ Flattens(Flattening(s), s, n)
        /\ FlattenSeq(s) = IF n = 0 THEN s ELSE Flattening(s)[n]
    BY FlattenIs
  <1>3. /\ Flattens(Flattening(a), a, n + 1)
        /\ FlattenSeq(a) = Flattening(a)[n + 1]
    BY <1>1, FlattenIs
  <1>4. \A i \in 1..n : Flattening(s)[i] = Flattening(a)[i]
    <2>1. Flattens(Flattening(a), a, n)
      BY <1>1, <1>3 DEF Flattens
    <2>2. Flattens(Flattening(s), s, n)
      BY <1>2
    <2>3. \A i \in 1..n : s[i] = a[i]
      BY <1>1
    <2>4. n \in Nat
      BY <1>1
    <2> HIDE DEF n
    <2> QED
      BY <2>1, <2>2, <2>3, <2>4, FlattenUnique
  <1>5. FlattenSeq(s) \in Seq(X)
    <2>1. CASE n = 0
      <3>1. s = <<>>
        BY <2>1, EmptySeq
      <3>2. FlattenSeq(s) = s
        BY <1>2, <2>1
      <3>3. <<>> \in Seq(X)
        BY EmptySeq
      <3> QED
        BY <3>1, <3>2, <3>3, Zenon
    <2>2. CASE n # 0
      <3>1. n \in 1..n /\ FlattenSeq(s) = Flattening(s)[n]
        BY <1>1, <1>2, <2>2
      <3> HIDE DEF n
      <3> QED
        BY <1>2, <3>1
    <2> QED
      BY <2>1, <2>2
  <1>6. Flattening(a)[n + 1] = IF n + 1 = 1 THEN x ELSE Flattening(a)[n] \o x
    BY <1>1, <1>3 DEF Flattens
  <1>7. CASE n = 0
    <2>1. s = <<>>
      BY <1>1, <1>7, EmptySeq
    <2>2. FlattenSeq(s) = <<>> /\ <<>> \o x = x
      BY <1>2, <1>7, <2>1, ConcatEmptySeq
    <2> QED
      BY <1>3, <1>5, <1>6, <1>7, <2>2 DEF a
  <1>8. CASE n # 0
    <2>1. n \in 1..n /\ FlattenSeq(s) = Flattening(s)[n] /\ n + 1 # 1
      BY <1>1, <1>2, <1>8
    <2>2. FlattenSeq(a) = Flattening(a)[n] \o x
      BY <1>3, <1>6, <2>1
    <2>3. Flattening(s)[n] = Flattening(a)[n]
      BY <1>4, <2>1
    <2>4. FlattenSeq(a) = FlattenSeq(s) \o x
      BY <2>1, <2>2, <2>3
    <2> QED
      BY <1>5, <2>4 DEF a
  <1> QED
    BY <1>7, <1>8

-----------------------------------------------------------------------------
(* The ring can always drop entries until the rest fits: at the latest     *)
(* when there are none.  It drops no more than it must.                    *)
LEMMA ShedFits ==
  ASSUME NEW S, NEW entries \in Seq(S), NEW n \in 0..Len(entries)
  PROVE  /\ Shed(entries, n) \in n..Len(entries) /\ Fits(entries, Shed(entries, n))
         /\ \A k \in n..(Shed(entries, n) - 1) : ~Fits(entries, k)
  <1> DEFINE T == {m \in n..Len(entries) : Fits(entries, m)}
  <1>1. Len(entries) \in T
    <2>1. Dropping(entries, Len(entries)) = <<>>
      BY SubSeqEmpty DEF Dropping
    <2>2. Chars(<<>>) = <<>>
      BY DEF Chars, FlattenSeq
    <2>3. RingCap \in Nat
      BY JournalAssumption DEF RingCap
    <2>4. Fits(entries, Len(entries))
      BY <2>1, <2>2, <2>3 DEF Fits
    <2> QED
      BY <2>4
  <1>2. T \in SUBSET Nat
    OBVIOUS
  <1>3. PICK m \in T : \A k \in T : ~(k < m)
    <2> HIDE DEF T
    <2> QED
      BY <1>1, <1>2, LeastNumber
  <1>4. m \in n..Len(entries) /\ Fits(entries, m)
    OBVIOUS
  <1>5. ASSUME NEW k \in n..(m - 1) PROVE ~Fits(entries, k)
    BY <1>3, <1>4
  <1> QED
    BY <1>4, <1>5 DEF Shed

-----------------------------------------------------------------------------
(* What rows and windows promise, of a journal j and its torn records t.   *)

(* The two exceptions the code cannot see.                                 *)
Excused(i, j, t) == i \in t \/ \E k \in 1..(i - 1) : j[k].stamp >= j[i].stamp

(* A later record went back in time.                                       *)
Receded(i, j) == \E k \in (i + 1)..Len(j) : j[k].stamp \in 1..(j[i].stamp - 1)

(* The boundary of a row is the timestamp of a record or the one a handoff *)
(* brought along, all the text between the two went into a window the row  *)
(* goes back to or is excused, and what did lies up to the boundary unless *)
(* time went back.                                                         *)
Windowed(r) == r.memory \cup r.cut

Sound(r, j, t) ==
  /\ r.boundary = r.inherited \/ \E i \in DOMAIN j : j[i].stamp = r.boundary
  /\ Windowed(r) \subseteq DOMAIN j
  /\ \A i \in DOMAIN j :
       j[i].size > 0 /\ j[i].stamp > r.inherited /\ j[i].stamp <= r.boundary
         => i \in Windowed(r) \/ Excused(i, j, t)
  /\ \A i \in Windowed(r) : j[i].stamp <= r.boundary \/ Receded(i, j)

(* A window of the records that were read, after the boundary b, has all   *)
(* the text but what was torn, and nothing else.                           *)
Whole(told, b, read, end, j, t) ==
  /\ \A i \in 1..read : j[i].size > 0 /\ j[i].stamp > b => i \in told \cup t
  /\ end # 0 => end > b /\ \E i \in 1..read : j[i].stamp = end
  /\ \A i \in told : /\ i \in 1..read /\ j[i].stamp > b
                     /\ j[i].stamp <= end \/ Receded(i, j)

Window(s) ==
  /\ half[s] => pos[s] + 1 \in torn
  /\ Whole(Seen(s), prior[s].boundary, pos[s], last[s], journal, torn)
  /\ seen[s] # <<>> => last[s] # 0
  /\ pc[s] = "extract" => seen[s] # <<>>
  /\ pc[s] = "idle" => pos[s] = 0 /\ ~half[s] /\ last[s] = 0 /\ seen[s] = <<>>
  /\ prior[s] \in Rows => Sound(prior[s], journal, torn)

(* A record without a timestamp has no text, and shed is a function.       *)
Shape ==
  /\ shed \in [Captures -> Nat]
  /\ \A i \in DOMAIN journal : journal[i].stamp = 0 => journal[i].size = 0

JournalInv ==
  /\ TypeOK
  /\ Shape
  /\ row \in Rows => Sound(row, journal, torn)
  /\ \A s \in Captures : Window(s)

-----------------------------------------------------------------------------
(* The host only appends, and what is torn stays torn.                     *)
Extends(k, j) ==
  /\ j \in Seq(Records) /\ k \in Seq(Records)
  /\ Len(j) <= Len(k)
  /\ \A i \in 1..Len(j) : k[i] = j[i]

LEMMA RecordFields ==
  ASSUME NEW j \in Seq(Records)
  PROVE  /\ Len(j) \in Nat /\ DOMAIN j = 1..Len(j)
         /\ \A i \in 1..Len(j) : j[i].stamp \in Nat /\ j[i].size \in Nat
  <1>1. \A r \in Records : r.stamp \in Nat /\ r.size \in Nat
    BY DEF Records, Stamps
  <1>2. \A i \in 1..Len(j) : j[i] \in Records
    BY ElementOfSeq
  <1> QED
    BY <1>1, <1>2, LenProperties

(* A row stays sound while the journal grows: what is appended either lies *)
(* after its boundary or has a timestamp that is not later than an earlier *)
(* record's.                                                               *)
LEMMA SoundStays ==
  ASSUME NEW j, NEW k, Extends(k, j), NEW t, NEW u, t \subseteq u,
         NEW r \in Rows, Sound(r, j, t)
  PROVE  Sound(r, k, u)
  <1>1. /\ Len(j) \in Nat /\ Len(k) \in Nat /\ DOMAIN j = 1..Len(j) /\ DOMAIN k = 1..Len(k)
        /\ \A i \in 1..Len(k) : k[i].stamp \in Nat /\ k[i].size \in Nat
    BY RecordFields DEF Extends
  <1>2. r.boundary \in Nat /\ r.inherited \in Nat
    BY JournalAssumption DEF Rows, Stamps
  <1>3. \A i \in 1..Len(j) : k[i] = j[i]
    BY DEF Extends
  <1>4. Len(j) <= Len(k)
    BY DEF Extends
  <1>6. ASSUME NEW i \in 1..Len(k), k[i].size > 0, k[i].stamp > r.inherited,
               k[i].stamp <= r.boundary
        PROVE  i \in Windowed(r) \/ Excused(i, k, u)
    <2>1. CASE i \in 1..Len(j)
      <3>1. i \in Windowed(r) \/ Excused(i, j, t)
        BY <1>1, <1>3, <1>6, <2>1 DEF Sound
      <3> QED
        BY <1>1, <1>3, <2>1, <3>1 DEF Excused
    <2>2. CASE i \notin 1..Len(j)
      <3>1. r.boundary # r.inherited
        BY <1>1, <1>2, <1>6
      <3>2. PICK b \in 1..Len(j) : j[b].stamp = r.boundary
        BY <1>1, <3>1 DEF Sound
      <3>3. b \in 1..(i - 1) /\ k[b].stamp >= k[i].stamp
        BY <1>1, <1>2, <1>3, <1>6, <2>2, <3>2
      <3> QED
        BY <3>3 DEF Excused
    <2> QED
      BY <2>1, <2>2
  <1>7. ASSUME NEW i \in Windowed(r)
        PROVE  k[i].stamp <= r.boundary \/ Receded(i, k)
    <2>1. i \in 1..Len(j) /\ (j[i].stamp <= r.boundary \/ Receded(i, j))
      BY <1>1 DEF Sound
    <2> QED
      BY <1>1, <1>3, <1>4, <2>1 DEF Receded
  <1>8. /\ Windowed(r) \subseteq 1..Len(k)
        /\ r.boundary = r.inherited \/ \E i \in 1..Len(k) : k[i].stamp = r.boundary
    BY <1>1, <1>3, <1>4 DEF Sound
  <1> QED
    BY <1>1, <1>6, <1>7, <1>8 DEF Sound

(* So does a window, of the part of the journal that was read.             *)
LEMMA WholeStays ==
  ASSUME NEW j, NEW k, Extends(k, j), NEW t, NEW u, t \subseteq u,
         NEW told, NEW b \in Nat, NEW read \in 0..Len(j), NEW end \in Nat,
         Whole(told, b, read, end, j, t)
  PROVE  Whole(told, b, read, end, k, u)
  <1>1. /\ Len(j) \in Nat /\ Len(k) \in Nat /\ Len(j) <= Len(k)
        /\ \A i \in 1..read : k[i] = j[i]
    BY DEF Extends
  <1>2. \A i \in told : i \in 1..read /\ (Receded(i, j) => Receded(i, k))
    BY <1>1 DEF Whole, Receded, Extends
  <1> QED
    BY <1>1, <1>2 DEF Whole

(* A row made of a whole window and the sound row it carries on from is    *)
(* sound: what the window skipped and the row remembers lies in order.     *)
LEMMA SaveIsSound ==
  ASSUME NEW j \in Seq(Records), NEW t, NEW p \in Rows \cup {Nothing}, p \in Rows => Sound(p, j, t),
         \A i \in DOMAIN j : j[i].stamp = 0 => j[i].size = 0,
         NEW told, NEW read \in 0..Len(j), NEW end \in Stamps,
         Whole(told, p.boundary, read, end, j, t),
         NEW r \in Rows, Windowed(r) = Windowed(p) \cup told,
         r.inherited = p.inherited, r.boundary = end
  PROVE  Sound(r, j, t)
  <1>1. /\ Len(j) \in Nat /\ DOMAIN j = 1..Len(j)
        /\ \A i \in 1..Len(j) : j[i].stamp \in Nat /\ j[i].size \in Nat
        /\ end \in Nat /\ end # 0
    BY RecordFields DEF Stamps
  <1>2. p.boundary \in Nat /\ end > p.boundary
    BY <1>1, JournalAssumption DEF Rows, Nothing, Stamps, Whole
  <1>3. \E i \in 1..Len(j) : j[i].stamp = end
    BY <1>1 DEF Whole
  <1>4. Windowed(p) \subseteq 1..Len(j) /\ told \subseteq 1..Len(j)
    BY <1>1 DEF Sound, Nothing, Whole, Windowed
  <1>5. ASSUME NEW i \in 1..Len(j), j[i].size > 0, j[i].stamp > p.inherited, j[i].stamp <= end
        PROVE  i \in Windowed(p) \cup told \/ Excused(i, j, t)
    <2>1. CASE j[i].stamp <= p.boundary
      <3>1. p \in Rows
        BY <1>1, <1>5, <2>1 DEF Nothing
      <3> QED
        BY <1>1, <1>5, <2>1, <3>1 DEF Sound
    <2>2. CASE j[i].stamp > p.boundary /\ i <= read
      BY <1>1, <1>5, <2>2 DEF Whole, Excused
    <2>3. CASE i > read
      <3>1. PICK k \in 1..read : j[k].stamp = end
        BY <1>1 DEF Whole
      <3> QED
        BY <1>1, <1>5, <2>3, <3>1 DEF Excused
    <2> QED
      BY <1>1, <1>2, <2>1, <2>2, <2>3
  <1>6. ASSUME NEW i \in Windowed(p) \cup told
        PROVE  j[i].stamp <= end \/ Receded(i, j)
    <2>1. CASE i \in told
      BY <2>1 DEF Whole
    <2>2. CASE i \in Windowed(p)
      <3>1. p \in Rows
        BY <2>2 DEF Nothing, Windowed
      <3>2. j[i].stamp <= p.boundary \/ Receded(i, j)
        BY <2>2, <3>1 DEF Sound
      <3> QED
        BY <1>1, <1>2, <1>4, <2>2, <3>2
    <2> QED
      BY <1>6, <2>1, <2>2
  <1> QED
    BY <1>1, <1>3, <1>4, <1>5, <1>6 DEF Sound

(* One more record is read: it is told, it has nothing to tell, or it is   *)
(* passed over because it is torn, unusable or not after the boundary.     *)
LEMMA WholeIncludes ==
  ASSUME NEW j \in Seq(Records), NEW t, NEW told, NEW b \in Nat, NEW read \in Nat, NEW end \in Nat,
         read + 1 <= Len(j), Whole(told, b, read, end, j, t),
         j[read + 1].stamp # 0, j[read + 1].stamp > b,
         NEW more, more = told \cup {read + 1} \/ (more = told /\ j[read + 1].size = 0)
  PROVE  Whole(more, b, read + 1, j[read + 1].stamp, j, t)
  <1> DEFINE n == read + 1
  <1>1. /\ Len(j) \in Nat /\ n \in 1..Len(j) /\ n \in Nat /\ DOMAIN j = 1..Len(j)
        /\ \A i \in 1..Len(j) : j[i].stamp \in Nat /\ j[i].size \in Nat
    BY RecordFields
  <1>2. \A i \in 1..n : i \in 1..read \/ i = n
    BY <1>1
  <1>3. ASSUME NEW i \in 1..n, j[i].size > 0, j[i].stamp > b PROVE i \in more \cup t
    <2>1. CASE i = n
      BY <1>1, <1>3, <2>1
    <2>2. CASE i \in 1..read
      BY <1>3, <2>2 DEF Whole
    <2> QED
      BY <1>2, <2>1, <2>2
  <1>4. ASSUME NEW i \in more
        PROVE  i \in 1..n /\ j[i].stamp > b /\ (j[i].stamp <= j[n].stamp \/ Receded(i, j))
    <2>1. CASE i = n
      BY <1>1, <2>1
    <2>2. CASE i # n
      <3>1. i \in told
        BY <2>2
      <3>2. i \in 1..read /\ j[i].stamp > b
        BY <3>1 DEF Whole
      <3>3. i \in 1..Len(j)
        BY <1>1, <3>2
      <3>4. j[i].stamp > j[n].stamp => Receded(i, j)
        BY <1>1, <3>2, <3>3 DEF Receded
      <3> QED
        BY <1>1, <3>2, <3>3, <3>4
    <2> QED
      BY <2>1, <2>2
  <1> QED
    BY <1>1, <1>3, <1>4 DEF Whole

LEMMA WholePasses ==
  ASSUME NEW j \in Seq(Records), NEW t, NEW told, NEW b \in Nat, NEW read \in Nat, NEW end \in Nat,
         read + 1 <= Len(j), Whole(told, b, read, end, j, t),
         \A i \in DOMAIN j : j[i].stamp = 0 => j[i].size = 0,
         read + 1 \in t \/ j[read + 1].stamp = 0 \/ ~(j[read + 1].stamp > b)
  PROVE  Whole(told, b, read + 1, end, j, t)
  <1>1. /\ Len(j) \in Nat /\ read + 1 \in 1..Len(j) /\ DOMAIN j = 1..Len(j)
        /\ \A i \in 1..Len(j) : j[i].stamp \in Nat /\ j[i].size \in Nat
    BY RecordFields
  <1>2. \A i \in 1..(read + 1) : i \in 1..read \/ i = read + 1
    BY <1>1
  <1> QED
    BY <1>1, <1>2 DEF Whole

-----------------------------------------------------------------------------
(* What a step leaves alone stays as it was.                               *)

USE DEF Goto, host, reader

LEMMA Bounds ==
  ASSUME TypeOK, NEW s \in Captures
  PROVE  /\ journal \in Seq(Records) /\ pos[s] \in 0..Len(journal) /\ pos[s] \in Nat
         /\ prior[s] \in Rows \cup {Nothing} /\ prior[s].boundary \in Nat
         /\ last[s] \in Nat /\ last[s] \in {0} \cup Stamps
  <1>1. /\ journal \in Seq(Records) /\ pos[s] \in 0..Len(journal)
        /\ prior[s] \in Rows \cup {Nothing} /\ last[s] \in {0} \cup Stamps
    BY DEF TypeOK
  <1>2. \A r \in Rows \cup {Nothing} : r.boundary \in Nat
    BY DEF Rows, Nothing, Stamps
  <1> QED
    BY <1>1, <1>2, RecordFields DEF Stamps

LEMMA WindowStays ==
  ASSUME TypeOK, Extends(journal', journal), torn \subseteq torn',
         NEW s \in Captures, Window(s),
         pc'[s] = pc[s], prior'[s] = prior[s], pos'[s] = pos[s], half'[s] = half[s],
         last'[s] = last[s], seen'[s] = seen[s]
  PROVE  Window(s)'
  <1>1. Whole(Seen(s), prior[s].boundary, pos[s], last[s], journal', torn')
    BY WholeStays, Bounds DEF Window
  <1>2. prior[s] \in Rows => Sound(prior[s], journal', torn')
    BY SoundStays DEF Window
  <1>3. Seen(s)' = Seen(s)
    BY DEF Seen
  <1> QED
    BY <1>1, <1>2, <1>3 DEF Window

LEMMA RowStays ==
  ASSUME Extends(journal', journal), torn \subseteq torn', row' = row,
         row \in Rows => Sound(row, journal, torn)
  PROVE  row' \in Rows => Sound(row', journal', torn')
  BY SoundStays

LEMMA SameJournal ==
  ASSUME TypeOK
  PROVE  Extends(journal, journal)
  BY RecordFields DEF TypeOK, Extends

-----------------------------------------------------------------------------
(* The host.                                                               *)

LEMMA AppendKeeps ==
  ASSUME JournalInv, AppendRecord
  PROVE  JournalInv'
  <1>1. PICK r \in Records : (r.stamp = 0 => r.size = 0) /\ journal' = Append(journal, r)
    BY DEF AppendRecord
  <1>2. /\ journal \in Seq(Records) /\ Len(journal) < MaxRecords
        /\ UNCHANGED <<row, handoffs, pc, prior, pos, half, last, seen, shed, torn>>
    BY DEF AppendRecord, JournalInv, TypeOK
  <1>3. /\ journal' \in Seq(Records) /\ Len(journal') = Len(journal) + 1
        /\ \A i \in 1..Len(journal) : journal'[i] = journal[i]
        /\ journal'[Len(journal) + 1] = r
    BY <1>1, <1>2, AppendProperties
  <1>4. /\ Len(journal) \in Nat /\ DOMAIN journal = 1..Len(journal)
        /\ DOMAIN journal' = 1..Len(journal')
    BY <1>2, <1>3, RecordFields
  <1>5. Extends(journal', journal)
    BY <1>2, <1>3, <1>4 DEF Extends
  <1>6. TypeOK'
    <2>1. /\ Len(journal') <= MaxRecords /\ partial' \in BOOLEAN
      BY <1>2, <1>3, <1>4, JournalAssumption DEF AppendRecord
    <2>2. pos' \in [Captures -> 0..Len(journal')]
      BY <1>2, <1>3, <1>4 DEF JournalInv, TypeOK
    <2>3. seen' \in [Captures -> Seq(DOMAIN journal')]
      <3>1. DOMAIN journal \subseteq DOMAIN journal'
        BY <1>3, <1>4
      <3>2. \A q \in Seq(DOMAIN journal) : q \in Seq(DOMAIN journal')
        BY <3>1, SeqMonotonic
      <3> QED
        BY <1>2, <3>2 DEF JournalInv, TypeOK
    <2>4. torn' \subseteq DOMAIN journal'
      BY <1>2, <1>3, <1>4 DEF JournalInv, TypeOK
    <2> QED
      BY <1>2, <1>3, <2>1, <2>2, <2>3, <2>4, Zenon DEF JournalInv, TypeOK
  <1>7. Shape'
    <2>1. shed' \in [Captures -> Nat]
      BY <1>2 DEF JournalInv, Shape
    <2>2. \A i \in DOMAIN journal' : journal'[i].stamp = 0 => journal'[i].size = 0
      BY <1>1, <1>3, <1>4 DEF JournalInv, Shape
    <2> QED
      BY <2>1, <2>2 DEF Shape
  <1>8. \A s \in Captures : Window(s)'
    BY <1>2, <1>5, WindowStays DEF JournalInv
  <1>9. row' \in Rows => Sound(row', journal', torn')
    BY <1>2, <1>5, RowStays DEF JournalInv
  <1> QED
    BY <1>6, <1>7, <1>8, <1>9 DEF JournalInv

LEMMA QuietKeeps ==
  ASSUME JournalInv, FinishRecord \/ DamageRow \/ ForgetRow \/ UNCHANGED vars
  PROVE  JournalInv'
  <1>1. /\ UNCHANGED <<journal, pc, prior, pos, half, last, seen, shed, torn>>
        /\ partial' \in BOOLEAN /\ (row' = row \/ row' = Corrupt \/ row' = NoRow)
    BY DEF FinishRecord, DamageRow, ForgetRow, vars, JournalInv, TypeOK
  <1>6. handoffs' \in 0..MaxHandoffs
    <2>1. MaxHandoffs \in Nat /\ handoffs \in 0..MaxHandoffs
      BY JournalAssumption DEF JournalInv, TypeOK
    <2>2. handoffs' = handoffs \/ (handoffs < MaxHandoffs /\ handoffs' = handoffs + 1)
      BY DEF FinishRecord, DamageRow, ForgetRow, vars
    <2> QED
      BY <2>1, <2>2
  <1>2. Extends(journal', journal)
    BY <1>1, SameJournal DEF JournalInv
  <1>3. TypeOK' /\ Shape'
    BY <1>1, <1>6 DEF JournalInv, TypeOK, Shape
  <1>4. \A s \in Captures : Window(s)'
    BY <1>1, <1>2, WindowStays DEF JournalInv
  <1>5. row' \in Rows => Sound(row', journal', torn')
    <2>1. CASE row' = row
      BY <1>1, <1>2, <2>1, RowStays DEF JournalInv
    <2>2. CASE row' \in {Corrupt, NoRow} /\ row' # row
      BY <2>2, NoRowIsARow
    <2> QED
      BY <1>1, <2>1, <2>2
  <1> QED
    BY <1>3, <1>4, <1>5 DEF JournalInv

(* A row that a handoff brought claims nothing of this journal.            *)
LEMMA ReceiveKeeps ==
  ASSUME JournalInv, ReceiveRow
  PROVE  JournalInv'
  <1>1. /\ UNCHANGED <<journal, partial, pc, prior, pos, half, last, seen, shed, torn>>
        /\ handoffs' \in 0..MaxHandoffs
    BY JournalAssumption DEF ReceiveRow, JournalInv, TypeOK
  <1>2. PICK b \in Stamps :
          row' = [memory |-> {}, cut |-> {}, inherited |-> b, boundary |-> b]
    BY DEF ReceiveRow
  <1>3. /\ row' \in Rows /\ Windowed(row') = {}
        /\ row'.inherited = b /\ row'.boundary = b /\ b \in Nat
    BY <1>2 DEF Rows, Windowed, Stamps
  <1>4. Sound(row', journal, torn)
    <2>1. \A i \in DOMAIN journal : journal[i].stamp \in Nat
      BY RecordFields DEF JournalInv, TypeOK
    <2> QED
      BY <1>3, <2>1 DEF Sound
  <1>5. Extends(journal', journal)
    BY <1>1, SameJournal DEF JournalInv
  <1>6. TypeOK' /\ Shape'
    BY <1>1, <1>3 DEF JournalInv, TypeOK, Shape
  <1>7. \A s \in Captures : Window(s)'
    BY <1>1, <1>5, WindowStays DEF JournalInv
  <1> QED
    BY <1>1, <1>4, <1>6, <1>7 DEF JournalInv

-----------------------------------------------------------------------------
(* The captures: a step of one leaves the others and, unless it saves, the *)
(* row alone.                                                              *)

Others(s) ==
  \A q \in Captures \ {s} :
    /\ pc'[q] = pc[q] /\ prior'[q] = prior[q] /\ pos'[q] = pos[q] /\ half'[q] = half[q]
    /\ last'[q] = last[q] /\ seen'[q] = seen[q]

LEMMA CaptureKeeps ==
  ASSUME JournalInv, NEW s \in Captures, UNCHANGED host, torn \subseteq torn', Others(s),
         TypeOK', Shape', Window(s)',
         row' = row \/ (row' \in Rows /\ Sound(row', journal', torn'))
  PROVE  JournalInv'
  <1>1. Extends(journal', journal)
    BY SameJournal DEF JournalInv
  <1>2. ASSUME NEW q \in Captures PROVE Window(q)'
    <2>1. CASE q = s
      BY <2>1
    <2>2. CASE q # s
      BY <1>1, <2>2, WindowStays DEF Others, JournalInv
    <2> QED
      BY <2>1, <2>2
  <1>3. row' \in Rows => Sound(row', journal', torn')
    BY <1>1, RowStays DEF JournalInv
  <1> QED
    BY <1>2, <1>3 DEF JournalInv

LEMMA LoadKeeps ==
  ASSUME JournalInv, NEW s \in Captures, LoadPrior(s)
  PROVE  JournalInv'
  <1>1. /\ UNCHANGED <<journal, partial, handoffs, row, pos, half, last, seen, shed, torn>>
        /\ pc[s] = "idle" /\ pc' = [pc EXCEPT ![s] = "read"]
        /\ prior' = [prior EXCEPT ![s] = IF row \in Rows THEN row ELSE Nothing]
    BY DEF LoadPrior
  <1>2. TypeOK' /\ Shape'
    BY <1>1 DEF JournalInv, TypeOK, Shape
  <1>3. pc'[s] = "read" /\ prior'[s] = IF row \in Rows THEN row ELSE Nothing
    BY <1>1 DEF JournalInv, TypeOK
  <1>4. Others(s)
    BY <1>1 DEF JournalInv, TypeOK, Others
  <1>5. pos[s] = 0 /\ ~half[s] /\ last[s] = 0 /\ seen[s] = <<>> /\ Seen(s) = {}
    <2>1. pos[s] = 0 /\ ~half[s] /\ last[s] = 0 /\ seen[s] = <<>>
      BY <1>1 DEF JournalInv, Window
    <2> QED
      BY <2>1 DEF Seen
  <1>6. Nothing \notin Rows
    BY DEF Nothing, Rows, Stamps
  <1>7. prior'[s] \in Rows => Sound(prior'[s], journal, torn)
    BY <1>3, <1>6 DEF JournalInv
  <1>8. Whole({}, prior'[s].boundary, 0, 0, journal, torn)
    BY DEF Whole
  <1>9. Seen(s)' = {}
    BY <1>1, <1>5 DEF Seen
  <1>10. Window(s)'
    BY <1>1, <1>3, <1>5, <1>7, <1>8, <1>9 DEF Window
  <1> QED
    BY <1>1, <1>2, <1>4, <1>10, CaptureKeeps

LEMMA HalfKeeps ==
  ASSUME JournalInv, NEW s \in Captures, ReadHalf(s)
  PROVE  JournalInv'
  <1>1. /\ UNCHANGED <<journal, partial, handoffs, row, pc, prior, pos, last, seen, shed>>
        /\ pc[s] = "read" /\ pos[s] + 1 = Len(journal)
        /\ half' = [half EXCEPT ![s] = TRUE] /\ torn' = torn \cup {Len(journal)}
    BY DEF ReadHalf
  <1>2. Len(journal) \in DOMAIN journal
    BY <1>1, Bounds, RecordFields DEF JournalInv
  <1>3. TypeOK' /\ Shape'
    BY <1>1, <1>2 DEF JournalInv, TypeOK, Shape
  <1>4. Others(s)
    BY <1>1 DEF JournalInv, TypeOK, Others
  <1>5. Window(s)'
    <2>1. Extends(journal, journal) /\ torn \subseteq torn' /\ Window(s)
      BY <1>1, SameJournal DEF JournalInv
    <2>2. Whole(Seen(s), prior[s].boundary, pos[s], last[s], journal, torn')
      BY <2>1, WholeStays, Bounds DEF Window, JournalInv
    <2>3. prior[s] \in Rows => Sound(prior[s], journal, torn')
      BY <2>1, SoundStays DEF Window
    <2>4. Seen(s)' = Seen(s)
      BY <1>1 DEF Seen
    <2> QED
      BY <1>1, <2>1, <2>2, <2>3, <2>4 DEF Window
  <1> QED
    BY <1>1, <1>3, <1>4, <1>5, CaptureKeeps

LEMMA MoveKeeps ==
  ASSUME JournalInv, NEW s \in Captures, ReachEnd(s) \/ GiveUp(s)
  PROVE  JournalInv'
  <1>1. /\ UNCHANGED <<journal, partial, handoffs, row, prior, pos, half, last, seen, shed, torn>>
        /\ \E to \in {"extract", "done"} : /\ pc' = [pc EXCEPT ![s] = to]
                                           /\ to = "extract" => seen[s] # <<>>
    BY DEF ReachEnd, GiveUp
  <1>2. /\ pc'[s] \in {"extract", "done"} /\ (pc'[s] = "extract" => seen[s] # <<>>)
        /\ pc' \in [Captures -> {"idle", "read", "extract", "done"}]
        /\ \A q \in Captures \ {s} : pc'[q] = pc[q]
    BY <1>1 DEF JournalInv, TypeOK
  <1>3. TypeOK' /\ Shape'
    BY <1>1, <1>2 DEF JournalInv, TypeOK, Shape
  <1>4. Others(s)
    BY <1>1, <1>2 DEF Others
  <1>5. Seen(s)' = Seen(s)
    BY <1>1 DEF Seen
  <1>6. Window(s)'
    BY <1>1, <1>2, <1>5 DEF JournalInv, Window
  <1> QED
    BY <1>1, <1>3, <1>4, <1>6, CaptureKeeps

LEMMA SaveKeeps ==
  ASSUME JournalInv, NEW s \in Captures, SaveRow(s)
  PROVE  JournalInv'
  <1>1. /\ UNCHANGED <<journal, partial, handoffs, prior, pos, half, last, seen, shed, torn>>
        /\ pc[s] = "extract" /\ pc' = [pc EXCEPT ![s] = "done"]
        /\ row' = [memory |-> prior[s].memory \cup Told(s),
                   cut |-> prior[s].cut \cup (Seen(s) \ Told(s)),
                   inherited |-> prior[s].inherited, boundary |-> last[s]]
    BY DEF SaveRow, Carried
  <1>2. Window(s) /\ TypeOK
    BY DEF JournalInv
  <1>3. last[s] \in Stamps
    BY <1>1, <1>2, Bounds DEF Window
  <1>4. row' \in Rows
    <2>1. Seen(s) \subseteq 1..MaxRecords
      <3>1. seen[s] \in Seq(DOMAIN journal)
        BY <1>2 DEF TypeOK
      <3>2. Seen(s) \subseteq DOMAIN journal
        BY <3>1, LenProperties, ElementOfSeq DEF Seen
      <3>3. DOMAIN journal \subseteq 1..MaxRecords
        BY <1>2, RecordFields, JournalAssumption DEF TypeOK
      <3> QED
        BY <3>2, <3>3
    <2>2. /\ prior[s].memory \subseteq 1..MaxRecords /\ prior[s].cut \subseteq 1..MaxRecords
          /\ prior[s].inherited \in {0} \cup Stamps
      BY <1>2, Bounds DEF Rows, Nothing
    <2>3. Told(s) \subseteq Seen(s)
      BY DEF Told
    <2> QED
      BY <1>1, <1>3, <2>1, <2>2, <2>3 DEF Rows
  <1>5. Sound(row', journal, torn)
    <2>1. /\ Windowed(row') = Windowed(prior[s]) \cup Seen(s)
          /\ row'.inherited = prior[s].inherited /\ row'.boundary = last[s]
      <3>1. Told(s) \subseteq Seen(s)
        BY DEF Told
      <3> QED
        BY <1>1, <3>1 DEF Windowed
    <2>2. \A i \in DOMAIN journal : journal[i].stamp = 0 => journal[i].size = 0
      BY DEF JournalInv, Shape
    <2> QED
      BY <1>2, <1>3, <1>4, <2>1, <2>2, Bounds, SaveIsSound DEF Window
  <1>6. TypeOK' /\ Shape'
    BY <1>1, <1>4 DEF JournalInv, TypeOK, Shape
  <1>7. Others(s) /\ pc'[s] = "done"
    BY <1>1, <1>2 DEF TypeOK, Others
  <1>8. Seen(s)' = Seen(s)
    BY <1>1 DEF Seen
  <1>9. Window(s)'
    BY <1>1, <1>2, <1>7, <1>8 DEF Window
  <1> QED
    BY <1>1, <1>4, <1>5, <1>6, <1>7, <1>9, CaptureKeeps

LEMMA ReadKeeps ==
  ASSUME JournalInv, NEW s \in Captures, ReadRecord(s)
  PROVE  JournalInv'
  <1> DEFINE i == pos[s] + 1
  <1>1. /\ UNCHANGED <<journal, partial, handoffs, row, pc, prior, torn>>
        /\ pc[s] = "read" /\ i <= Len(journal)
        /\ pos' = [pos EXCEPT ![s] = i] /\ half' = [half EXCEPT ![s] = FALSE]
        /\ \/ /\ journal[i].stamp # 0 /\ journal[i].stamp > prior[s].boundary
              /\ Include(s, i)
           \/ /\ half[s] \/ journal[i].stamp = 0 \/ ~(journal[i].stamp > prior[s].boundary)
              /\ UNCHANGED <<last, seen, shed>>
    BY DEF ReadRecord, After
  <1>2. Window(s) /\ TypeOK /\ Shape
    BY DEF JournalInv
  <1>3. /\ journal \in Seq(Records) /\ pos[s] \in Nat /\ i \in 1..Len(journal) /\ i \in Nat
        /\ DOMAIN journal = 1..Len(journal) /\ Len(journal) \in Nat
        /\ prior[s].boundary \in Nat /\ last[s] \in Nat
    BY <1>1, <1>2, Bounds, RecordFields
  <1>4. pos' \in [Captures -> 0..Len(journal)] /\ half' \in [Captures -> BOOLEAN]
    BY <1>1, <1>2, <1>3 DEF TypeOK
  <1>5. /\ pos'[s] = i /\ half'[s] = FALSE
        /\ \A q \in Captures \ {s} : pos'[q] = pos[q] /\ half'[q] = half[q]
    BY <1>1, <1>2 DEF TypeOK
  <1>6. CASE UNCHANGED <<last, seen, shed>>
             /\ (half[s] \/ journal[i].stamp = 0 \/ ~(journal[i].stamp > prior[s].boundary))
    <2>1. TypeOK' /\ Shape'
      BY <1>1, <1>2, <1>4, <1>6 DEF TypeOK, Shape
    <2>2. Others(s)
      BY <1>1, <1>5, <1>6 DEF Others
    <2>3. Whole(Seen(s), prior[s].boundary, i, last[s], journal, torn)
      BY <1>1, <1>2, <1>3, <1>6, WholePasses DEF Window, Shape
    <2>4. Seen(s)' = Seen(s)
      BY <1>6 DEF Seen
    <2>5. Window(s)'
      BY <1>1, <1>2, <1>5, <1>6, <2>3, <2>4 DEF Window
    <2> QED
      BY <1>1, <2>1, <2>2, <2>5, CaptureKeeps
  <1>7. CASE journal[i].stamp # 0 /\ journal[i].stamp > prior[s].boundary /\ Include(s, i)
    <2> DEFINE entries == IF journal[i].size = 0 THEN seen[s] ELSE Append(seen[s], i)
    <2>1. /\ last' = [last EXCEPT ![s] = journal[i].stamp]
          /\ seen' = [seen EXCEPT ![s] = entries]
          /\ shed' = [shed EXCEPT ![s] = Shed(entries, shed[s])]
      BY <1>7, <1>2 DEF Include, Shape
    <2>2. /\ seen[s] \in Seq(DOMAIN journal) /\ i \in DOMAIN journal
          /\ shed[s] \in 0..Len(seen[s]) /\ journal[i] \in Records
      BY <1>2, <1>3, ElementOfSeq DEF TypeOK
    <2>3. /\ entries \in Seq(DOMAIN journal) /\ Len(entries) >= Len(seen[s])
          /\ Len(seen[s]) \in Nat /\ Len(entries) \in Nat
          /\ {entries[n] : n \in DOMAIN entries} =
               IF journal[i].size = 0 THEN Seen(s) ELSE Seen(s) \cup {i}
      <3>1. CASE journal[i].size = 0
        BY <2>2, <3>1, LenProperties DEF Seen
      <3>2. CASE journal[i].size # 0
        <4>1. /\ entries \in Seq(DOMAIN journal) /\ Len(entries) = Len(seen[s]) + 1
              /\ Len(seen[s]) \in Nat /\ DOMAIN seen[s] = 1..Len(seen[s])
              /\ DOMAIN entries = 1..(Len(seen[s]) + 1)
              /\ entries[Len(seen[s]) + 1] = i
              /\ \A n \in 1..Len(seen[s]) : entries[n] = seen[s][n]
          BY <2>2, <3>2, AppendProperties, LenProperties
        <4> HIDE DEF entries, i
        <4>2. {entries[n] : n \in 1..(Len(seen[s]) + 1)} =
                {seen[s][n] : n \in 1..Len(seen[s])} \cup {i}
          BY <4>1
        <4> QED
          BY <3>2, <4>1, <4>2 DEF Seen
      <3> QED
        BY <3>1, <3>2
    <2> HIDE DEF entries
    <2>4. Shed(entries, shed[s]) \in shed[s]..Len(entries)
      BY <2>2, <2>3, ShedFits
    <2>5. /\ last'[s] = journal[i].stamp /\ seen'[s] = entries /\ shed'[s] = Shed(entries, shed[s])
          /\ \A q \in Captures \ {s} : /\ last'[q] = last[q] /\ seen'[q] = seen[q]
                                       /\ shed'[q] = shed[q]
      BY <1>2, <2>1 DEF TypeOK, Shape
    <2>6. journal[i].stamp \in Stamps
      BY <1>7, <2>2 DEF Records
    <2>7. TypeOK'
      <3>1. last' \in [Captures -> {0} \cup Stamps] /\ seen' \in [Captures -> Seq(DOMAIN journal)]
        BY <1>2, <2>1, <2>3, <2>6 DEF TypeOK
      <3>2. \A q \in Captures : shed'[q] \in 0..Len(seen'[q])
        <4>1. Shed(entries, shed[s]) \in 0..Len(entries)
          BY <2>2, <2>3, <2>4
        <4>2. \A q \in Captures \ {s} : shed[q] \in 0..Len(seen[q])
          BY <1>2 DEF TypeOK
        <4> QED
          BY <2>5, <4>1, <4>2
      <3> QED
        BY <1>1, <1>2, <1>4, <3>1, <3>2, Zenon DEF TypeOK
    <2>8. Shape'
      <3>1. shed' \in [Captures -> Nat]
        BY <1>2, <2>1, <2>2, <2>3, <2>4 DEF Shape
      <3> QED
        BY <1>1, <1>2, <3>1 DEF Shape
    <2>9. Others(s)
      BY <1>1, <1>5, <2>5 DEF Others
    <2>10. Seen(s)' = IF journal[i].size = 0 THEN Seen(s) ELSE Seen(s) \cup {i}
      BY <2>3, <2>5 DEF Seen
    <2>11. Whole(Seen(s)', prior[s].boundary, i, journal[i].stamp, journal, torn)
      <3> DEFINE more == IF journal[i].size = 0 THEN Seen(s) ELSE Seen(s) \cup {i}
      <3>1. more = Seen(s) \cup {i} \/ (more = Seen(s) /\ journal[i].size = 0)
        OBVIOUS
      <3>2. Whole(Seen(s), prior[s].boundary, pos[s], last[s], journal, torn)
        BY <1>2 DEF Window
      <3>3. Seen(s)' = more
        BY <2>10
      <3> HIDE DEF more
      <3>4. Whole(more, prior[s].boundary, pos[s] + 1, journal[pos[s] + 1].stamp, journal, torn)
        BY <1>1, <1>3, <1>7, <3>1, <3>2, WholeIncludes
      <3> QED
        BY <3>3, <3>4
    <2>12. Window(s)'
      BY <1>1, <1>2, <1>5, <1>7, <2>5, <2>11 DEF Window
    <2> QED
      BY <1>1, <2>7, <2>8, <2>9, <2>12, CaptureKeeps
  <1> QED
    BY <1>1, <1>6, <1>7

LEMMA InitInv == Init => JournalInv
  <1> SUFFICES ASSUME Init PROVE JournalInv
    OBVIOUS
  <1>1. journal = <<>> /\ row = NoRow /\ torn = {}
    BY DEF Init
  <1>2. journal \in Seq(Records) /\ Len(journal) = 0 /\ DOMAIN journal = {}
    BY <1>1
  <1>3. <<>> \in Seq(DOMAIN journal) /\ Len(<<>>) = 0
    OBVIOUS
  <1>4. TypeOK
    <2>1. Len(journal) <= MaxRecords
      <3>1. MaxRecords \in Nat
        BY JournalAssumption
      <3> QED
        BY <1>2, <3>1
    <2>6. partial \in BOOLEAN /\ row \in Rows \cup {NoRow, Corrupt}
      BY <1>1 DEF Init
    <2>7. handoffs \in 0..MaxHandoffs
      <3>1. MaxHandoffs \in Nat /\ handoffs = 0
        BY JournalAssumption DEF Init
      <3> QED
        BY <3>1
    <2>2. /\ pc \in [Captures -> {"idle", "read", "extract", "done"}]
          /\ prior \in [Captures -> Rows \cup {Nothing}]
          /\ half \in [Captures -> BOOLEAN] /\ last \in [Captures -> {0} \cup Stamps]
      BY DEF Init
    <2>3. pos \in [Captures -> 0..Len(journal)]
      BY <1>2 DEF Init
    <2>4. seen \in [Captures -> Seq(DOMAIN journal)] /\ \A s \in Captures : shed[s] \in 0..Len(seen[s])
      BY <1>3 DEF Init
    <2>5. torn \subseteq DOMAIN journal
      BY <1>1
    <2> QED
      BY <1>2, <2>1, <2>2, <2>3, <2>4, <2>5, <2>6, <2>7, Zenon DEF TypeOK
  <1>5. Shape
    BY <1>2 DEF Init, Shape
  <1>6. ASSUME NEW s \in Captures PROVE Window(s)
    <2>1. /\ pc[s] = "idle" /\ prior[s] = Nothing /\ pos[s] = 0 /\ half[s] = FALSE
          /\ last[s] = 0 /\ seen[s] = <<>>
      BY DEF Init
    <2>2. Nothing \notin Rows
      BY DEF Nothing, Rows, Stamps
    <2>3. Seen(s) = {}
      BY <2>1 DEF Seen
    <2>4. Whole({}, 0, 0, 0, journal, torn)
      BY DEF Whole
    <2> QED
      BY <2>1, <2>2, <2>3, <2>4 DEF Window, Nothing
  <1> QED
    BY <1>1, <1>4, <1>5, <1>6, NoRowIsARow DEF JournalInv

LEMMA Inductive == JournalInv /\ [Next]_vars => JournalInv'
  <1> SUFFICES ASSUME JournalInv, [Next]_vars PROVE JournalInv'
    OBVIOUS
  <1>1. CASE AppendRecord
    BY <1>1, AppendKeeps
  <1>2. CASE FinishRecord \/ DamageRow \/ ForgetRow \/ UNCHANGED vars
    BY <1>2, QuietKeeps
  <1>4. CASE ReceiveRow
    BY <1>4, ReceiveKeeps
  <1>3. ASSUME NEW s \in Captures, Step(s) PROVE JournalInv'
    BY <1>3, LoadKeeps, ReadKeeps, HalfKeeps, MoveKeeps, SaveKeeps DEF Step
  <1> QED
    BY <1>1, <1>2, <1>3, <1>4 DEF Next, Finished

LEMMA JournalInvariant == Spec => []JournalInv
  BY InitInv, Inductive, PTL DEF Spec

-----------------------------------------------------------------------------
(* The state has its types; the ring always finds how much to drop.        *)
THEOREM TypeCorrect == Spec => []TypeOK
  <1>1. JournalInv => TypeOK
    BY DEF JournalInv
  <1> QED
    BY <1>1, JournalInvariant, PTL

(* However captures overlap, fail or lose their row to damage or to a      *)
(* handoff, every record with text between the boundary a handoff brought  *)
(* along, if one did, and the boundary of the row was read whole by an     *)
(* extraction the row goes back to or did not fit its window, but for the  *)
(* two kinds the code cannot see.                                          *)
THEOREM RowSkipsNothing == Spec => []NothingSkipped
  <1>1. ASSUME JournalInv, row \in Rows, NEW i \in DOMAIN journal, journal[i].size > 0,
               journal[i].stamp \in (row.inherited + 1)..row.boundary
        PROVE  i \in row.memory \cup row.cut \/ Excused(i, journal, torn)
    <2>1. row.inherited \in Nat /\ row.boundary \in Nat /\ journal[i].stamp \in Nat
      BY <1>1, RecordFields DEF Rows, Stamps, JournalInv, TypeOK
    <2>2. journal[i].stamp > row.inherited /\ journal[i].stamp <= row.boundary
      BY <1>1, <2>1
    <2> QED
      BY <1>1, <2>2 DEF JournalInv, Sound, Windowed
  <1>2. JournalInv => NothingSkipped
    BY <1>1 DEF NothingSkipped, Excused
  <1> QED
    BY <1>2, JournalInvariant, PTL

(* A window holds nothing its prior row goes back to unless time went back.*)
THEOREM WindowReplaysNothing == Spec => []NothingReplayed
  <1>1. ASSUME JournalInv PROVE NothingReplayed
    <2> SUFFICES ASSUME NEW s \in Captures, NEW n \in DOMAIN seen[s],
                        seen[s][n] \in prior[s].memory \cup prior[s].cut
                 PROVE  Receded(seen[s][n], journal)
      BY DEF NothingReplayed, Receded
    <2>1. Window(s) /\ TypeOK /\ seen[s][n] \in Seen(s)
      BY <1>1 DEF JournalInv, Seen
    <2>2. prior[s] \in Rows
      BY <2>1, Bounds DEF Nothing
    <2>3. journal[seen[s][n]].stamp > prior[s].boundary
      BY <2>1 DEF Window, Whole
    <2>4. journal[seen[s][n]].stamp <= prior[s].boundary \/ Receded(seen[s][n], journal)
      BY <2>1, <2>2 DEF Window, Sound, Windowed
    <2>5. seen[s][n] \in 1..Len(journal) /\ prior[s].boundary \in Nat /\ Len(journal) \in Nat
      BY <2>1, <2>2, Bounds, RecordFields DEF Window, Sound, Windowed
    <2>6. journal[seen[s][n]].stamp \in Nat
      BY <2>1, <2>5, Bounds, RecordFields
    <2> QED
      BY <2>3, <2>4, <2>5, <2>6
  <1> QED
    BY <1>1, JournalInvariant, PTL

-----------------------------------------------------------------------------
(* What the agent reads.  Entries are added at the end: the text of a      *)
(* longer list of entries is that of the shorter one and what was added.   *)

CharPieces(entries) == [n \in DOMAIN entries |-> Entry(entries[n])]
Joint(entries, i) == IF entries = <<>> THEN Entry(i) ELSE <<0>> \o Entry(i)
JoinedPieces(entries) ==
  [n \in DOMAIN entries |-> IF n = 1 THEN Entry(entries[n]) ELSE <<0>> \o Entry(entries[n])]

LEMMA EntryUnits ==
  ASSUME journal \in Seq(Records), NEW i \in DOMAIN journal
  PROVE  /\ Entry(i) \in Seq(Nat) /\ Len(Entry(i)) \in 0..MaxEntry
         /\ <<0>> \o Entry(i) \in Seq(Nat) /\ Len(<<0>> \o Entry(i)) = Len(Entry(i)) + 1
  <1>1. journal[i] \in Records /\ i \in Nat /\ MaxEntry \in Nat
    BY LenProperties, ElementOfSeq, JournalAssumption
  <1>2. journal[i].size \in 0..MaxEntry
    BY <1>1 DEF Records
  <1>3. Entry(i) \in Seq(Nat) /\ Len(Entry(i)) = journal[i].size
    BY <1>1, <1>2 DEF Entry
  <1>4. <<0>> \in Seq(Nat) /\ Len(<<0>>) = 1
    OBVIOUS
  <1>5. <<0>> \o Entry(i) \in Seq(Nat) /\ Len(<<0>> \o Entry(i)) = Len(<<0>>) + Len(Entry(i))
    BY <1>3, <1>4, ConcatProperties
  <1> QED
    BY <1>2, <1>3, <1>4, <1>5

LEMMA PiecesAppend ==
  ASSUME journal \in Seq(Records), NEW e \in Seq(DOMAIN journal), NEW i \in DOMAIN journal
  PROVE  /\ CharPieces(e) \in Seq(Seq(Nat)) /\ JoinedPieces(e) \in Seq(Seq(Nat))
         /\ CharPieces(Append(e, i)) = Append(CharPieces(e), Entry(i))
         /\ JoinedPieces(Append(e, i)) = Append(JoinedPieces(e), Joint(e, i))
         /\ Joint(e, i) \in Seq(Nat)
  <1> DEFINE a == Append(e, i)
  <1>1. /\ Len(e) \in Nat /\ DOMAIN e = 1..Len(e) /\ \A n \in 1..Len(e) : e[n] \in DOMAIN journal
        /\ e = <<>> <=> Len(e) = 0
    BY LenProperties, ElementOfSeq, EmptySeq
  <1>2. /\ a \in Seq(DOMAIN journal) /\ Len(a) = Len(e) + 1 /\ a[Len(e) + 1] = i
        /\ \A n \in 1..Len(e) : a[n] = e[n]
    BY AppendProperties
  <1>3. DOMAIN a = 1..(Len(e) + 1)
    BY <1>2, LenProperties
  <1>4. \A k \in DOMAIN journal : Entry(k) \in Seq(Nat) /\ <<0>> \o Entry(k) \in Seq(Nat)
    BY EntryUnits
  <1>5. Joint(e, i) \in Seq(Nat)
    BY <1>4 DEF Joint
  <1>6. CharPieces(e) \in Seq(Seq(Nat)) /\ JoinedPieces(e) \in Seq(Seq(Nat))
    BY <1>1, <1>4 DEF CharPieces, JoinedPieces
  <1>7. Len(CharPieces(e)) = Len(e) /\ Len(JoinedPieces(e)) = Len(e)
    BY <1>1 DEF CharPieces, JoinedPieces
  <1> HIDE DEF a
  <1>8. CharPieces(a) = Append(CharPieces(e), Entry(i))
    BY <1>1, <1>2, <1>3, <1>6, <1>7 DEF CharPieces
  <1>9. JoinedPieces(a) = Append(JoinedPieces(e), Joint(e, i))
    BY <1>1, <1>2, <1>3, <1>6, <1>7 DEF JoinedPieces, Joint
  <1> QED
    BY <1>5, <1>6, <1>8, <1>9 DEF a

LEMMA TextAppend ==
  ASSUME journal \in Seq(Records), NEW e \in Seq(DOMAIN journal), NEW i \in DOMAIN journal
  PROVE  /\ Chars(e) \in Seq(Nat) /\ Chars(Append(e, i)) = Chars(e) \o Entry(i)
         /\ Joined(e) \in Seq(Nat) /\ Joined(Append(e, i)) = Joined(e) \o Joint(e, i)
  <1>1. Entry(i) \in Seq(Nat)
    BY EntryUnits
  <1>2. /\ CharPieces(e) \in Seq(Seq(Nat)) /\ JoinedPieces(e) \in Seq(Seq(Nat))
        /\ CharPieces(Append(e, i)) = Append(CharPieces(e), Entry(i))
        /\ JoinedPieces(Append(e, i)) = Append(JoinedPieces(e), Joint(e, i))
        /\ Joint(e, i) \in Seq(Nat)
    BY PiecesAppend
  <1>3. \A f : Chars(f) = FlattenSeq(CharPieces(f)) /\ Joined(f) = FlattenSeq(JoinedPieces(f))
    BY DEF Chars, Joined, CharPieces, JoinedPieces
  <1>4. /\ FlattenSeq(CharPieces(e)) \in Seq(Nat)
        /\ FlattenSeq(Append(CharPieces(e), Entry(i))) = FlattenSeq(CharPieces(e)) \o Entry(i)
    BY <1>1, <1>2, FlattenAppend
  <1>5. /\ FlattenSeq(JoinedPieces(e)) \in Seq(Nat)
        /\ FlattenSeq(Append(JoinedPieces(e), Joint(e, i))) = FlattenSeq(JoinedPieces(e)) \o Joint(e, i)
    BY <1>2, FlattenAppend
  <1> QED
    BY <1>2, <1>3, <1>4, <1>5

LEMMA TextOfNothing == Chars(<<>>) = <<>> /\ Joined(<<>>) = <<>>
  BY DEF Chars, Joined, FlattenSeq

LEMMA DroppingAppend ==
  ASSUME NEW S, NEW e \in Seq(S), NEW i \in S, NEW m \in 0..Len(e)
  PROVE  /\ Dropping(e, m) \in Seq(S) /\ Len(Dropping(e, m)) = Len(e) - m
         /\ Dropping(Append(e, i), m) = Append(Dropping(e, m), i)
  <1> DEFINE a == Append(e, i)
  <1>1. /\ Len(e) \in Nat /\ \A n \in 1..Len(e) : e[n] \in S
        /\ a \in Seq(S) /\ Len(a) = Len(e) + 1 /\ a[Len(e) + 1] = i
        /\ \A n \in 1..Len(e) : a[n] = e[n]
    BY AppendProperties, LenProperties, ElementOfSeq
  <1>2. /\ Dropping(e, m) \in Seq(S) /\ Len(Dropping(e, m)) = Len(e) - m
        /\ \A n \in 1..(Len(e) - m) : Dropping(e, m)[n] = e[m + n]
    BY <1>1, SubSeqProperties DEF Dropping
  <1> HIDE DEF a
  <1>3. /\ Dropping(a, m) \in Seq(S) /\ Len(Dropping(a, m)) = Len(e) + 1 - m
        /\ \A n \in 1..(Len(e) + 1 - m) : Dropping(a, m)[n] = a[m + n]
    BY <1>1, SubSeqProperties DEF Dropping
  <1>4. /\ Append(Dropping(e, m), i) \in Seq(S)
        /\ Len(Append(Dropping(e, m), i)) = Len(e) - m + 1
        /\ Append(Dropping(e, m), i)[Len(e) - m + 1] = i
        /\ \A n \in 1..(Len(e) - m) : Append(Dropping(e, m), i)[n] = Dropping(e, m)[n]
    BY <1>2, AppendProperties
  <1>5. \A n \in 1..(Len(e) + 1 - m) : Dropping(a, m)[n] = Append(Dropping(e, m), i)[n]
    <2> SUFFICES ASSUME NEW n \in 1..(Len(e) + 1 - m)
                 PROVE  Dropping(a, m)[n] = Append(Dropping(e, m), i)[n]
      OBVIOUS
    <2>1. CASE n = Len(e) - m + 1
      BY <1>1, <1>3, <1>4, <2>1
    <2>2. CASE n # Len(e) - m + 1
      <3>1. n \in 1..(Len(e) - m) /\ m + n \in 1..Len(e)
        BY <1>1, <2>2
      <3> QED
        BY <1>1, <1>2, <1>3, <1>4, <3>1
    <2> QED
      BY <2>1, <2>2
  <1>6. Dropping(a, m) = Append(Dropping(e, m), i)
    BY <1>1, <1>3, <1>4, <1>5, SeqEqual
  <1> QED
    BY <1>2, <1>6 DEF a

(* What is left after m entries were dropped is the end of the whole text, *)
(* is at least as long as the entries alone, and gets shorter by at most   *)
(* one entry when one more is dropped.                                     *)
TailOf(e, m) ==
  /\ \E p \in Seq(Nat) : Joined(e) = p \o Joined(Dropping(e, m))
  /\ Len(Chars(Dropping(e, m))) <= Len(Joined(Dropping(e, m)))
  /\ m < Len(e) => Len(Chars(Dropping(e, m))) <= MaxEntry + Len(Chars(Dropping(e, m + 1)))

LEMMA TextsAssociate ==
  ASSUME NEW x \in Seq(Nat), NEW y \in Seq(Nat), NEW z \in Seq(Nat)
  PROVE  (x \o y) \o z = x \o (y \o z)
  OBVIOUS

LEMMA TailAppend ==
  ASSUME journal \in Seq(Records), NEW e \in Seq(DOMAIN journal), NEW i \in DOMAIN journal,
         NEW m \in 0..(Len(e) + 1), m <= Len(e) => TailOf(e, m)
  PROVE  TailOf(Append(e, i), m)
  <1> DEFINE a == Append(e, i)
             d == Dropping(e, m)
  <1>1. /\ a \in Seq(DOMAIN journal) /\ Len(a) = Len(e) + 1 /\ Len(e) \in Nat /\ MaxEntry \in Nat
    BY AppendProperties, LenProperties, JournalAssumption
  <1>2. /\ Entry(i) \in Seq(Nat) /\ Len(Entry(i)) \in 0..MaxEntry
        /\ <<0>> \o Entry(i) \in Seq(Nat) /\ Len(<<0>> \o Entry(i)) = Len(Entry(i)) + 1
    BY EntryUnits
  <1>3. /\ Joined(a) = Joined(e) \o Joint(e, i) /\ Joined(e) \in Seq(Nat)
        /\ Joint(e, i) \in Seq(Nat)
    BY TextAppend, PiecesAppend
  <1>4. Joined(a) \in Seq(Nat)
    BY <1>3, ConcatProperties
  <1>5. Dropping(a, Len(e) + 1) = <<>> /\ Dropping(e, Len(e)) = <<>>
    BY <1>1, SubSeqEmpty DEF Dropping
  <1>6. CASE m = Len(e) + 1
    <2>1. Joined(a) = Joined(a) \o <<>>
      BY <1>4, ConcatEmptySeq
    <2>2. Len(<<>>) <= Len(<<>>)
      OBVIOUS
    <2> QED
      BY <1>1, <1>4, <1>5, <1>6, <2>1, <2>2, TextOfNothing DEF TailOf
  <1>7. CASE m \in 0..Len(e)
    <2>1. /\ d \in Seq(DOMAIN journal) /\ Len(d) = Len(e) - m /\ Dropping(a, m) = Append(d, i)
      BY <1>7, DroppingAppend
    <2>2. TailOf(e, m)
      BY <1>1, <1>7
    <2>3. /\ Chars(d) \in Seq(Nat) /\ Chars(Append(d, i)) = Chars(d) \o Entry(i)
          /\ Joined(d) \in Seq(Nat) /\ Joined(Append(d, i)) = Joined(d) \o Joint(d, i)
          /\ Joint(d, i) \in Seq(Nat)
      BY <2>1, TextAppend, PiecesAppend
    <2>4. PICK p \in Seq(Nat) : Joined(e) = p \o Joined(d)
      BY <2>2 DEF TailOf
    <2> HIDE DEF a, d
    <2>5. \E q \in Seq(Nat) : Joined(a) = q \o Joined(Append(d, i))
      <3>1. CASE m = Len(e)
        <4>1. d = <<>>
          BY <1>5, <3>1 DEF d
        <4>2. Joined(Append(d, i)) = Entry(i)
          BY <1>2, <2>3, <4>1, TextOfNothing, ConcatEmptySeq DEF Joint
        <4>3. CASE e = <<>>
          <5>1. Joined(a) = <<>> \o Entry(i)
            BY <1>3, <4>3, TextOfNothing DEF Joint
          <5> QED
            BY <4>2, <5>1, EmptySeq
        <4>4. CASE e # <<>>
          <5>1. Joined(a) = Joined(e) \o (<<0>> \o Entry(i))
            BY <1>3, <4>4 DEF Joint
          <5>2. <<0>> \in Seq(Nat)
            OBVIOUS
          <5>4. Joined(e) \o <<0>> \in Seq(Nat)
            BY <1>3, <5>2, ConcatProperties
          <5>3. Joined(a) = (Joined(e) \o <<0>>) \o Entry(i)
            <6> DEFINE zero == <<0>>
            <6>1. Joined(a) = Joined(e) \o (zero \o Entry(i)) /\ zero \in Seq(Nat)
              BY <5>1, <5>2
            <6> HIDE DEF zero
            <6>2. zero \in Seq(Nat) /\ Joined(e) \in Seq(Nat) /\ Entry(i) \in Seq(Nat)
              BY <1>2, <1>3, <6>1
            <6>3. (Joined(e) \o zero) \o Entry(i) = Joined(e) \o (zero \o Entry(i))
              BY <6>2, TextsAssociate
            <6> QED
              BY <6>1, <6>3 DEF zero
          <5> QED
            BY <4>2, <5>3, <5>4
        <4> QED
          BY <4>3, <4>4
      <3>2. CASE m # Len(e)
        <4>1. e # <<>> /\ d # <<>>
          <5>1. Len(e) # 0 /\ Len(d) # 0
            BY <1>1, <1>7, <2>1, <3>2
          <5> QED
            BY <5>1
        <4>2. Joint(e, i) = Joint(d, i)
          BY <4>1 DEF Joint
        <4>3. Joined(a) = (p \o Joined(d)) \o Joint(d, i)
          BY <1>3, <2>4, <4>2
        <4>4. Joined(a) = p \o (Joined(d) \o Joint(d, i))
          <5> DEFINE body == Joined(d)
                     end == Joint(d, i)
          <5>1. /\ p \in Seq(Nat) /\ body \in Seq(Nat) /\ end \in Seq(Nat)
                /\ Joined(a) = (p \o body) \o end
            BY <2>3, <4>3
          <5> HIDE DEF body, end
          <5>2. (p \o body) \o end = p \o (body \o end)
            BY <5>1, TextsAssociate
          <5>3. Joined(a) = p \o (body \o end)
            BY <5>1, <5>2, Zenon
          <5> QED
            BY <5>3 DEF body, end
        <4> QED
          BY <2>3, <4>4
      <3> QED
        BY <3>1, <3>2
    <2>6. /\ Len(Chars(Append(d, i))) = Len(Chars(d)) + Len(Entry(i))
          /\ Len(Joined(Append(d, i))) = Len(Joined(d)) + Len(Joint(d, i))
          /\ Len(Joint(d, i)) >= Len(Entry(i))
          /\ Len(Chars(d)) \in Nat /\ Len(Joined(d)) \in Nat /\ Len(Joint(d, i)) \in Nat
      <3>1. /\ Len(Chars(d)) \in Nat /\ Len(Joined(d)) \in Nat /\ Len(Joint(d, i)) \in Nat
        BY <2>3, LenProperties
      <3>2. Len(Joint(d, i)) \in {Len(Entry(i)), Len(Entry(i)) + 1}
        BY <1>2 DEF Joint
      <3> QED
        BY <1>2, <2>3, <3>1, <3>2, ConcatProperties
    <2>7. Len(Chars(d)) <= Len(Joined(d))
      BY <2>2 DEF TailOf, d
    <2>8. Len(Chars(Append(d, i))) <= Len(Joined(Append(d, i)))
      BY <1>2, <2>6, <2>7
    <2>9. Len(Chars(Append(d, i))) <= MaxEntry + Len(Chars(Dropping(a, m + 1)))
      <3>1. CASE m = Len(e)
        <4>1. Dropping(a, m + 1) = <<>> /\ d = <<>>
          BY <1>5, <3>1 DEF d
        <4>2. Len(Chars(Dropping(a, m + 1))) = 0 /\ Len(Chars(d)) = 0
          BY <4>1, TextOfNothing
        <4> QED
          BY <1>1, <1>2, <2>6, <4>2, LenProperties
      <3>2. CASE m # Len(e)
        <4> DEFINE r == Dropping(e, m + 1)
        <4>1. m + 1 \in 0..Len(e)
          BY <1>1, <1>7, <3>2
        <4>2. r \in Seq(DOMAIN journal) /\ Dropping(a, m + 1) = Append(r, i)
          BY <4>1, DroppingAppend DEF a
        <4>3. Chars(r) \in Seq(Nat) /\ Chars(Append(r, i)) = Chars(r) \o Entry(i)
          BY <4>2, TextAppend
        <4>4. Len(Chars(Append(r, i))) = Len(Chars(r)) + Len(Entry(i)) /\ Len(Chars(r)) \in Nat
          BY <1>2, <4>3, ConcatProperties, LenProperties
        <4>5. Len(Chars(d)) <= MaxEntry + Len(Chars(r))
          BY <1>1, <1>7, <2>2, <3>2 DEF TailOf, d
        <4>6. Len(Chars(Dropping(a, m + 1))) = Len(Chars(r)) + Len(Entry(i))
          BY <4>2, <4>4
        <4> HIDE DEF r
        <4> QED
          BY <1>1, <1>2, <2>6, <4>4, <4>5, <4>6
      <3> QED
        BY <3>1, <3>2
    <2> QED
      BY <2>1, <2>5, <2>8, <2>9 DEF TailOf, a
  <1> QED
    BY <1>1, <1>6, <1>7

LEMMA Tails ==
  ASSUME journal \in Seq(Records)
  PROVE  \A e \in Seq(DOMAIN journal) : \A m \in 0..Len(e) : TailOf(e, m)
  <1> DEFINE Bad(n) == \E e \in Seq(DOMAIN journal) : Len(e) = n /\ \E m \in 0..Len(e) : ~TailOf(e, m)
             T == {n \in Nat : Bad(n)}
  <1>1. SUFFICES ASSUME T # {} PROVE FALSE
    BY LenProperties
  <1>2. PICK n \in T : \A k \in T : ~(k < n)
    <2>1. T \in SUBSET Nat
      OBVIOUS
    <2> HIDE DEF T
    <2> QED
      BY <1>1, <2>1, LeastNumber
  <1>3. PICK e \in Seq(DOMAIN journal) : Len(e) = n /\ \E m \in 0..Len(e) : ~TailOf(e, m)
    OBVIOUS
  <1>4. PICK m \in 0..Len(e) : ~TailOf(e, m)
    BY <1>3
  <1>5. CASE e = <<>>
    <2>1. m = 0 /\ Dropping(e, 0) = <<>> /\ Len(e) = 0
      BY <1>4, <1>5, SubSeqEmpty DEF Dropping
    <2>2. <<>> = <<>> \o <<>> /\ <<>> \in Seq(Nat) /\ Len(<<>>) <= Len(<<>>)
      OBVIOUS
    <2>3. TailOf(<<>>, 0)
      <3>1. Joined(<<>>) = <<>> \o Joined(Dropping(<<>>, 0))
        BY <1>5, <2>1, <2>2, TextOfNothing
      <3>2. Len(Chars(Dropping(<<>>, 0))) <= Len(Joined(Dropping(<<>>, 0)))
        BY <1>5, <2>1, <2>2, TextOfNothing
      <3>3. ~(0 < Len(<<>>))
        OBVIOUS
      <3> QED
        BY <2>2, <3>1, <3>2, <3>3, Zenon DEF TailOf
    <2> QED
      BY <1>4, <1>5, <2>1, <2>3
  <1>6. CASE e # <<>>
    <2>1. PICK f \in Seq(DOMAIN journal), i \in DOMAIN journal : e = Append(f, i)
      BY <1>6, SequenceEmptyOrAppend
    <2>2. Len(f) \in Nat /\ Len(e) = Len(f) + 1
      BY <2>1, LenProperties, AppendProperties
    <2>3. ~Bad(Len(f))
      <3>1. Len(f) \notin T
        <4>1. Len(f) < n
          BY <1>3, <2>2
        <4> HIDE DEF T
        <4> QED
          BY <1>2, <4>1
      <3> QED
        BY <2>2, <3>1
    <2>4. m <= Len(f) => TailOf(f, m)
      BY <2>2, <2>3
    <2> QED
      BY <1>4, <2>1, <2>2, <2>4, TailAppend
  <1> QED
    BY <1>5, <1>6

(* The ring never dropped an entry that was not in the way: with the last  *)
(* one it dropped, it would be too full.                                   *)
RingFull(s) == shed[s] > 0 => ~Fits(seen[s], shed[s] - 1)

(* What was too long stays too long when entries are added, and what is    *)
(* appended to the journal does not change the text of older entries.      *)
LEMMA FitsNoMore ==
  ASSUME journal \in Seq(Records), NEW e \in Seq(DOMAIN journal), NEW i \in DOMAIN journal,
         NEW m \in 0..Len(e), ~Fits(e, m)
  PROVE  ~Fits(Append(e, i), m)
  <1> DEFINE d == Dropping(e, m)
  <1>1. d \in Seq(DOMAIN journal) /\ Dropping(Append(e, i), m) = Append(d, i)
    BY DroppingAppend
  <1> HIDE DEF d
  <1>2. /\ Chars(d) \in Seq(Nat) /\ Chars(Append(d, i)) = Chars(d) \o Entry(i)
        /\ Entry(i) \in Seq(Nat)
    BY <1>1, TextAppend, EntryUnits
  <1>3. /\ Len(Chars(Append(d, i))) = Len(Chars(d)) + Len(Entry(i))
        /\ Len(Chars(d)) \in Nat /\ Len(Entry(i)) \in Nat
    BY <1>2, ConcatProperties, LenProperties
  <1>4. ~(Len(Chars(d)) <= RingCap) /\ RingCap \in Nat
    BY JournalAssumption DEF Fits, RingCap, d
  <1> QED
    BY <1>1, <1>3, <1>4 DEF Fits

LEMMA FitsStays ==
  ASSUME Extends(journal', journal), NEW e \in Seq(DOMAIN journal), NEW m \in 0..Len(e)
  PROVE  Fits(e, m)' <=> Fits(e, m)
  <1> DEFINE d == Dropping(e, m)
  <1>1. Len(e) \in Nat /\ \A n \in 1..Len(e) : e[n] \in DOMAIN journal
    BY LenProperties, ElementOfSeq
  <1>2. d \in Seq(DOMAIN journal)
    BY <1>1, SubSeqProperties DEF Dropping
  <1>3. \A n \in DOMAIN d : d[n] \in DOMAIN journal
    BY <1>2, LenProperties, ElementOfSeq
  <1>4. \A i \in DOMAIN journal : journal'[i] = journal[i]
    BY LenProperties DEF Extends
  <1>5. \A i \in DOMAIN journal : Entry(i)' = Entry(i)
    BY <1>4 DEF Entry
  <1> HIDE DEF d
  <1>6. CharPieces(d)' = CharPieces(d)
    BY <1>3, <1>5 DEF CharPieces
  <1>7. Chars(d)' = Chars(d)
    <2>1. Chars(d) = FlattenSeq(CharPieces(d)) /\ Chars(d)' = FlattenSeq(CharPieces(d)')
      BY DEF Chars, CharPieces
    <2> QED
      BY <1>6, <2>1
  <1> QED
    BY <1>7 DEF Fits, d

LEMMA RingStays ==
  ASSUME JournalInv, Extends(journal', journal), NEW s \in Captures, RingFull(s),
         seen'[s] = seen[s], shed'[s] = shed[s]
  PROVE  RingFull(s)'
  <1>1. seen[s] \in Seq(DOMAIN journal) /\ shed[s] \in 0..Len(seen[s])
    BY DEF JournalInv, TypeOK
  <1>2. SUFFICES ASSUME shed[s] > 0 PROVE RingFull(s)'
    BY DEF RingFull
  <1>3. PICK e \in Seq(DOMAIN journal) : e = seen[s]
    BY <1>1
  <1>4. PICK m \in 0..Len(e) : m = shed[s] - 1
    BY <1>1, <1>2, <1>3, LenProperties
  <1>5. ~Fits(e, m)'
    BY <1>2, <1>3, <1>4, FitsStays DEF RingFull
  <1>6. seen'[s] = e /\ shed'[s] - 1 = m
    BY <1>3, <1>4
  <1> QED
    BY <1>5, <1>6 DEF RingFull, Fits, Chars, Dropping, Entry

LEMMA IncludeFills ==
  ASSUME JournalInv, NEW s \in Captures, RingFull(s), NEW i \in DOMAIN journal, Include(s, i),
         UNCHANGED journal
  PROVE  RingFull(s)'
  <1> DEFINE entries == IF journal[i].size = 0 THEN seen[s] ELSE Append(seen[s], i)
             m == Shed(entries, shed[s])
  <1>1. /\ seen[s] \in Seq(DOMAIN journal) /\ shed[s] \in 0..Len(seen[s]) /\ journal \in Seq(Records)
        /\ seen' = [seen EXCEPT ![s] = entries] /\ seen \in [Captures -> Seq(DOMAIN journal)]
        /\ shed' = [shed EXCEPT ![s] = m] /\ shed \in [Captures -> Nat]
    BY DEF JournalInv, TypeOK, Shape, Include
  <1>2. seen'[s] = entries /\ shed'[s] = m
    BY <1>1
  <1>3. /\ entries \in Seq(DOMAIN journal) /\ Len(entries) \in Nat /\ Len(seen[s]) \in Nat
        /\ Len(entries) >= Len(seen[s])
    <2>1. Len(seen[s]) \in Nat
      BY <1>1, LenProperties
    <2>2. Append(seen[s], i) \in Seq(DOMAIN journal) /\ Len(Append(seen[s], i)) = Len(seen[s]) + 1
      BY <1>1, AppendProperties
    <2>3. entries = seen[s] \/ entries = Append(seen[s], i)
      OBVIOUS
    <2> HIDE DEF entries
    <2>4. Len(entries) \in {Len(seen[s]), Len(seen[s]) + 1}
      BY <2>2, <2>3
    <2>5. entries \in Seq(DOMAIN journal)
      BY <1>1, <2>2, <2>3
    <2> QED
      BY <2>1, <2>4, <2>5
  <1>4. \A k \in 0..Len(seen[s]) : ~Fits(seen[s], k) => ~Fits(entries, k)
    BY <1>1, FitsNoMore
  <1> HIDE DEF entries
  <1>5. /\ m \in shed[s]..Len(entries)
        /\ \A k \in shed[s]..(m - 1) : ~Fits(entries, k)
    <2>1. shed[s] \in 0..Len(entries)
      BY <1>1, <1>3
    <2> QED
      BY <1>3, <2>1, ShedFits
  <1> HIDE DEF m
  <1>6. m > 0 => ~Fits(entries, m - 1)
    <2>1. CASE m = shed[s]
      <3>1. m > 0 => m - 1 \in 0..Len(seen[s]) /\ ~Fits(seen[s], m - 1)
        BY <1>1, <1>3, <2>1 DEF RingFull
      <3> QED
        BY <1>4, <3>1
    <2>2. CASE m # shed[s]
      <3>1. m - 1 \in shed[s]..(m - 1)
        BY <1>1, <1>3, <1>5, <2>2
      <3> QED
        BY <1>5, <3>1
    <2> QED
      BY <2>1, <2>2
  <1>7. RingFull(s)' <=> (m > 0 => ~Fits(entries, m - 1))
    BY <1>2 DEF RingFull, Fits, Chars, Dropping, Entry, RingCap
  <1> QED
    BY <1>6, <1>7

LEMMA NextFull ==
  ASSUME JournalInv, NEW s \in Captures, RingFull(s), [Next]_vars
  PROVE  RingFull(s)'
  <1>1. CASE AppendRecord
    <2>1. PICK r \in Records : journal' = Append(journal, r)
      BY <1>1 DEF AppendRecord
    <2>2. journal \in Seq(Records) /\ seen' = seen /\ shed' = shed
      BY <1>1 DEF AppendRecord, JournalInv, TypeOK
    <2>3. Extends(journal', journal)
      BY <2>1, <2>2, AppendProperties, LenProperties DEF Extends
    <2> QED
      BY <2>2, <2>3, RingStays
  <1>2. CASE UNCHANGED journal /\ seen'[s] = seen[s] /\ shed'[s] = shed[s]
    BY <1>2, SameJournal, RingStays DEF JournalInv
  <1>3. CASE FinishRecord \/ DamageRow \/ ReceiveRow \/ ForgetRow \/ UNCHANGED vars
    BY <1>2, <1>3 DEF FinishRecord, DamageRow, ReceiveRow, ForgetRow, vars
  <1>4. ASSUME NEW q \in Captures, Step(q) PROVE RingFull(s)'
    <2>1. CASE ReadRecord(q)
      <3> DEFINE i == pos[q] + 1
      <3>1. /\ UNCHANGED journal /\ i \in DOMAIN journal
            /\ Include(q, i) \/ UNCHANGED <<seen, shed>>
        <4>1. UNCHANGED journal /\ i <= Len(journal) /\ (Include(q, i) \/ UNCHANGED <<seen, shed>>)
          BY <2>1 DEF ReadRecord
        <4>2. pos[q] \in Nat /\ journal \in Seq(Records)
          BY Bounds DEF JournalInv
        <4>3. i \in DOMAIN journal
          BY <4>1, <4>2, RecordFields
        <4> QED
          BY <4>1, <4>3
      <3> HIDE DEF i
      <3>2. CASE q = s
        BY <1>2, <3>1, <3>2, IncludeFills
      <3>3. CASE q # s
        <4>1. Include(q, i) => seen'[s] = seen[s] /\ shed'[s] = shed[s]
          BY <3>3 DEF Include, JournalInv, TypeOK, Shape
        <4> QED
          BY <1>2, <3>1, <4>1
      <3> QED
        BY <3>2, <3>3
    <2>2. CASE ~ReadRecord(q)
      BY <1>2, <1>4, <2>2 DEF Step, LoadPrior, ReadHalf, ReachEnd, GiveUp, SaveRow
    <2> QED
      BY <2>1, <2>2
  <1> QED
    BY <1>1, <1>3, <1>4 DEF Next, Finished

(* A text that ends with another one of at least n units has the same last *)
(* n units.                                                                *)
LEMMA SameEnd ==
  ASSUME NEW p \in Seq(Nat), NEW t \in Seq(Nat), Len(t) > MaxWindow
  PROVE  NewestUnits(p \o t) = NewestUnits(t) /\ Len(p \o t) > MaxWindow
  <1> DEFINE all == p \o t
  <1>1. /\ MaxWindow \in Nat /\ Len(p) \in Nat /\ Len(t) \in Nat
        /\ all \in Seq(Nat) /\ Len(all) = Len(p) + Len(t)
        /\ \A i \in 1..Len(t) : all[Len(p) + i] = t[i] /\ t[i] \in Nat
    BY JournalAssumption, LenProperties, ConcatProperties, ElementOfSeq
  <1> HIDE DEF all
  <1>2. NewestUnits(all) = SubSeq(all, Len(all) - MaxWindow + 1, Len(all))
    <2>1. Len(all) > MaxWindow
      BY <1>1
    <2> QED
      BY <2>1 DEF NewestUnits, Dropping
  <1>3. NewestUnits(t) = SubSeq(t, Len(t) - MaxWindow + 1, Len(t))
    BY <1>1 DEF NewestUnits, Dropping
  <1>4. /\ NewestUnits(t) \in Seq(Nat) /\ Len(NewestUnits(t)) = MaxWindow
        /\ \A n \in 1..MaxWindow : NewestUnits(t)[n] = t[Len(t) - MaxWindow + n]
    BY <1>1, <1>3, SubSeqProperties
  <1>5. \A i \in 1..Len(all) : all[i] \in Nat
    BY <1>1, ElementOfSeq
  <1>6. /\ NewestUnits(all) \in Seq(Nat) /\ Len(NewestUnits(all)) = MaxWindow
        /\ \A n \in 1..MaxWindow : NewestUnits(all)[n] = all[Len(all) - MaxWindow + n]
    BY <1>1, <1>2, <1>5, SubSeqProperties
  <1>7. ASSUME NEW n \in 1..MaxWindow PROVE NewestUnits(all)[n] = NewestUnits(t)[n]
    <2>1. Len(t) - MaxWindow + n \in 1..Len(t)
      BY <1>1
    <2>2. Len(all) - MaxWindow + n = Len(p) + (Len(t) - MaxWindow + n)
      BY <1>1
    <2> QED
      BY <1>1, <1>4, <1>6, <2>1, <2>2
  <1>8. NewestUnits(all) = NewestUnits(t)
    BY <1>4, <1>6, <1>7, SeqEqual
  <1> QED
    BY <1>1, <1>8 DEF all

(* What the ring dropped never shows: the agent reads the newest units of  *)
(* the whole window, and is told that some are missing exactly when some   *)
(* are.                                                                    *)
THEOREM WindowIsTail == Spec => []TextIsTail
  <1>1. Init => \A s \in Captures : RingFull(s)
    BY DEF Init, RingFull
  <1>2. JournalInv /\ (\A s \in Captures : RingFull(s)) /\ [Next]_vars
          => (\A s \in Captures : RingFull(s))'
    BY NextFull
  <1>3. ASSUME JournalInv, \A s \in Captures : RingFull(s) PROVE TextIsTail
    <2> SUFFICES ASSUME NEW s \in Captures
                 PROVE  LET kept == Joined(Dropping(seen[s], shed[s]))
                            all == Joined(seen[s]) IN
                        /\ NewestUnits(kept) = NewestUnits(all)
                        /\ Len(kept) > MaxWindow \/ shed[s] > 0 <=> Len(all) > MaxWindow
      BY DEF TextIsTail
    <2> DEFINE e == seen[s]
               m == shed[s]
    <2>1. /\ e \in Seq(DOMAIN journal) /\ m \in 0..Len(e) /\ Len(e) \in Nat /\ journal \in Seq(Records)
          /\ RingFull(s) /\ MaxEntry \in Nat /\ MaxWindow \in Nat /\ MaxEntry <= MaxWindow
      BY <1>3, LenProperties, JournalAssumption DEF JournalInv, TypeOK
    <2>2. CASE m = 0
      <3>1. Dropping(e, m) = e
        BY <2>1, <2>2, SubSeqFull DEF Dropping
      <3> QED
        BY <2>2, <3>1
    <2>3. CASE m > 0
      <3> DEFINE before == Dropping(e, m - 1)
                 d == Dropping(e, m)
      <3>1. m - 1 \in 0..Len(e) /\ m - 1 < Len(e) /\ (m - 1) + 1 = m
        BY <2>1, <2>3
      <3>2. TailOf(e, m) /\ TailOf(e, m - 1)
        BY <2>1, <3>1, Tails
      <3>3. PICK p \in Seq(Nat) : Joined(e) = p \o Joined(d)
        BY <3>2 DEF TailOf
      <3>4. ~(Len(Chars(before)) <= 2 * MaxWindow)
        BY <2>1, <2>3 DEF RingFull, Fits, RingCap
      <3>5. Len(Chars(before)) <= MaxEntry + Len(Chars(d)) /\ Len(Chars(d)) <= Len(Joined(d))
        BY <3>1, <3>2 DEF TailOf
      <3>6. before \in Seq(DOMAIN journal) /\ d \in Seq(DOMAIN journal)
        <4>1. \A n \in 1..Len(e) : e[n] \in DOMAIN journal
          BY <2>1, ElementOfSeq
        <4> QED
          BY <2>1, <3>1, <4>1, SubSeqProperties DEF Dropping
      <3> HIDE DEF before, d, e, m
      <3>7. PICK i : i \in DOMAIN journal
        BY <2>1, <2>3, ElementOfSeq
      <3>8. Chars(before) \in Seq(Nat) /\ Chars(d) \in Seq(Nat) /\ Joined(d) \in Seq(Nat)
        BY <2>1, <3>6, <3>7, TextAppend
      <3>9. Len(Chars(before)) \in Nat /\ Len(Chars(d)) \in Nat /\ Len(Joined(d)) \in Nat
        BY <3>8, LenProperties
      <3>10. Len(Joined(d)) > MaxWindow
        BY <2>1, <3>4, <3>5, <3>9
      <3>11. NewestUnits(Joined(e)) = NewestUnits(Joined(d)) /\ Len(Joined(e)) > MaxWindow
        BY <3>3, <3>8, <3>10, SameEnd
      <3> QED
        BY <2>3, <3>10, <3>11 DEF d, e, m
    <2> QED
      BY <2>1, <2>2, <2>3
  <1> QED
    BY <1>1, <1>2, <1>3, JournalInvariant, PTL DEF Spec

-----------------------------------------------------------------------------
(* What fits the window is in it whole.                                    *)

LEMMA ConcatAt ==
  ASSUME NEW x \in Seq(Nat), NEW y \in Seq(Nat)
  PROVE  /\ x \o y \in Seq(Nat) /\ Len(x \o y) = Len(x) + Len(y)
         /\ \A n \in 1..Len(x) : (x \o y)[n] = x[n]
         /\ \A n \in 1..Len(y) : (x \o y)[Len(x) + n] = y[n]
  <1>1. Len(x) \in Nat /\ Len(y) \in Nat
    BY LenProperties
  <1>2. /\ x \o y \in Seq(Nat) /\ Len(x \o y) = Len(x) + Len(y)
        /\ \A n \in 1..(Len(x) + Len(y)) :
             (x \o y)[n] = IF n <= Len(x) THEN x[n] ELSE y[n - Len(x)]
    BY ConcatProperties
  <1>3. ASSUME NEW n \in 1..Len(x) PROVE (x \o y)[n] = x[n]
    <2>1. n \in 1..(Len(x) + Len(y)) /\ n <= Len(x)
      BY <1>1
    <2> QED
      BY <1>2, <2>1
  <1>4. ASSUME NEW n \in 1..Len(y) PROVE (x \o y)[Len(x) + n] = y[n]
    <2>1. /\ Len(x) + n \in 1..(Len(x) + Len(y)) /\ ~(Len(x) + n <= Len(x))
          /\ (Len(x) + n) - Len(x) = n
      BY <1>1
    <2> QED
      BY <1>2, <2>1
  <1> QED
    BY <1>2, <1>3, <1>4

(* The middle of a concatenation.                                          *)
LEMMA MiddlePart ==
  ASSUME NEW x \in Seq(Nat), NEW y \in Seq(Nat), NEW z \in Seq(Nat)
  PROVE  /\ SubSeq(x \o (y \o z), Len(x) + 1, Len(x) + Len(y)) = y
         /\ Len(x) + Len(y) <= Len(x \o (y \o z))
  <1> DEFINE all == x \o (y \o z)
             part == SubSeq(all, Len(x) + 1, Len(x) + Len(y))
  <1>1. /\ Len(x) \in Nat /\ Len(y) \in Nat /\ Len(z) \in Nat
        /\ y \o z \in Seq(Nat) /\ Len(y \o z) = Len(y) + Len(z)
        /\ \A n \in 1..Len(y) : (y \o z)[n] = y[n]
    BY LenProperties, ConcatProperties
  <1>2. /\ all \in Seq(Nat) /\ Len(all) = Len(x) + (Len(y) + Len(z))
        /\ \A n \in 1..(Len(y) + Len(z)) : all[Len(x) + n] = (y \o z)[n]
    <2> DEFINE rest == y \o z
    <2>1. rest \in Seq(Nat) /\ Len(rest) = Len(y) + Len(z)
      BY <1>1
    <2> HIDE DEF rest
    <2>2. /\ x \o rest \in Seq(Nat) /\ Len(x \o rest) = Len(x) + Len(rest)
          /\ \A n \in 1..Len(rest) : (x \o rest)[Len(x) + n] = rest[n]
      BY <2>1, ConcatAt
    <2> QED
      BY <2>1, <2>2 DEF rest
  <1> HIDE DEF all
  <1>3. \A i \in 1..Len(all) : all[i] \in Nat
    BY <1>2, ElementOfSeq
  <1>4. /\ part \in Seq(Nat) /\ Len(part) = Len(y)
        /\ \A n \in 1..Len(y) : part[n] = all[Len(x) + n]
    <2> DEFINE from == Len(x) + 1
               to == Len(x) + Len(y)
    <2>1. /\ from \in 1..(Len(all) + 1) /\ to \in (from - 1)..Len(all)
          /\ \A k \in from..to : all[k] \in Nat
      BY <1>1, <1>2, <1>3
    <2>2. /\ from \in Int /\ to \in Int /\ from <= to + 1 /\ to - from + 1 = Len(y)
          /\ \A n \in 1..Len(y) : from + n - 1 = Len(x) + n
      BY <1>1
    <2> HIDE DEF from, to
    <2>3. /\ SubSeq(all, from, to) \in Seq(Nat) /\ Len(SubSeq(all, from, to)) = Len(y)
          /\ \A n \in 1..Len(y) : SubSeq(all, from, to)[n] = all[from + n - 1]
      BY <2>1, <2>2, SubSeqProperties
    <2> QED
      BY <2>2, <2>3 DEF from, to
  <1> HIDE DEF part
  <1>5. ASSUME NEW n \in 1..Len(y) PROVE part[n] = y[n]
    <2>1. n \in 1..(Len(y) + Len(z)) /\ n \in Nat
      BY <1>1
    <2>2. part[n] = all[Len(x) + n]
      BY <1>4
    <2>3. all[Len(x) + n] = (y \o z)[n]
      BY <1>2, <2>1
    <2>4. (y \o z)[n] = y[n]
      BY <1>1
    <2> QED
      BY <2>2, <2>3, <2>4, Zenon
  <1>6. part = y
    BY <1>4, <1>5, SeqEqual
  <1> QED
    BY <1>1, <1>2, <1>6 DEF part, all

(* The text of a window begins with its first entry.                       *)
LEMMA FirstEntry ==
  ASSUME journal \in Seq(Records)
  PROVE  \A e \in Seq(DOMAIN journal) :
           e # <<>> => \E r \in Seq(Nat) : Joined(e) = Entry(e[1]) \o r
  <1> DEFINE Begins(e) == \E r \in Seq(Nat) : Joined(e) = Entry(e[1]) \o r
             Bad(n) == \E e \in Seq(DOMAIN journal) : Len(e) = n /\ e # <<>> /\ ~Begins(e)
             T == {n \in Nat : Bad(n)}
  <1>1. SUFFICES ASSUME T # {} PROVE FALSE
    BY LenProperties
  <1>2. PICK n \in T : \A k \in T : ~(k < n)
    <2>1. T \in SUBSET Nat
      OBVIOUS
    <2> HIDE DEF T
    <2> QED
      BY <1>1, <2>1, LeastNumber
  <1>3. PICK e \in Seq(DOMAIN journal) : Len(e) = n /\ e # <<>> /\ ~Begins(e)
    OBVIOUS
  <1>4. PICK f \in Seq(DOMAIN journal), i \in DOMAIN journal : e = Append(f, i)
    BY <1>3, SequenceEmptyOrAppend
  <1>5. /\ Len(f) \in Nat /\ Len(e) = Len(f) + 1 /\ e[Len(f) + 1] = i
        /\ \A k \in 1..Len(f) : e[k] = f[k]
    BY <1>4, LenProperties, AppendProperties
  <1>6. /\ Joined(e) = Joined(f) \o Joint(f, i) /\ Joint(f, i) \in Seq(Nat)
        /\ Entry(i) \in Seq(Nat)
    BY <1>4, TextAppend, PiecesAppend, EntryUnits
  <1>7. CASE f = <<>>
    <2>1. Joined(e) = <<>> \o Entry(i)
      BY <1>6, <1>7, TextOfNothing DEF Joint
    <2>2. Joined(e) = Entry(i) \o <<>> /\ <<>> \in Seq(Nat)
      BY <1>6, <2>1, ConcatEmptySeq, EmptySeq
    <2>3. e[1] = i
      BY <1>5, <1>7
    <2> QED
      BY <1>3, <2>2, <2>3
  <1>8. CASE f # <<>>
    <2>1. Begins(f)
      <3>1. Len(f) \notin T
        <4>1. Len(f) < n
          BY <1>3, <1>5
        <4> HIDE DEF T
        <4> QED
          BY <1>2, <4>1
      <3> QED
        BY <1>5, <1>8, <3>1
    <2>2. PICK r \in Seq(Nat) : Joined(f) = Entry(f[1]) \o r
      BY <2>1
    <2>3. f[1] \in DOMAIN journal /\ e[1] = f[1]
      BY <1>5, <1>8, EmptySeq, ElementOfSeq
    <2> DEFINE first == Entry(f[1])
               more == Joint(f, i)
    <2>4. first \in Seq(Nat) /\ more \in Seq(Nat) /\ Joined(e) = (first \o r) \o more
      BY <1>6, <2>2, <2>3, EntryUnits
    <2> HIDE DEF first, more
    <2>5. (first \o r) \o more = first \o (r \o more) /\ r \o more \in Seq(Nat)
      BY <2>4, TextsAssociate, ConcatProperties
    <2>6. Joined(e) = first \o (r \o more)
      BY <2>4, <2>5, Zenon
    <2> QED
      BY <1>3, <2>3, <2>5, <2>6 DEF first
  <1> QED
    BY <1>7, <1>8

(* The newest units of a text that ends with a part that fits the window   *)
(* end with it, too.                                                       *)
LEMMA EndKept ==
  ASSUME NEW p \in Seq(Nat), NEW t \in Seq(Nat), Len(t) <= MaxWindow
  PROVE  \E q \in Seq(Nat) : NewestUnits(p \o t) = q \o t
  <1> DEFINE all == p \o t
  <1>1. /\ MaxWindow \in Nat /\ Len(p) \in Nat /\ Len(t) \in Nat
        /\ all \in Seq(Nat) /\ Len(all) = Len(p) + Len(t)
        /\ \A i \in 1..Len(p) : all[i] = p[i] /\ p[i] \in Nat
        /\ \A i \in 1..Len(t) : all[Len(p) + i] = t[i]
    BY JournalAssumption, LenProperties, ConcatProperties, ElementOfSeq
  <1> DEFINE m == IF Len(all) > MaxWindow THEN Len(all) - MaxWindow ELSE 0
             q == Dropping(p, m)
             text == Dropping(all, m)
  <1>2. m \in 0..Len(p) /\ NewestUnits(p \o t) = text
    BY <1>1 DEF NewestUnits
  <1> HIDE DEF all, m
  <1>3. \A i \in 1..Len(all) : all[i] \in Nat
    BY <1>1, ElementOfSeq
  <1>4. /\ q \in Seq(Nat) /\ Len(q) = Len(p) - m
        /\ \A i \in 1..(Len(p) - m) : q[i] = p[m + i]
    BY <1>1, <1>2, SubSeqProperties DEF Dropping
  <1>5. /\ text \in Seq(Nat) /\ Len(text) = Len(all) - m
        /\ \A i \in 1..(Len(all) - m) : text[i] = all[m + i]
    BY <1>1, <1>2, <1>3, SubSeqProperties DEF Dropping
  <1> HIDE DEF q, text
  <1>6. /\ q \o t \in Seq(Nat) /\ Len(q \o t) = Len(q) + Len(t)
        /\ \A i \in 1..Len(q) : (q \o t)[i] = q[i]
        /\ \A i \in 1..Len(t) : (q \o t)[Len(q) + i] = t[i]
    BY <1>4, ConcatAt
  <1>7. ASSUME NEW i \in 1..Len(text) PROVE text[i] = (q \o t)[i]
    <2>1. CASE i \in 1..Len(q)
      <3>1. m + i \in 1..Len(p) /\ i \in 1..(Len(p) - m) /\ i \in 1..(Len(all) - m)
        BY <1>1, <1>2, <1>4, <2>1
      <3>2. text[i] = p[m + i] /\ q[i] = p[m + i]
        BY <1>1, <1>4, <1>5, <3>1
      <3> QED
        BY <1>6, <2>1, <3>2
    <2>2. CASE i \notin 1..Len(q)
      <3>1. PICK k \in 1..Len(t) : i = Len(q) + k /\ m + i = Len(p) + k
        <4>1. i - Len(q) \in 1..Len(t) /\ m + i = Len(p) + (i - Len(q))
          BY <1>1, <1>2, <1>4, <1>5, <2>2
        <4>2. i = Len(q) + (i - Len(q))
          BY <1>1, <1>2, <1>4, <1>5
        <4> QED
          BY <4>1, <4>2
      <3>2. text[i] = all[Len(p) + k]
        BY <1>5, <3>1
      <3> QED
        BY <1>1, <1>6, <3>1, <3>2
    <2> QED
      BY <2>1, <2>2
  <1>8. text = q \o t
    <2>1. Len(text) = Len(q \o t)
      BY <1>1, <1>2, <1>4, <1>5, <1>6
    <2> QED
      BY <1>5, <1>6, <1>7, <2>1, SeqEqual
  <1> QED
    BY <1>2, <1>4, <1>8

(* A record is cut from a window only when it does not fit together with   *)
(* all the newer ones, for all sizes of entries and windows.               *)
THEOREM CutForRoomOnly == Spec => []CutOnlyWhenFull
  <1>1. ASSUME JournalInv, TextIsTail, NEW s \in Captures, NEW n \in DOMAIN seen[s],
               Len(Joined(Dropping(seen[s], n - 1))) <= MaxWindow
        PROVE  seen[s][n] \in Told(s)
    <2> DEFINE e == seen[s]
               d == Dropping(e, n - 1)
               first == Entry(e[n])
    <2>1. /\ journal \in Seq(Records) /\ e \in Seq(DOMAIN journal) /\ Len(e) \in Nat
          /\ n \in 1..Len(e) /\ n - 1 \in 0..Len(e) /\ n \in Nat
          /\ \A k \in 1..Len(e) : e[k] \in DOMAIN journal
      <3>1. journal \in Seq(Records) /\ e \in Seq(DOMAIN journal)
        BY <1>1 DEF JournalInv, TypeOK
      <3> HIDE DEF e
      <3>2. Len(e) \in Nat /\ n \in 1..Len(e) /\ \A k \in 1..Len(e) : e[k] \in DOMAIN journal
        BY <3>1, LenProperties, ElementOfSeq DEF e
      <3> QED
        BY <3>1, <3>2
    <2>2. Text(s) = NewestUnits(Joined(e))
      BY <1>1 DEF TextIsTail, Text
    <2>3. PICK p \in Seq(Nat) : Joined(e) = p \o Joined(d)
      <3>1. TailOf(e, n - 1)
        BY <2>1, Tails
      <3> QED
        BY <3>1 DEF TailOf
    <2>4. d \in Seq(DOMAIN journal) /\ d # <<>> /\ d[1] = e[n]
      <3> HIDE DEF e
      <3>1. /\ d \in Seq(DOMAIN journal) /\ Len(d) = Len(e) - (n - 1)
            /\ \A k \in 1..(Len(e) - (n - 1)) : d[k] = e[(n - 1) + k]
        BY <2>1, SubSeqProperties DEF Dropping
      <3>2. 1 \in 1..(Len(e) - (n - 1)) /\ (n - 1) + 1 = n
        BY <2>1
      <3> HIDE DEF d
      <3>3. d[1] = e[n] /\ Len(d) # 0
        BY <2>1, <3>1, <3>2
      <3> QED
        BY <3>1, <3>3
    <2>5. first \in Seq(Nat) /\ Len(first) = journal[e[n]].size
      <3>1. e[n] \in DOMAIN journal /\ journal[e[n]] \in Records
        BY <2>1, ElementOfSeq
      <3>2. journal[e[n]].size \in Nat
        BY <3>1, JournalAssumption DEF Records
      <3>3. first \in Seq(Nat)
        BY <2>1, <3>1, EntryUnits
      <3> QED
        BY <3>2, <3>3 DEF Entry
    <2> HIDE DEF e, first
    <2>6. PICK r \in Seq(Nat) : Joined(d) = first \o r
      BY <2>1, <2>4, FirstEntry DEF first
    <2>7. Joined(d) \in Seq(Nat) /\ Len(Joined(d)) <= MaxWindow
      BY <1>1, <2>5, <2>6, ConcatProperties DEF e
    <2>8. PICK q \in Seq(Nat) : Text(s) = q \o (first \o r)
      <3> DEFINE t == Joined(d)
      <3>1. t \in Seq(Nat) /\ Len(t) <= MaxWindow /\ Text(s) = NewestUnits(p \o t)
        BY <2>2, <2>3, <2>7
      <3> HIDE DEF t
      <3>2. \E q \in Seq(Nat) : Text(s) = q \o t
        BY <3>1, EndKept
      <3> QED
        BY <2>6, <3>2 DEF t
    <2>9. /\ SubSeq(Text(s), Len(q) + 1, Len(q) + Len(first)) = first
          /\ Len(q) + Len(first) <= Len(Text(s))
      BY <2>5, <2>8, MiddlePart
    <2>10. /\ Len(q) \in 0..(Len(Text(s)) - journal[e[n]].size)
           /\ SubSeq(Text(s), Len(q) + 1, Len(q) + journal[e[n]].size) = Entry(e[n])
      <3>1. Text(s) \in Seq(Nat)
        BY <2>5, <2>8, ConcatProperties
      <3>2. Len(Text(s)) \in Nat /\ Len(q) \in Nat /\ Len(first) \in Nat
        BY <2>5, <3>1, LenProperties
      <3> QED
        BY <2>5, <2>9, <3>2 DEF first
    <2>11. e[n] \in Seen(s)
      BY DEF Seen, e
    <2> QED
      BY <2>10, <2>11 DEF Told, e
  <1>2. JournalInv /\ TextIsTail => CutOnlyWhenFull
    BY <1>1 DEF CutOnlyWhenFull
  <1> QED
    BY <1>2, JournalInvariant, WindowIsTail, PTL
=============================================================================

----------------------------- MODULE PeekProofs -----------------------------
(***************************************************************************)
(* What peek shows of the store while others change it, for every number   *)
(* of processes and sessions and every interleaving: nothing torn, nothing *)
(* twice, and all that stays.                                              *)
(***************************************************************************)
EXTENDS Peek, CortexProofs

(* Where the reading of the directory is.                                  *)
ScanInv ==
  /\ pass \in {"idle", "rows", "state", "shown"}
  /\ owed \cap seen = {} /\ owed \subseteq DOMAIN dir /\ None \notin seen
  /\ pass \in {"idle", "shown"} => at = None /\ owed = {}
  /\ pass = "idle" => seen = {} /\ shown = {} /\ lasting = {}
  /\ at # None => WellNamed(at) /\ Matters(at, pass) /\ at \in seen

(* What an entry tells of its file.                                        *)
EntryOK(e) ==
  /\ WellNamed(e.name) /\ e.session = e.name[1]
  /\ e.kind = IF IsRow(e.name) THEN "row" ELSE Kind(e.name)
  /\ e.kind # "publishing" => e.text \in TextsOf(e.name) \cup {None}

(* The entries so far: one for a name, rows first.                         *)
ShownInv ==
  /\ \A e \in shown : EntryOK(e)
  /\ \A e, f \in shown : e.name = f.name => e = f
  /\ pass = "rows" => \A e \in shown : IsRow(e.name) /\ e.name \in seen \ {at}
  /\ pass = "state" => \A e \in shown : IsRow(e.name) \/ e.name \in seen \ {at}

Covered(n) == \E e \in shown : e.name = n /\ e.text # None

(* What stays is owed, in hand or shown.                                   *)
LastingInv ==
  /\ lasting \subseteq DOMAIN dir
  /\ \A n \in lasting :
       /\ IsRow(n) \/ Kind(n) # None
       /\ pass = "rows" /\ IsRow(n) => n \in owed \cup {at} \/ Covered(n)
       /\ pass = "state" => Covered(n) \/ (~IsRow(n) /\ n \in owed \cup {at})
       /\ pass = "shown" /\ Matching(n) => Covered(n)

PeekInv == CortexInv /\ ScanInv /\ ShownInv /\ LastingInv

-----------------------------------------------------------------------------
(* classify, on the names that there are.                                  *)
LEMMA RowNames ==
  ASSUME NEW n, WellNamed(n), IsRow(n)
  PROVE  Kind(n) = None /\ ~Unfinished(n) /\ TextsOf(n) = Rows
  <1>1. n[2] = "json" /\ Len(n) = 2
    BY DEF WellNamed, IsRow, Parts
  <1>2. ~Holds(n, "marker", "delivering") /\ ~Holds(n, "marker", "expiring")
        /\ ~Holds(n, "deliver-deadline", "publishing")
    BY <1>1 DEF Holds
  <1> QED
    BY <1>1, <1>2 DEF Kind, Unfinished, TextsOf

LEMMA KindNames ==
  ASSUME NEW n, WellNamed(n), Kind(n) # None
  PROVE  /\ Kind(n) # "publishing" => ~Unfinished(n)
         /\ Kind(n) = "deadline" => ~Unfinished(n) /\ TextsOf(n) = Times
         /\ ~IsRow(n)
  <1>1. ~IsRow(n)
    BY RowNames
  <1>2. CASE Len(n) = 2
    <2>1. Kind(n) = "deadline" => n[2] = "deliver-deadline"
      <3>1. /\ ~Holds(n, "marker", "delivering") /\ ~Holds(n, "marker", "expiring")
            /\ ~Holds(n, "deliver-deadline", "publishing")
        BY <1>2 DEF Holds
      <3> QED
        BY <1>2, <3>1 DEF Kind
    <2> QED
      BY <1>1, <1>2, <2>1 DEF Unfinished, TextsOf
  <1>3. CASE Len(n) = 4 /\ n[4] \notin Parts
    <2>1. \A part, operation : Holds(n, part, operation) <=> n[2] = part /\ n[3] = operation
      <3>1. 2..(Len(n) - 2) = {2}
        BY <1>3
      <3>2. ASSUME NEW part, NEW operation
            PROVE  (\E i \in {2} : n[i] = part /\ n[i + 1] = operation)
                     <=> n[2] = part /\ n[3] = operation
        <4>1. 2 + 1 = 3
          OBVIOUS
        <4> QED
          BY <4>1, Zenon
      <3> QED
        BY <3>1, <3>2, Zenon DEF Holds
    <2>2. n[Len(n)] # "marker" /\ n[Len(n)] # "deliver-deadline"
      BY <1>3 DEF Parts
    <2>3. CASE n[2] = "marker" /\ n[3] \in {"delivering", "expiring"}
      BY <1>1, <2>1, <2>2, <2>3 DEF Kind, Unfinished
    <2>4. CASE n[2] = "deliver-deadline" /\ n[3] = "publishing"
      BY <1>1, <2>1, <2>2, <2>4 DEF Kind
    <2>5. CASE /\ ~(n[2] = "marker" /\ n[3] \in {"delivering", "expiring"})
               /\ ~(n[2] = "deliver-deadline" /\ n[3] = "publishing")
      BY <2>1, <2>2, <2>5 DEF Kind
    <2> QED
      BY <2>3, <2>4, <2>5
  <1> QED
    BY <1>2, <1>3 DEF WellNamed

(* What a read of the file brings.                                         *)
LEMMA ReadText ==
  ASSUME CortexInv, NEW n \in DOMAIN dir
  PROVE  /\ WellNamed(n) /\ n # None
         /\ dir[n] # None
         /\ ~Unfinished(n) => dir[n] \in TextsOf(n)
  <1>1. /\ WellNamed(n) /\ n # None
        /\ dir[n] \in TextsOf(n) \cup {Torn}
        /\ ~Unfinished(n) => dir[n] \in TextsOf(n)
    BY DEF CortexInv, Kept
  <1>2. None \notin TextsOf(n) /\ None # Torn
    BY CortexAssumption DEF TextsOf
  <1> QED
    BY <1>1, <1>2

LEMMA StillCortex == CortexInv /\ UNCHANGED cortex => CortexInv'
  BY Zenon DEF CortexInv, cortex

-----------------------------------------------------------------------------
LEMMA InitPeek == PeekInit => PeekInv
  <1> SUFFICES ASSUME PeekInit PROVE PeekInv
    OBVIOUS
  <1>1. CortexInv
    BY InitInv DEF PeekInit
  <1>2. ScanInv
    BY DEF PeekInit, AtRest, ScanInv
  <1>3. ShownInv
    BY DEF PeekInit, AtRest, ShownInv
  <1>4. LastingInv
    BY DEF PeekInit, AtRest, LastingInv
  <1> QED
    BY <1>1, <1>2, <1>3, <1>4 DEF PeekInv

LEMMA MeanwhilePeek ==
  ASSUME PeekInv, Step, Meanwhile
  PROVE  PeekInv'
  <1>1. /\ UNCHANGED <<pass, at, seen, shown, wanted>>
        /\ owed' = owed \cap DOMAIN dir' /\ lasting' = lasting \cap DOMAIN dir'
    BY DEF Meanwhile
  <1>2. CortexInv'
    BY StepInv DEF PeekInv
  <1>3. ScanInv'
    <2>1. ScanInv
      BY DEF PeekInv
    <2>2. owed' \subseteq DOMAIN dir' /\ owed' \subseteq owed /\ lasting' \subseteq lasting
      BY <1>1
    <2>3. owed' \cap seen' = {}
      BY <1>1, <2>1, <2>2 DEF ScanInv
    <2>4. pass' \in {"idle", "shown"} => at' = None /\ owed' = {}
      BY <1>1, <2>1 DEF ScanInv
    <2>5. pass' = "idle" => seen' = {} /\ shown' = {} /\ lasting' = {}
      BY <1>1, <2>1 DEF ScanInv
    <2>6. at' # None => WellNamed(at') /\ Matters(at', pass') /\ at' \in seen'
      BY <1>1, <2>1 DEF ScanInv
    <2>7. pass' \in {"idle", "rows", "state", "shown"}
      BY <1>1, <2>1 DEF ScanInv
    <2>8. None \notin seen'
      BY <1>1, <2>1 DEF ScanInv
    <2> QED
      BY <2>2, <2>3, <2>4, <2>5, <2>6, <2>7, <2>8, Zenon DEF ScanInv
  <1>4. ShownInv'
    BY <1>1, Zenon DEF PeekInv, ShownInv, EntryOK
  <1>5. LastingInv'
    <2>1. ASSUME NEW n \in lasting'
          PROVE  /\ IsRow(n) \/ Kind(n) # None
                 /\ pass' = "rows" /\ IsRow(n) => n \in owed' \cup {at'} \/ Covered(n)'
                 /\ pass' = "state" => Covered(n)' \/ (~IsRow(n) /\ n \in owed' \cup {at'})
                 /\ pass' = "shown" /\ Matching(n)' => Covered(n)'
      <3>1. n \in lasting /\ n \in DOMAIN dir'
        BY <1>1, <2>1
      <3>2. (Covered(n)' <=> Covered(n)) /\ (Matching(n)' <=> Matching(n))
        BY <1>1, Zenon DEF Covered, Matching
      <3>3. n \in owed => n \in owed'
        BY <1>1, <3>1
      <3>4. /\ IsRow(n) \/ Kind(n) # None
            /\ pass = "rows" /\ IsRow(n) => n \in owed \cup {at} \/ Covered(n)
            /\ pass = "state" => Covered(n) \/ (~IsRow(n) /\ n \in owed \cup {at})
            /\ pass = "shown" /\ Matching(n) => Covered(n)
        BY <3>1, Zenon DEF PeekInv, LastingInv
      <3> QED
        BY <1>1, <3>2, <3>3, <3>4
    <2>2. lasting' \subseteq DOMAIN dir'
      BY <1>1
    <2> QED
      BY <2>1, <2>2, Zenon DEF LastingInv
  <1> QED
    BY <1>2, <1>3, <1>4, <1>5, Zenon DEF PeekInv

LEMMA ResetPeek ==
  ASSUME Reset, CortexInv'
  PROVE  PeekInv'
  <1>1. ScanInv'
    BY DEF Reset, ScanInv
  <1>2. ShownInv'
    BY DEF Reset, ShownInv
  <1>3. LastingInv'
    BY DEF Reset, LastingInv
  <1> QED
    BY <1>1, <1>2, <1>3, Zenon DEF PeekInv

LEMMA StartPeekPeek ==
  ASSUME PeekInv, StartPeek
  PROVE  PeekInv'
  <1>1. /\ pass' = "rows" /\ owed' = Owed("rows")
        /\ lasting' = Owed("rows") \cup Owed("state")
        /\ UNCHANGED <<cortex, at, seen, shown, wanted>> /\ dir' = dir
    BY DEF StartPeek, cortex
  <1>2. at = None /\ seen = {} /\ shown = {}
    BY DEF StartPeek, PeekInv, ScanInv
  <1>3. CortexInv'
    BY <1>1, StillCortex DEF PeekInv
  <1>4. /\ Owed("rows") = {n \in DOMAIN dir : IsRow(n)}
        /\ Owed("state") = {n \in DOMAIN dir : Kind(n) # None}
    BY DEF Owed, Matters
  <1>5. ScanInv'
    BY <1>1, <1>2, <1>4 DEF ScanInv
  <1>6. ShownInv'
    BY <1>1, <1>2 DEF ShownInv
  <1>7. LastingInv'
    BY <1>1, <1>4 DEF LastingInv
  <1> QED
    BY <1>3, <1>5, <1>6, <1>7, Zenon DEF PeekInv

LEMMA NextEntryPeek ==
  ASSUME PeekInv, NextEntry
  PROVE  PeekInv'
  <1>1. PICK n \in Owed(pass) \ seen :
          at' = n /\ seen' = seen \cup {n} /\ owed' = owed \ {n}
    BY DEF NextEntry
  <1>2. /\ pass \in {"rows", "state"} /\ at = None
        /\ UNCHANGED <<cortex, pass, shown, wanted, lasting>> /\ dir' = dir
    BY DEF NextEntry, cortex
  <1>3. n \in DOMAIN dir /\ Matters(n, pass)
    BY DEF Owed
  <1>4. WellNamed(n) /\ n # None
    BY <1>3, ReadText DEF PeekInv
  <1>5. CortexInv'
    BY <1>2, StillCortex DEF PeekInv
  <1>6. ScanInv'
    <2>1. ScanInv
      BY DEF PeekInv
    <2> QED
      BY <1>1, <1>2, <1>3, <1>4, <2>1 DEF ScanInv
  <1>7. ShownInv'
    <2>1. /\ \A e \in shown : EntryOK(e)
          /\ \A e, f \in shown : e.name = f.name => e = f
          /\ pass = "rows" => \A e \in shown : IsRow(e.name) /\ e.name \in seen \ {at}
          /\ pass = "state" => \A e \in shown : IsRow(e.name) \/ e.name \in seen \ {at}
      BY DEF PeekInv, ShownInv
    <2>2. \A m \in seen \ {at} : m \in seen' \ {at'}
      BY <1>1
    <2> QED
      BY <1>2, <2>1, <2>2, Zenon DEF ShownInv
  <1>8. LastingInv'
    <2>1. ASSUME NEW m \in lasting
          PROVE  /\ IsRow(m) \/ Kind(m) # None
                 /\ pass' = "rows" /\ IsRow(m) => m \in owed' \cup {at'} \/ Covered(m)'
                 /\ pass' = "state" => Covered(m)' \/ (~IsRow(m) /\ m \in owed' \cup {at'})
                 /\ pass' = "shown" /\ Matching(m)' => Covered(m)'
      <3>1. (Covered(m)' <=> Covered(m)) /\ (Matching(m)' <=> Matching(m))
        BY <1>2, Zenon DEF Covered, Matching
      <3>2. m \in owed \cup {at} => m \in owed' \cup {at'}
        <4>1. m \in DOMAIN dir
          BY DEF PeekInv, LastingInv
        <4>2. m # None
          BY <4>1, ReadText DEF PeekInv
        <4> QED
          BY <1>1, <1>2, <4>2
      <3>3. /\ IsRow(m) \/ Kind(m) # None
            /\ pass = "rows" /\ IsRow(m) => m \in owed \cup {at} \/ Covered(m)
            /\ pass = "state" => Covered(m) \/ (~IsRow(m) /\ m \in owed \cup {at})
            /\ pass = "shown" /\ Matching(m) => Covered(m)
        BY Zenon DEF PeekInv, LastingInv
      <3> QED
        BY <1>2, <3>1, <3>2, <3>3
    <2>2. lasting' = lasting /\ lasting' \subseteq DOMAIN dir'
      BY <1>2 DEF PeekInv, LastingInv
    <2> QED
      BY <2>1, <2>2, Zenon DEF LastingInv
  <1> QED
    BY <1>5, <1>6, <1>7, <1>8, Zenon DEF PeekInv

(* What a read of the entry in hand adds: at most one whole entry, and one *)
(* if the file is still there.                                             *)
LEMMA FoldAdds ==
  ASSUME PeekInv, pass \in {"rows", "state"}, at # None, NEW t,
         t = IF at \in DOMAIN dir THEN dir[at] ELSE None
  PROVE  /\ \A e \in Fold(t) : EntryOK(e) /\ e.name = at
         /\ \A e, f \in Fold(t) : e = f
         /\ at \in DOMAIN dir => \E e \in Fold(t) : e.name = at /\ e.text # None
  <1>1. WellNamed(at) /\ Matters(at, pass)
    BY DEF PeekInv, ScanInv
  <1>2. at \in DOMAIN dir => t # None /\ (~Unfinished(at) => t \in TextsOf(at))
    BY ReadText DEF PeekInv
  <1>3. CASE pass = "rows"
    <2>1. IsRow(at) /\ ~Unfinished(at) /\ TextsOf(at) = Rows
      BY <1>1, <1>3, RowNames DEF Matters
    <2>2. Fold(t) = IF t \in Rows THEN {Entry("row", t)} ELSE {}
      BY <1>3 DEF Fold
    <2>3. /\ Entry("row", t).name = at /\ Entry("row", t).session = at[1]
          /\ Entry("row", t).kind = "row" /\ Entry("row", t).text = t
      BY DEF Entry
    <2>4. t \in Rows => EntryOK(Entry("row", t))
      BY <1>1, <2>1, <2>3 DEF EntryOK
    <2> QED
      BY <1>2, <2>1, <2>2, <2>3, <2>4
  <1>4. CASE pass = "state"
    <2> DEFINE told == IF Kind(at) = "deadline" /\ t \notin Times THEN None ELSE t
               new == Entry(Kind(at), told)
    <2>1. Kind(at) # None
      BY <1>1, <1>4 DEF Matters
    <2>2. /\ Kind(at) # "publishing" => ~Unfinished(at)
          /\ Kind(at) = "deadline" => ~Unfinished(at) /\ TextsOf(at) = Times
          /\ ~IsRow(at)
      BY <1>1, <2>1, KindNames
    <2>3. Fold(t) = {new}
      BY <1>4 DEF Fold
    <2>4. new.name = at /\ new.session = at[1] /\ new.kind = Kind(at) /\ new.text = told
      BY DEF Entry
    <2>5. Kind(at) # "publishing" => told \in TextsOf(at) \cup {None}
      BY <1>2, <2>2
    <2>6. at \in DOMAIN dir => told # None
      BY <1>2, <2>2
    <2> HIDE DEF told, new
    <2>7. EntryOK(new)
      BY <1>1, <2>2, <2>4, <2>5 DEF EntryOK
    <2> QED
      BY <2>3, <2>4, <2>6, <2>7
  <1> QED
    BY <1>3, <1>4

LEMMA ReadEntryPeek ==
  ASSUME PeekInv, ReadEntry
  PROVE  PeekInv'
  <1> DEFINE t == IF at \in DOMAIN dir THEN dir[at] ELSE None
             more == Fold(t)
  <1>1. /\ at # None /\ at' = None /\ shown' = shown \cup more
        /\ UNCHANGED <<cortex, pass, seen, owed, wanted, lasting>> /\ dir' = dir
    BY DEF ReadEntry, cortex
  <1>2. pass \in {"rows", "state"} /\ Matters(at, pass) /\ at \in seen /\ WellNamed(at)
    BY <1>1 DEF PeekInv, ScanInv
  <1>3. /\ \A e \in more : EntryOK(e) /\ e.name = at
        /\ \A e, f \in more : e = f
        /\ at \in DOMAIN dir => \E e \in more : e.name = at /\ e.text # None
    <2> HIDE DEF t
    <2>1. t = IF at \in DOMAIN dir THEN dir[at] ELSE None
      BY DEF t
    <2> QED
      BY <1>1, <1>2, <2>1, FoldAdds
  <1> HIDE DEF more
  <1>4. CortexInv'
    BY <1>1, StillCortex DEF PeekInv
  <1>5. ScanInv'
    BY <1>1, <1>2 DEF PeekInv, ScanInv
  <1>6. ShownInv'
    <2>1. /\ \A e \in shown : EntryOK(e)
          /\ \A e, f \in shown : e.name = f.name => e = f
          /\ pass = "rows" => \A e \in shown : IsRow(e.name) /\ e.name \in seen \ {at}
          /\ pass = "state" => \A e \in shown : IsRow(e.name) \/ e.name \in seen \ {at}
      BY DEF PeekInv, ShownInv
    <2>2. \A e \in shown : e.name # at
      <3>1. pass = "state" => ~IsRow(at)
        BY <1>2, KindNames DEF Matters
      <3> QED
        BY <1>2, <2>1, <3>1
    <2>3. \A e, f \in shown' : e.name = f.name => e = f
      BY <1>1, <1>3, <2>1, <2>2
    <2>4. pass = "rows" => IsRow(at)
      BY <1>2 DEF Matters
    <2>5. seen' \ {at'} = seen
      BY <1>1 DEF PeekInv, ScanInv
    <2> QED
      BY <1>1, <1>2, <1>3, <2>1, <2>3, <2>4, <2>5 DEF ShownInv
  <1>7. LastingInv'
    <2>1. ASSUME NEW n \in lasting
          PROVE  /\ IsRow(n) \/ Kind(n) # None
                 /\ pass' = "rows" /\ IsRow(n) => n \in owed' \cup {at'} \/ Covered(n)'
                 /\ pass' = "state" => Covered(n)' \/ (~IsRow(n) /\ n \in owed' \cup {at'})
                 /\ pass' = "shown" /\ Matching(n)' => Covered(n)'
      <3>1. Covered(n) => Covered(n)'
        BY <1>1 DEF Covered
      <3>2. n = at => Covered(n)'
        <4>1. n \in DOMAIN dir
          BY DEF PeekInv, LastingInv
        <4> QED
          BY <1>1, <1>3, <4>1 DEF Covered
      <3>3. /\ IsRow(n) \/ Kind(n) # None
            /\ pass = "rows" /\ IsRow(n) => n \in owed \cup {at} \/ Covered(n)
            /\ pass = "state" => Covered(n) \/ (~IsRow(n) /\ n \in owed \cup {at})
        BY Zenon DEF PeekInv, LastingInv
      <3> QED
        BY <1>1, <1>2, <3>1, <3>2, <3>3
    <2>2. lasting' = lasting /\ lasting' \subseteq DOMAIN dir'
      BY <1>1 DEF PeekInv, LastingInv
    <2> QED
      BY <2>1, <2>2, Zenon DEF LastingInv
  <1> QED
    BY <1>4, <1>5, <1>6, <1>7, Zenon DEF PeekInv

LEMMA StateNextPeek ==
  ASSUME PeekInv, StateNext
  PROVE  PeekInv'
  <1>1. /\ pass = "rows" /\ at = None /\ owed = {}
        /\ pass' = "state" /\ seen' = {} /\ owed' = Owed("state")
        /\ UNCHANGED <<cortex, at, shown, wanted, lasting>> /\ dir' = dir
    BY DEF StateNext, cortex
  <1>2. CortexInv'
    BY <1>1, StillCortex DEF PeekInv
  <1>3. Owed("state") = {n \in DOMAIN dir : Kind(n) # None}
    BY DEF Owed, Matters
  <1>4. ScanInv'
    BY <1>1, <1>3 DEF ScanInv
  <1>5. ShownInv'
    BY <1>1 DEF PeekInv, ShownInv
  <1>6. LastingInv'
    <2>1. ASSUME NEW n \in lasting
          PROVE  /\ IsRow(n) \/ Kind(n) # None
                 /\ Covered(n)' \/ (~IsRow(n) /\ n \in owed')
      <3>1. Covered(n)' <=> Covered(n)
        BY <1>1, Zenon DEF Covered
      <3>2. /\ IsRow(n) \/ Kind(n) # None
            /\ IsRow(n) => n \in owed \cup {at} \/ Covered(n)
            /\ n \in DOMAIN dir
        BY <1>1 DEF PeekInv, LastingInv
      <3>3. n # None
        BY <3>2, ReadText DEF PeekInv
      <3> QED
        BY <1>1, <1>3, <3>1, <3>2, <3>3
    <2>2. lasting' = lasting /\ lasting' \subseteq DOMAIN dir'
      BY <1>1 DEF PeekInv, LastingInv
    <2> QED
      BY <1>1, <2>1, <2>2 DEF LastingInv
  <1> QED
    BY <1>2, <1>4, <1>5, <1>6, Zenon DEF PeekInv

(* The filters keep what they should: whoever matches is still shown.      *)
LEMMA FinishPeekPeek ==
  ASSUME PeekInv, FinishPeek
  PROVE  PeekInv'
  <1>1. PICK session \in {n[1] : n \in lasting} \cup {None}, key \in Rows \cup {None} :
          wanted' = <<session, key>> /\ shown' = Filtered(session, key)
    BY DEF FinishPeek
  <1>2. /\ pass = "state" /\ at = None /\ owed = {} /\ pass' = "shown"
        /\ UNCHANGED <<cortex, at, seen, owed, lasting>> /\ dir' = dir
    BY DEF FinishPeek, cortex
  <1>3. CortexInv'
    BY <1>2, StillCortex DEF PeekInv
  <1>4. ScanInv'
    BY <1>2 DEF PeekInv, ScanInv
  <1>5. shown' \subseteq shown
    BY <1>1 DEF Filtered
  <1>6. ShownInv'
    BY <1>2, <1>5 DEF PeekInv, ShownInv
  <1>7. ASSUME NEW n \in lasting, Matching(n)'
        PROVE  Covered(n)'
    <2>1. n # None
      BY ReadText DEF PeekInv, LastingInv
    <2>2. Covered(n)
      BY <1>2, <2>1 DEF PeekInv, LastingInv
    <2>3. PICK e \in shown : e.name = n /\ e.text # None
      BY <2>2 DEF Covered
    <2>4. e.session = n[1]
      BY <2>3 DEF PeekInv, ShownInv, EntryOK
    <2>5. /\ session \in {None, n[1]}
          /\ key # None => \E f \in shown' : f.name = RowOf(n[1]) /\ f.text = key
      BY <1>1, <1>7 DEF Matching
    <2>6. key # None => \E r \in shown : r.kind = "row" /\ r.text = key /\ r.session = e.session
      <3>1. ASSUME key # None
            PROVE  \E r \in shown : r.kind = "row" /\ r.text = key /\ r.session = e.session
        <4>1. PICK f \in shown' : f.name = RowOf(n[1]) /\ f.text = key
          BY <2>5, <3>1
        <4>2. f \in shown /\ EntryOK(f)
          BY <1>5 DEF PeekInv, ShownInv
        <4>3. f.name = <<n[1], "json">> /\ IsRow(f.name) /\ f.name[1] = n[1]
          BY <4>1 DEF RowOf, IsRow
        <4>4. f.kind = "row" /\ f.session = n[1]
          BY <4>2, <4>3 DEF EntryOK
        <4> QED
          BY <2>4, <4>1, <4>2, <4>4
      <3> QED
        BY <3>1
    <2>7. e \in Filtered(session, key)
      BY <2>4, <2>5, <2>6 DEF Filtered
    <2> QED
      BY <1>1, <2>3, <2>7 DEF Covered
  <1>8. LastingInv'
    <2>1. \A n \in lasting : IsRow(n) \/ Kind(n) # None
      BY DEF PeekInv, LastingInv
    <2>2. lasting' = lasting /\ lasting' \subseteq DOMAIN dir'
      BY <1>2 DEF PeekInv, LastingInv
    <2> QED
      BY <1>2, <1>7, <2>1, <2>2 DEF LastingInv
  <1> QED
    BY <1>3, <1>4, <1>6, <1>8, Zenon DEF PeekInv

LEMMA StepPeek == PeekInv /\ [Next]_vars => PeekInv'
  <1> SUFFICES ASSUME PeekInv, [Next]_vars PROVE PeekInv'
    OBVIOUS
  <1>1. CASE PowerLoss /\ Reset
    BY <1>1, PowerLossInv, ResetPeek DEF PeekInv
  <1>2. CASE EndPeek
    <2>1. Reset /\ UNCHANGED cortex
      BY <1>2 DEF EndPeek, cortex
    <2> QED
      BY <2>1, StillCortex, ResetPeek DEF PeekInv
  <1>3. CASE UNCHANGED vars
    <2>1. UNCHANGED cortex
      BY <1>3 DEF vars, cortex
    <2>2. CortexInv'
      BY <2>1, StillCortex DEF PeekInv
    <2>3. UNCHANGED <<dir, pass, at, seen, owed, shown, wanted, lasting>>
      BY <1>3 DEF vars
    <2>4. ScanInv'
      BY <2>3 DEF PeekInv, ScanInv
    <2>5. ShownInv'
      BY <2>3, Zenon DEF PeekInv, ShownInv, EntryOK
    <2>6. LastingInv'
      <3>1. LastingInv
        BY DEF PeekInv
      <3>2. \A n : (Covered(n)' <=> Covered(n)) /\ (Matching(n)' <=> Matching(n))
        BY <2>3, Zenon DEF Covered, Matching
      <3> QED
        BY <2>3, <3>1, <3>2 DEF LastingInv
    <2> QED
      BY <2>2, <2>4, <2>5, <2>6, Zenon DEF PeekInv
  <1> QED
    BY <1>1, <1>2, <1>3, MeanwhilePeek, StartPeekPeek, NextEntryPeek, ReadEntryPeek,
       StateNextPeek, FinishPeekPeek DEF Next

-----------------------------------------------------------------------------
(* The processes, their files and the reading keep their types: who writes *)
(* writes to a file of its own, and what is read is one pass at a time.    *)
THEOREM TypeCorrect == Spec => []TypeOK
  <1>1. PeekInv => TypeOK
    BY TypesByInv DEF PeekInv, ScanInv, TypeOK
  <1> QED
    BY InitPeek, StepPeek, <1>1, PTL DEF Spec

(* write_atomic, publication and claims: whoever opens a row, a marker, a  *)
(* deadline or a claim finds a whole text, whatever was killed, swept or   *)
(* cut off from power before.                                              *)
THEOREM ReadersSeeWholeTexts == Spec => []PublishedIsWhole
  <1>1. PeekInv => PublishedIsWhole
    BY WholeByInv DEF PeekInv
  <1> QED
    BY InitPeek, StepPeek, <1>1, PTL DEF Spec

(* peek's records hold no half-written row, marker, deadline or claim.     *)
THEOREM NothingTornIsShown == Spec => []ShownIsWhole
  <1>1. PeekInv => ShownIsWhole
    BY DEF PeekInv, ShownInv, EntryOK, ShownIsWhole
  <1> QED
    BY InitPeek, StepPeek, <1>1, PTL DEF Spec

(* records_from: what stays in the store while the directory is read twice *)
(* is shown once, under its own session, unless a filter excludes it.      *)
THEOREM NothingStayingIsMissed == Spec => []StayingIsShown
  <1>1. ASSUME PeekInv PROVE StayingIsShown
    <2> SUFFICES ASSUME pass = "shown", NEW n \in lasting, Matching(n)
                 PROVE  \E e \in shown : /\ e.name = n /\ e.session = n[1] /\ e.text # None
                                         /\ \A f \in shown : f.name = n => f = e
      BY DEF StayingIsShown
    <2>1. PICK e \in shown : e.name = n /\ e.text # None
      BY <1>1 DEF PeekInv, LastingInv, Covered
    <2>2. e.session = n[1]
      BY <1>1, <2>1 DEF PeekInv, ShownInv, EntryOK
    <2>3. \A f \in shown : f.name = n => f = e
      BY <1>1, <2>1 DEF PeekInv, ShownInv
    <2> QED
      BY <2>1, <2>2, <2>3
  <1> QED
    BY InitPeek, StepPeek, <1>1, PTL DEF Spec

(* The files implement what they promise to readers: every call is one     *)
(* step for them or none.                                                  *)
THEOREM FilesImplementShelf == Spec => ImplementsShelf
  <1>1. PeekInit => Promise!Init
    BY InitInv, InitPromised DEF PeekInit
  <1>2. PeekInv /\ [Next]_vars => [Promise!Next]_(Promise!vars)
    <2> SUFFICES ASSUME PeekInv, [Next]_vars PROVE Promise!Next \/ UNCHANGED Promise!vars
      OBVIOUS
    <2>1. CASE Step \/ PowerLoss
      BY <2>1, StepPromised, PowerLossPromised DEF PeekInv
    <2>2. CASE UNCHANGED cortex
      BY <2>2, StillPromised
    <2>3. Step \/ PowerLoss \/ UNCHANGED cortex
      BY DEF Next, vars, cortex, StartPeek, NextEntry, ReadEntry, StateNext, FinishPeek, EndPeek
    <2> QED
      BY <2>1, <2>2, <2>3
  <1> QED
    BY InitPeek, StepPeek, <1>1, <1>2, PTL DEF Spec, ImplementsShelf, Promise!Spec
=============================================================================

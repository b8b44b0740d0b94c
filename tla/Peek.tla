-------------------------------- MODULE Peek --------------------------------
(***************************************************************************)
(* peek (src/peek.rs records_from over src/store.rs rows) reads the        *)
(* directory twice, entry by entry, rows first and delivery state second,  *)
(* while other processes change it.  A directory that is being read gives  *)
(* every name that stays there once, and a name that comes or goes         *)
(* meanwhile perhaps.                                                      *)
(***************************************************************************)
EXTENDS Cortex

CONSTANT MaxCalls  \* how many system calls the others make

VARIABLES
  pass,    \* which reading of the directory is going on
  at,      \* the name of the entry that is being read
  seen,    \* the names the directory gave in this pass
  owed,    \* those it has yet to give, unless they go away
  shown,   \* what the records hold so far
  wanted,  \* the filters on session and key
  calls,   \* the system calls the others made
  lasting  \* history: the names that stayed since the start

peek == <<pass, at, seen, owed, shown, wanted, calls, lasting>>
vars == <<dir, dirty, proc, pass, at, seen, owed, shown, wanted, calls, lasting>>

AtRest ==
  /\ pass = "idle" /\ at = None
  /\ seen = {} /\ owed = {} /\ shown = {}
  /\ wanted = <<None, None>>
  /\ lasting = {}

PeekInit == Init /\ AtRest /\ calls = 0

-----------------------------------------------------------------------------
IsRow(n) == n[Len(n)] = "json"

(* split_once: the two parts stand between a session and something else.   *)
Holds(n, part, operation) ==
  \E i \in 2..(Len(n) - 2) : n[i] = part /\ n[i + 1] = operation

(* Mutant: a file belongs to what its session part is followed by.         *)
SecondPart(n) ==
  CASE n[2] = "marker" -> "marker"
    [] n[2] = "deliver-deadline" -> "deadline"
    [] OTHER -> None

(* classify: a marker, a deadline, a claim with its operation, or nothing. *)
Kind(n) ==
  CASE n[Len(n)] = "marker" -> "marker"
    [] n[Len(n)] = "deliver-deadline" -> "deadline"
    [] Holds(n, "marker", "delivering") -> "delivering"
    [] Holds(n, "marker", "expiring") -> "expiring"
    [] Holds(n, "deliver-deadline", "publishing") -> "publishing"
    [] OTHER -> None

Matters(n, p) == IF p = "rows" THEN IsRow(n) ELSE Kind(n) # None
Owed(p) == {n \in DOMAIN dir : Matters(n, p)}

(* open_existing, and read_dir for the rows.                               *)
StartPeek ==
  /\ pass = "idle"
  /\ pass' = "rows"
  /\ owed' = Owed("rows")
  /\ lasting' = Owed("rows") \cup Owed("state")
  /\ UNCHANGED <<cortex, at, seen, shown, wanted, calls>>

NextEntry ==
  /\ pass \in {"rows", "state"} /\ at = None
  /\ \E n \in Owed(pass) \ seen :
       /\ at' = n
       /\ seen' = seen \cup {n}
       /\ owed' = owed \ {n}
  /\ UNCHANGED <<cortex, pass, shown, wanted, calls, lasting>>

Entry(kind, t) == [session |-> at[1], name |-> at, kind |-> kind, text |-> t]

(* Mutant: only sessions with a row have a record.                         *)
KnownOnly(t) ==
  IF pass = "rows" THEN IF t \in Rows THEN {Entry("row", t)} ELSE {}
  ELSE IF \E e \in shown : e.session = at[1] THEN {Entry(Kind(at), t)} ELSE {}

(* What an entry adds to the records: a row that cannot be read or parsed  *)
(* is reported and skipped, any other file is shown as far as it can be    *)
(* read, under a record of its own if its session has none.                *)
Fold(t) ==
  IF pass = "rows" THEN IF t \in Rows THEN {Entry("row", t)} ELSE {}
  ELSE {Entry(Kind(at), IF Kind(at) = "deadline" /\ t \notin Times THEN None ELSE t)}

(* read_to_string: the entry may be gone by now, or lead to another text.  *)
ReadEntry ==
  /\ at # None
  /\ shown' = shown \cup Fold(IF at \in DOMAIN dir THEN dir[at] ELSE None)
  /\ at' = None
  /\ UNCHANGED <<cortex, pass, seen, owed, wanted, calls, lasting>>

StateNext ==
  /\ pass = "rows" /\ at = None /\ owed = {}
  /\ pass' = "state"
  /\ seen' = {} /\ owed' = Owed("state")
  /\ UNCHANGED <<cortex, at, shown, wanted, calls, lasting>>

(* The filters, after everything was gathered; a record without a row      *)
(* matches no key.                                                         *)
Filtered(session, key) ==
  {e \in shown : /\ session \in {None, e.session}
                 /\ key # None => \E r \in shown : /\ r.kind = "row" /\ r.text = key
                                                   /\ r.session = e.session}

FinishPeek ==
  /\ pass = "state" /\ at = None /\ owed = {}
  /\ \E session \in {n[1] : n \in lasting} \cup {None}, key \in Rows \cup {None} :
       wanted' = <<session, key>> /\ shown' = Filtered(session, key)
  /\ pass' = "shown"
  /\ UNCHANGED <<cortex, at, seen, owed, calls, lasting>>

Reset ==
  /\ pass' = "idle" /\ at' = None
  /\ seen' = {} /\ owed' = {} /\ shown' = {}
  /\ wanted' = <<None, None>>
  /\ lasting' = {}

(* The records were printed, or the directory could not be read on.        *)
EndPeek ==
  /\ pass # "idle" /\ at = None
  /\ Reset
  /\ UNCHANGED <<cortex, calls>>

(* What a step of the others means for the reading of the directory.       *)
Meanwhile ==
  /\ calls < MaxCalls /\ calls' = calls + 1
  /\ owed' = owed \cap DOMAIN dir'
  /\ lasting' = lasting \cap DOMAIN dir'
  /\ UNCHANGED <<pass, at, seen, shown, wanted>>

Next ==
  \/ Step /\ Meanwhile
  \/ PowerLoss /\ Reset /\ UNCHANGED calls
  \/ StartPeek \/ NextEntry \/ ReadEntry \/ StateNext \/ FinishPeek \/ EndPeek

Spec == PeekInit /\ [][Next]_vars

-----------------------------------------------------------------------------
TypeOK ==
  /\ CortexTypeOK
  /\ pass \in {"idle", "rows", "state", "shown"}
  /\ owed \cap seen = {} /\ owed \subseteq DOMAIN dir
  /\ pass = "shown" => at = None /\ owed = {}

(* Whatever is written, claimed, swept or left by a crash while peek reads,*)
(* it shows no half-written row, marker, deadline or claim; only the       *)
(* candidate of a deadline may be caught before its text is complete.      *)
ShownIsWhole ==
  \A e \in shown : e.kind # "publishing" => e.text \in TextsOf(e.name) \cup {None}

(* What stays in the store while peek reads, however often it is replaced  *)
(* and whatever else comes and goes, is shown once, under its session, an  *)
(* orphan without a row too; only a filter on the key asks for a row.      *)
Matching(n) ==
  /\ wanted[1] \in {None, n[1]}
  /\ wanted[2] # None => \E e \in shown : e.name = RowOf(n[1]) /\ e.text = wanted[2]

StayingIsShown ==
  pass = "shown" =>
    \A n \in lasting : Matching(n) =>
      \E e \in shown : /\ e.name = n /\ e.session = n[1] /\ e.text # None
                       /\ \A f \in shown : f.name = n => f = e
=============================================================================

# Amnestic Trace: a TLA+ model

Amnestic Trace (`amtr`) gives a coding agent its memory back after its host has compacted a
conversation. When the host is about to compact, a hook runs `amtr synthesize`: it writes down that
a snapshot is owed, detaches, lets an agent summarise the session's journal and stores the summary.
Every later hook runs `amtr recall`: if a snapshot is owed it waits for a moment, claims it and
prints it into the conversation. There is no server and no lock. Processes that know nothing of
each other meet over a handful of files, and every guarantee rests on the order of `rename`,
`link`, `unlink` and `read`. That is what this project models, checks and proves.

Paths like `src/recall.rs` are relative to the repository; `README.md` below means the repository's
own where a line number follows.

## 1. Inventory

| Component | State it keeps | Operations | Meets |
|---|---|---|---|
| **Delivery protocol** `src/recall.rs` | per session: the marker (`missing`, `ongoing`, `ready:<key>`, malformed), the shared deadline, claim files `.delivering` / `.expiring`, candidate files `.publishing` | `recall_from`, `open_or_join_window`, `deliver_claim`, `fold_debt`, `restore_claim` | other hooks and the capture, over the same files |
| **Capture** `src/synthesize.rs` | marker, deadline, row of its session; a scratch directory | `synthesize`, `prepare_debt` with its sweep, `work`, `drop_marker` | hooks of the session; starts extraction; reads the journal |
| **Store** `src/store.rs` | one row per session, marker and deadline paths, the base directory | `save`, `load`, `forget`, `find_by_key`, `take`, `clone_to`, `mark_ongoing`, `mark_ready`, `unmark`, `write_atomic`, `open` | everybody |
| **Explicit handoff** `src/recall.rs:369`, `src/store.rs:183` | rows of two sessions | `handoff`: lookup by key, then move or clone | captures and other handoffs |
| **Extraction** `src/extract.rs` | a child process in a group of its own, three pipes, three threads | `drive_with_timeout`, `validate` | called by the capture's worker; an agent that may do anything |
| **Journal window** `src/journal.rs` | none (reads a file the host appends to) | `read_bounded_line`, `slice_lines`, `render` | the capture; its boundary `compacted_at` is in the row |
| **Detach** `src/detach.rs` | process, session, log file | `detach`, `log_stderr_to` | the capture |
| **Peek** `src/peek.rs` | the records gathered so far | `records_from`, `classify`, `render` | reads the store while others write |
| **Journal discovery** `src/synthesize.rs:42` | none | `Request::journal`, `find_codex_journal` | host files |
| **Command line** `src/main.rs` | none | routing, exit status, printing the hook's output | calls the others |
| **Plugin adapters** `plugin/` | none | shell adapter, hook manifests with 10 s and 35 s timeouts | fix when hooks run |

What is hard, and what makes each part correct:

* **Delivery and capture.** Any number of hooks may run at once, at any step of a capture; a worker
  runs for minutes after its hook has returned, may hang or be killed, and may still run when the
  next compaction begins; a hook is killed by the host after 35 s. A snapshot must not be injected
  twice; a hook must never wait for ever, and all hooks together only one budget per debt; a
  snapshot that becomes ready in the very moment it is given up must survive; a failing capture
  must not leave a debt behind; a marker must not promise a row that is not there.
* **Handoff.** Two sequences of steps (lookup then save, save then forget) run while other
  processes rewrite the same rows; a process may die between them; file names are a lossy function
  of session ids. A key must name one snapshot, have one owner, and not be lost.
* **Extraction.** Three pipes, an agent that may write without reading or exit without being read,
  helpers that inherit its pipes. Nobody may wait on a pipe that no one serves; the answer must be
  complete; the process group must be gone afterwards; the call must return.
* **Journal.** The reader and the host's writer run at the same time; windows of successive
  captures must cover the journal without gap or overlap; a line that is too long, cut by a chunk
  boundary or by the end of the file must not shift, split or join records, or fill the memory.
* **Store home.** Every process resolves the store's directory anew, hooks do so twice, and several
  processes create it at once; the log redirection creates it first, with the umask's mode, because
  it has to precede everything that can fail. The store must not move, must be private to whoever
  opened it, and an error must be found in its log.
* **Files of the store.** A write is five calls, and a process may be killed between any two of
  them or the power may fail; a reader must find the old text or the new one. Claims and
  publications are renames and links of files that a sweep may take away at any moment.
* **Peek.** It reads the directory entry by entry while all this goes on, and exists to show what
  is stuck: it must not miss what stays there, nor show what is half written.

The full list of hazards, with the line where each bites and the properties that would notice, is
in `PROJECT.json`.

## 2. Modules

| Module | Role | Models |
|---|---|---|
| `Injection.tla` | abstract specification | what a host may rely on: a snapshot is injected only after it was offered, and by one hook at most |
| `Delivery.tla` | component | delivery protocol and capture of one session, by any number of hooks and debts |
| `MCDelivery.tla` | instances | the stores a session may start from; hook symmetry |
| `DeliveryProofs.tla` | proofs | at-most-once, exact discharge, refinement of `Injection`; one window, one worker, one snapshot that survives |
| `Handoff.tla`, `MCHandoff.tla` | component, instances | rows of all sessions, moves, clones and captures |
| `HandoffProofs.tla` | proofs | a key names one snapshot, has one owner and is not lost |
| `Extraction.tla` | component and instance | one run of the extraction agent |
| `ExtractionProofs.tla` | proofs | the whole answer, pipes that are served, the group that is gone |
| `LineReader.tla` | component and instance | the reading of a growing journal in arbitrary chunks, into lines of bounded length |
| `LineReaderProofs.tla` | proofs | bounded memory, alignment with the lines, lines told whole, and all of them |
| `Journal.tla`, `MCJournal.tla` | component, instance | the windows captures cut from a growing journal |
| `JournalProofs.tla` | proofs | nothing skipped, nothing replayed, records cut for room only, the ring drops nothing that would show |
| `StoreHome.tla`, `MCStoreHome.tla` | component, instance | how processes start: log, payload, the store's directory |
| `StoreHomeProofs.tla` | proofs | the store stays, is private, is lost to races only; its log is short and holds the errors |
| `Shelf.tla` | abstract specification | what the store's files promise a reader: every call is one step |
| `Cortex.tla` | component | the store's files, one system call at a time |
| `CortexProofs.tla` | lemmas | the invariant of the files, and the refinement of `Shelf`, call by call |
| `Peek.tla`, `MCPeek.tla` | composition, instance | `Cortex` with a scan of its directory |
| `PeekProofs.tla` | proofs | whole texts, whole records, nothing that stays is missed, refinement of `Shelf` |

Definitions marked "Mutant" are wrong variants of the definition that follows them: the way a
plausible slip in the code would read. They belong to no specification; each exists because
replacing the real definition by it makes TLC refute a property. Assumptions on constants are
stated, and named, in the module that declares them; a condition only some theorems need is a definition
(`OneMover`, `SettledAtFirst`, `OneDebt`) that those theorems assume.

### Delivery

One action is one file-system operation with whatever the process computes before its next one.
A hook's program counter `pc[h]` names that next operation:

| Code | Actions |
|---|---|
| `recall_from`: first read of the marker | `ReadMarker` |
| `open_or_join_window`: clock, candidate, `hard_link`, reading the winner's file | `ReadClock`, `CreateCandidate`, `LinkDeadline`, `JoinWindow` |
| the poll loop, and the read after it | `Sleep`, `Poll`, `Recheck` |
| `deliver_claim`: rename, compare the claimed text, load and compare the row, unlink, unlink, print | `ClaimMarker`, `CheckHeld`, `LoadRow`, `DischargeClaim`, `CloseWindow`, `PrintOutput` |
| `fold_debt`: rename, judge, unlink, unlink | `FoldDebt`, `JudgeClaim`, `ExpireClaim`, `LapseWindow` |
| `restore_claim`: link back without replacing, unlink | `RestoreClaim`, `DropRestored` |
| a read that fails for another reason than absence; a call whose error is returned, a kill | `ReadFails`, `StopHook` |
| `prepare_debt`: unlink the deadline, list, sweep, mark | `Begin`, `ClearDeadline`, `ListScraps`, `Sweep`, `EndSweep`, `MarkOngoing` |
| `detach`; `work`; `mark_ready`; `drop_marker`; a kill | `Detach`, `CannotDetach`, `Extract`, `SaveRow`, `MarkReady`, `DropMarker`, `StopSynth` |

Data is kept to what the protocol compares. A snapshot is its key; a row is the key stored in it;
debt `s` mints key `s`, and key 0 stands for a snapshot of an earlier life of the store. An ongoing
marker carries the debt that wrote it as a ghost no process reads (the file holds the word
`ongoing` only). `None` is an absent file, `Garbage` one that does not parse. The clock is a
counter that any step may find advanced. `read_dir` returns at least what was there when it was
called, and may return what came later. Writes are atomic: that a reader sees the old content or the
new is what `Cortex` shows of `write_atomic`.

### Handoff

Rows are records of session, key and memory, where memory is the set of snapshots the text goes
back to: a capture adds its own to what it loaded. Files and sessions are distinct, with `slug` as
the constant function between them, because `b` and `b.` share a file. `find_by_key` reads the
directory one entry at a time; `take` saves, then forgets in a second step; a capture loads its
prior row, and saves much later. `Die` stops a process between any two steps.

### Extraction

The main thread follows `drive_with_timeout` line by line; the writer, the reader and the stderr
thread move one unit at a time through pipes of `Capacity` units. The agent and its helpers are
arbitrary: whoever holds the pipes may read, write, fork or leave at any moment, and may leave the
process group. A unit of stdout is a unit of the handoff (`strip_preamble` and `trim` cut only text
before and after it); `validate` is an interval of accepted sizes. A read of the reader or of the stderr
thread may fail (`ReadFails`): the thread ends and its end of the pipe is closed, so that the agent can
no longer write there, and a failed reader fails the call when it is joined.

### Journal

The journal is a sequence of records, each a timestamp and the size of its rendered text; a line that
is too long, not UTF-8, not JSON or without a timestamp has neither. The host appends a record in one
write or in two. A capture loads the row, reads record by record until the end of the file as it is
at that moment, and saves a row whose boundary is the last timestamp of its window. Text is counted
in units; the ring of `slice_lines` is the number of entries it has shed from the front, `Text` what
is left after the final cut. The boundary passes what was shed or cut all the same, so a row carries
as history two sets of records, from all the extractions it goes back to: those the agent read whole
as `render` gave them (`memory`, by `Told`) and those that did not fit the window (`cut`). Explicit
handoffs act on the row from outside: `ReceiveRow` puts another session's row in its place (`take`
with the giver's boundary, `clone_to` with the time of cloning; both are any timestamp of this
journal), `ForgetRow` gives it away. `inherited` is the boundary such a row brought along, 0 for a row
all of the session's own making.

### LineReader

`read_bounded_line` and the loop of `bounded_lines` around it, one action per round: `fill_buf`
offers any number of the bytes that are there (`ReadSome`), which `Take` cuts at the first newline;
an empty chunk is the end of the file *as it is now* (`ReachEnd`), so a line without a newline ends
there and the host may append its rest afterwards; `Interrupted` and `ReadError` are the two kinds
of failure. Bytes are model values: a newline, the two halves of a character and any other byte.
`start` and `cuts` are history: where the line in hand starts, and where the end of the file cut
one. `Journal` begins with the records this module yields.

### StoreHome

Several processes start: captures and hooks (`redirect`, `mkdir`, `measure`, `rotate`, `open log`,
then their payload), commands and `peek`. `pc[p]` names the next call; `Store::at` is two looks, two
creations and two changes of mode, with other processes between any two of them. A log is a set of
notes, one for each error printed to it, in a file that lives on when its name is removed, as
descriptors do. `MakeLocal` is an unrelated program that creates `~/.local`. `Faults` names the
calls that may fail; the calls that measure and remove the log do not fail in the model.

### Cortex and Peek

A name is the sequence of its parts (`<<"a", "marker", "delivering", p>>`), so that suffixes and
infixes mean what they mean in `classify`, `rows` and the sweep. A text is whole, or it is `Torn`:
empty or written in part. What earlier lives left (`Found`) is any directory of well-formed names
whose texts are whole, except under the names a text is written under (`Unfinished`). `write_atomic` is `Save`, `Open`, `Write`, `Sync`, `Rename`, with
`CallFails` at each of them; the publication of a deadline shares the middle of it and ends in
`HardLink`; `Claim`, `HardLink` and `DropSource` are the claims; `Remove` is every removal,
the sweep's included. A writer follows its file when that is renamed and loses only the name when
it is removed, so a shared temporary file would do in the model what it would do on a disk. A killed
process leaves its files, and its id may come again. `PowerLoss` tears what was not synced.

`Peek` adds the scan: two readings of the directory (`rows`, then delivery state), each of which
gives every name that stays there once, in any order, and names that come or go perhaps; the text
of an entry is read a step after its name. `Fold` adds an entry to the records, `Filtered` applies
the two filters at the end. `lasting` is history: the names that were there throughout.

## 3. Runs

| Run | Question | Properties |
|---|---|---|
| `delivery_window` | three hooks, one debt, after an earlier life that may have left any deadline for the capture to remove | `OneWindow`, `OngoingHasWorker` |
| `delivery_hostile` | two hooks, two overlapping captures, kills of both, failing calls, any leftover store | `TypeOK`, `AtMostOnce`, `DeliveryInv`, `ExactDischarge` |
| `delivery_sequence` | two captures one after the other, kills, failing calls | `ReadyIsStored`, `ImplementsInjection` |
| `delivery_liveness` | two hooks, a worker that may hang or die, malformed or orphaned markers | `ReadySurvives`, `HookReturns`, `OrphanIsFolded` |
| `handoff_one_move` | one move among clones and captures of three sessions, two of them sharing a file, kills, corrupt rows | `TypeOK`, `KeyNamesOneSnapshot`, `OneOwner`, `MoveKeepsSnapshot` |
| `journal_windows` | two captures that overlap, fail, or find the row damaged, given away or replaced by a handoff, while the host writes | `TypeOK`, `NothingSkipped`, `CutOnlyWhenFull`, `NothingReplayed`, `TextIsTail` |
| `line_reader` | every journal of up to six bytes, lines of up to three, every division into chunks, appends and errors at any time | `TypeOK`, `Aligned`, `YieldsTheLines`, `Terminates` |
| `store_home` | a capture, a hook and a command or `peek` start at once, on a fresh machine, an older store and a store with a long log | `TypeOK`, `StoreStays`, `OpenedIsPrivate`, `OpenLosesOnlyRaces`, `FailureIsLogged`, `LogIsShort` |
| `peek_scan` | two processes change the directory while `peek` reads it, among leftovers, kills and power failures | `TypeOK`, `PublishedIsWhole`, `ImplementsShelf`, `ShownIsWhole`, `StayingIsShown` |
| `extraction_run` | any agent with two helpers | `TypeOK`, `HandoffIsWhole`, `FullPipesAreServed`, `GroupIsGone`, `ReturnsUnlessHeld` |

**Bounds.** Two hooks are enough for every race the protocol decides by one rename or one link:
there is a winner and a loser. The third hook of `delivery_window` is there for the deadline, where
two can wait under one deadline while a third removes or republishes it. Two debts give one "earlier" and
one "later" capture; key 0 is a third snapshot. `Budget` and `Horizon` bound the clock: past
`Horizon` it advances only while a hook waits for it, and a deadline of `Budget` 2 leaves room for
hooks that arrive at the same second, later, and too late. Deadlines a store starts with are absent,
passed (0), far ahead (9) or torn. `NumKeys` bounds the keys `Handoff` mints: one or two exist at
the start, three in all. `Extraction` uses pipes of one unit, an input of two, so that the writer can block, and an
answer of up to three where two are accepted, so that the budget can be exceeded. `Journal` has three
records, which is what a gap needs (one before it, one in it, one behind it), two timestamps in any
order (a record is before the boundary or after it), entries as large as the window, so that three of
them overflow a ring of two windows, and one handoff, at any moment of two captures that may overlap.
`LiveView` leaves out what captures that are done have read: no step reads it again, and the invariants
about it, which held when the capture ended, can only become weaker as the journal grows.
`LineReader` has lines of up to `Cap` 3 bytes and journals of `MaxInput` 6: a line of the cap with
its newline, one byte more, a second line behind it and a character cut by each boundary all fit;
the proofs say the same for every size. `StoreHome` has three processes because its races are between
two, and the third is the one that comes later and finds the result; a log is long when it has two
notes. In `Peek` the others make `MaxCalls` seven calls: a whole `write_atomic` is five, which leaves
two for another process at any place in it, and the directories to start from hold what longer
lives leave behind: a temporary file of a dead process whose id comes again, and a claim without a
row. One session is enough, since every call touches files of one, and a second one owns that claim.
One process is a worker, the other both worker and hook; one word of the two in a claim's name is
enough for those who make it, and the scan meets both. `HookSymmetry` and `CaptureSymmetry` are
used only in runs without liveness properties or refinement.

**Fairness.** `Delivery` assumes weak fairness of the steps of a hook that has begun
(`Proceed`: an operating system runs a runnable process, and no call of the protocol blocks) and of
the clock. It assumes nothing of the host, which owes nobody a hook or a compaction, and nothing of
the worker: `HookReturns` and `OrphanIsFolded` hold although an extraction may never come back.
A hook killed by the host is left out of the liveness run, since a killed hook returns trivially and
folds nothing. `Extraction` assumes weak fairness of the worker's own threads and of the deadline,
none of the agent or its helpers. `LineReader` assumes weak fairness of reading (`Read`: the worker
runs, and a file is not interrupted for ever); the host stops writing in the model at `MaxInput`, as a
host does that waits for its compaction. `StoreHome` and `Peek` have safety properties only. Deadlock is checked in all runs: the explicit `Finished` step is
possible only when every process has ended.

### Where documentation and code differ

Two runs check a sentence of the documentation and are expected to fail. Each was met while
modelling; no counterexample needs a killed process or a failing call.

* `finding_overlap_save` (`RestIsDeliverable`). README.md:80: a worker that lands late "rewrites
  `ready`, and the turn after that delivers it". Two workers may save in one order and mark in the
  other; the marker then names a snapshot that is no longer the row, every hook claims and restores
  it, and nothing is delivered until the next compaction.
* `finding_restore_race` (`ReadySurvives`). src/recall.rs:312: a ready marker published during a
  fold "wins and is restored". With two hooks in `restore_claim`, whichever links first wins; the
  ready claim can be the one that is dropped.

### Known limits, seen in the model and not turned into runs

With a *second* debt `OneWindow` and `OngoingHasWorker` no longer hold. `prepare_debt` removes the
deadline first and writes the marker last, so a hook that still saw the old marker can publish a
deadline the new debt inherits; a hook that polls under the old deadline cannot tell the new ongoing
marker from the old one; a hook that delivers the old snapshot removes the deadline file after its
claim is gone. And a hook that renamed an ongoing marker by mistake puts it back although its worker
has failed meanwhile. In each case a hook folds too early or waits too long by at most one budget,
and `OrphanIsFolded` cleans up. With *overlapping* captures an earlier worker that fails late deletes
the marker of a later one, so `ReadySurvives` is stated for the latest debt and checked without
overlap.

What a boundary passes and no later window holds again is of four kinds, which `NothingSkipped` names.
A record that does not fit its window is cut (`cut`): `MAX_WINDOW_CHARS` bounds what one capture reads,
and no later one reads it again. `CutOnlyWhenFull` says that this is the only way to be cut: every record that
fits together with all the newer ones reaches the agent whole. A row another session gave brings that
session's boundary, a clone the time of cloning (src/store.rs:237, 253), and the records of the
receiving session before it are skipped (`inherited`). A record whose timestamp is not later than an
earlier one's, and a record that was half written at the end of the file when the reader came by and
whose successors it then still read, are left out because a timestamp is all the boundary there is.

A hook killed between its unlink and its print loses the snapshot: delivery is at most once,
which is why `AtMostOnce` is the theorem and `ReadySurvives` is checked without kills of hooks.

A hook compares a deadline it found with the clock it read before it wrote and synced its own
candidate. One tick in between, and a deadline published by a hook that read the clock later is a
second too far ahead: it is refused and the debt is folded, although README.md:133 says such a
deadline "cannot have been written by a clock that agrees with this one". Two sessions that both find
a key before either forgets it both keep it, although SKILL.md:32 calls a move "a handoff, not a
fan-out"; `OneOwner` is checked for one move at a time. A move also takes the row from under a ready
marker of the giving session, which every later hook then claims and restores until the next
compaction. A helper of the agent that left the process group with stdout open keeps the worker's
`join` waiting past its timeout, which src/extract.rs:303 means to exclude; that is the exception in
`ReturnsUnlessHeld`.

`StoreStays` has one exception, although src/store.rs:58 says "Nothing moves a store once it
exists": a process that has resolved `~/.amtr` and not yet created it, while another program creates
`~/.local` and a second process begins a store there. The first then creates `~/.amtr`, which wins
from now on, and the rows in `~/.local/share/amtr` are out of reach. `hasty` marks these histories;
the property fails without it. `FailureIsLogged` excepts the log another hook has rotated away:
whoever finds the log too long removes it under the workers that still write to it, and a hook that
measured it before removes even the new one; src/detach.rs:10 says the log exists "to explain the
last failure". Opening the store may be refused to the loser of a race for a directory
(`create` fails if it exists by now); `OpenLosesOnlyRaces` says that nobody else is refused.

`peek` shows no single instant. It reads the rows before the delivery state, so it may show a ready
marker beside the row of the snapshot before it; a row that moves between two sessions, or a marker
that becomes a claim during the scan, may be shown twice or not at all. `StayingIsShown` is about what
does not move.

## 4. Proofs

Every safety property a passing run checks is also a theorem, for every value of the constants that
the assumptions of its module admit: any number of processes, sessions, keys, bytes or records. The
run shows the property, and refutes a wrong variant of the code, on a small instance; the theorem
says that the bound was not the reason. Invariants of the proofs were checked by TLC on the run's
instance before they were proved.

### Delivery

| Theorem | Says | Assumes |
|---|---|---|
| `TypeCorrect` | `Spec => []TypeOK` | |
| `InvCorrect` | `Spec => []DeliveryInv` | |
| `DeliveredAtMostOnce` | `Spec => []AtMostOnce` | |
| `DischargesExactly` | `Spec => []ExactDischarge` | |
| `DeliveryRefinesInjection` | `Spec => ImplementsInjection` | |
| `MarkedAfterStored` | `Spec => []ReadyIsStored` | captures do not overlap |
| `WindowIsShared` | `Spec => []OneWindow` | `OneDebt`, `SettledAtFirst` |
| `OngoingIsWorkedOn` | `Spec => []OngoingHasWorker` | `OneDebt`, no failing call, no killed worker |
| `ReadyStaysDeliverable` | `Spec => []ReadySurvives` | `OneDebt`, no failing call, no killed hook |

`ConstantsAssumption` has the types of the constants, that `None` and `Garbage` are not numbers, and
that an earlier life left only snapshot 0. The first five theorems allow overlapping captures, kills
and failing calls. The others assume what the property needs and no more: `finding_restore_race`
shows what a second snapshot does to `ReadySurvives`, `finding_overlap_save` what overlap does to a
ready marker, and section 3 what a second debt does to a window.

*At most once.* `AtMostOnce` is not inductive: nothing in it stops two hooks from being about to
print the same key. The strengthening is to see a ready snapshot as **one token**. For each key the
token is the marker itself, or it is with one hook: the hook holds the claim file that names it
(`held`, `judge`, `restore`), or has passed both comparisons and is going to print it (`load` to
`print`), or has printed it (`Holds`). `OneToken` says these places exclude one another.
Every step of a hook moves the token or leaves it: rename takes it from the marker, `restore_claim`
links it back *and the claim leaves `Carries` in the same step*, discharge hands it to the printing
hook (`Moves`, proved action by action). What could forge a token is `MarkReady`; `TokenIsOffered`
and `OfferedIsOver` say a key has a token only if its capture has already finished, and a capture
marks once. `ExactDischarge` is needed so that a hook at `load` knows what its claim file holds: when
the row comparison fails, it puts back the key it took and no other. `PrintedIsOver` keeps a hook
from printing twice. The refinement maps `offered` to the keys that were ever marked ready and
`injected` to what hooks printed: `MarkReady` is `Offer`, `PrintOutput` is `Inject`, whose three
preconditions are `TokenIsOffered`, `PrintedIsOver` and `OneToken`, and everything else stutters.

*Stored before marked.* Without overlap captures run one after another (`OneAfterAnother`), so the
stored row only gets newer (`RowIsAhead`); a marker that a hook puts back names a published key.

*One debt.* `DebtInv` is what a single snapshot makes true of every hook: whoever is at `claim` has
seen it ready, so what is claimed to be delivered, and what is restored, is the snapshot and never an
ongoing marker; from its publication on the marker is the snapshot or missing. That no ongoing marker
comes back is what `OngoingIsWorkedOn` rests on. For `OneWindow` it means that while the marker is
ongoing nobody has claimed anything, so nobody removes the deadline (`WindowInv`). For `ReadySurvives`
it means that the token, once there, is always somewhere: a restoring hook finds the marker's place
free, because it holds the only token and nothing else may lie there (`HookKeepsToken`).

### LineReader

| Theorem | Says |
|---|---|
| `MemoryIsBounded` | `Spec => []TypeOK`: the buffer never exceeds the cap |
| `ReaderIsAligned` | `Spec => []Aligned` |
| `LinesAreToldWhole` | `Spec => TellsWholeLines`: what a step adds is one whole line; proved beside the runs, since `YieldsTheLines` is checked |
| `LinesOfTheFile` | `Spec => []YieldsTheLines` |

`LineReaderAssumption`: a newline is a byte of its own, and the cap and the bound on the input are
numbers.

*The argument.* `Aligned` with the types (`ReaderInv`) is inductive. It says of the record in hand
what the loop never states: it is exactly the stretch from `start` to `pos`, it holds no newline, and
`over` means that this stretch, not the last chunk, is longer than the cap. `AdjacentStretches` joins
what was in the buffer and what a chunk adds into one stretch, `TakenRecord` does this for a round of
the loop, `AppendKeeps` says that the host's writing disturbs none of it. `LinesAreToldWhole` then reads
off what a step that yields has in its buffer. `LinesOfTheFile` is about the whole list at once,
which would call for an induction over the journal; instead the property names the *n*-th line by
counting, as the end of a line with *n* lines told up to it. A step adds one end at most, later than
all others (`EndsInv`, `LastPlace`), so the lines before keep their places (`SamePlace`) and the new one
comes last (`EndedLine`, by the cardinality of finite sets).

### Journal

| Theorem | Says |
|---|---|
| `TypeCorrect` | `Spec => []TypeOK`: the ring finds how much to drop |
| `RowSkipsNothing` | `Spec => []NothingSkipped` |
| `CutForRoomOnly` | `Spec => []CutOnlyWhenFull` |
| `WindowReplaysNothing` | `Spec => []NothingReplayed` |
| `WindowIsTail` | `Spec => []TextIsTail` |

`JournalAssumption` (numbers, and an entry is no longer than a window) and `NoRowIsARow` (the two
values for a row that is absent or unreadable are no rows).

*The argument.* `Sound` says of a row, and of the row a capture carries on from, what the boundary
means: everything with text up to it, from the boundary a handoff brought along on, was read whole or
cut, or is excused by one of the two exceptions of timestamps, and what was read or cut lies before
the boundary unless time went back later. A row that a handoff brings is sound for want of such records. `Window` says it of a window that is
being read: it has all the text of the records read so far that lies behind its boundary. A row that
is saved is sound because the prior row and the window are, whatever was saved in between; `Extends`
carries all of it over an append. For the ring, the invariant is that it was too full with the last
entry it dropped (`RingFull`). Text is concatenated by a fold, so what joining and dropping do to it
(`TailOf`) is proved from the recursive function under the fold, and that some number of entries fits
by a least counterexample (`LeastNumber`): the induction the library's theorems cannot be used for here.
`CutForRoomOnly` takes the text of the whole window apart at one record (`ConcatAt`): what follows the record is
the text of the newer ones, so if that and the record fit, the tail of `MaxWindow` units starts no
later than the record does and holds its entry in one piece (`MiddlePart`); that the ring's shedding does
not change this tail is `WindowIsTail`.

### Handoff

| Theorem | Says | Assumes |
|---|---|---|
| `TypeCorrect` | `Spec => []TypeOK` | |
| `KeyNamesSnapshot` | `Spec => []KeyNamesOneSnapshot` | |
| `KeyHasOneOwner` | `Spec => []OneOwner` | `OneMover`, `OwnedAtFirst` |
| `MoveLosesNothing` | `Spec => []MoveKeepsSnapshot` | `OneMover` |

`HandoffAssumption`: types, and a store as earlier commands leave it, whose keys are numbered as they
were minted, name one snapshot each, and lie in rows in the files of their sessions. `OneMover`: one
process at most moves; any number clone and capture. Two movers do break `OneOwner` (section 3).

*The argument.* `KeyNamesOneSnapshot` is about files, but a row also travels in the hands of a handoff
and may be saved after its file was rewritten; `RowsAround` has both, and `OneMemory` and
`KeysAreMinted` together are inductive: a new key is one nobody around has. `OneOwner` needs to know of
each mover where its key may be (`MovesOneKey`): only where it was found until the save, and also where it
goes until the forget. `MoveKeepsSnapshot` needs the converse (`GivesWhatItFound`): the file that is
going to be forgotten still holds no other key than the one that has arrived.

### Extraction

| Theorem | Says |
|---|---|
| `TypeCorrect` | `Spec => []TypeOK` |
| `HandoffWhole` | `Spec => []HandoffIsWhole` |
| `PipesServed` | `Spec => []FullPipesAreServed` |
| `GroupGone` | `Spec => []GroupIsGone` |

`ExtractionAssumption`: the bounds are numbers, and a pipe holds something. *The argument.* What the agent said is
in the pipe or was read (`AnswerIsAccounted`); a thread ends only at the end of its pipe, when nobody
holds it any more (`PipesHaveThreads`); and the place of the main thread tells what it has done to the
group (`MainKnows`). An answer that is judged is then all there is and all there will be.

### StoreHome

| Theorem | Says | Assumes |
|---|---|---|
| `TypeCorrect` | `Spec => []TypeOK` | |
| `OpenedPrivate` | `Spec => []OpenedIsPrivate` | |
| `OpenLosesRacesOnly` | `Spec => []OpenLosesOnlyRaces` | |
| `LogStaysShort` | `Spec => []LogIsShort` | |
| `FailureLogged` | `Spec => []FailureIsLogged` | |
| `StoreStaysPut` | `Spec => []StoreStays` | `SettledAtFirst` |

`StoreHomeAssumption`: types, and that the processes and the notes of an earlier life are finitely
many. `SettledAtFirst`: no earlier life left a row where a new process would not look.

*The argument.* `Known` says what a process may rely on at each step, and three summaries say what no step
of another does to it: `PcStep`, `DirStep` (a directory that exists stays and keeps its maker, a private one
stays private, a new one was made by this process at its step for that) and `LogStep`. On these:
`Restricted`; `Refusable`, that between a look and the call only another process can have made the
directory; `NotesOfUsers` with `OldIsShort`; `Logging`, that a log leaves its place only by the hand
of another hook; and `Steady`, that whoever resolved `~/.local/share` found no `~/.amtr`, which
nobody makes any more.

### Cortex and Peek

| Theorem | Says |
|---|---|
| `TypeCorrect` | `Spec => []TypeOK` |
| `ReadersSeeWholeTexts` | `Spec => []PublishedIsWhole` |
| `NothingTornIsShown` | `Spec => []ShownIsWhole` |
| `NothingStayingIsMissed` | `Spec => []StayingIsShown` |
| `FilesImplementShelf` | `Spec => ImplementsShelf` |

`CortexAssumption`: the operations are the two words of a claim's name, no process id reads like the
end of a name, `None` is nothing else, and what was found is what this program leaves.

*The argument.* `CortexInv` gives every text that is not whole or not on the disk an owner: only a name
that is being written under (`Unfinished`) may be torn or dirty (`Kept`), and a process has the file
under its own name, with its own text once it has written it and on the disk once it has synced, unless
a sweep took the name away (`Doing`, `OwnFile`). Names are unique to their process, so the steps of the
others leave it alone (`Untouched`). A rename or a link then publishes a whole text that is on the disk.
The refinement is proved call by call: `Save` and `Publish` are `Ask`, `Rename` and `HardLink` of a
candidate are `Put` or a failure, a claim is `Seize`, its restoration `GiveBack`, the removals
`Remove`, power loss and death `Fail`, and a call on a file of one's own is a stutter. `PeekInv`
adds the scan: an entry is of its file (`EntryOK`), there is one for a name, and what stays is owed, in
hand or shown (`LastingInv`).

### Only model-checked

Liveness under fairness (`HookReturns`, `OrphanIsFolded`, `ReturnsUnlessHeld`, `Terminates`), which is
out of the prover's reach.

## 5. Plan

In order of what matters most to the system. The first eight are done.

1. `Injection`, `Delivery`: the protocol, its proofs, its refinement.
2. `Handoff`: rows of several sessions.
3. `Extraction`: the agent, its pipes and its group.
4. `Journal`: windows over a journal that grows while it is read.
5. `LineReader`: lines out of chunks, and its proofs.
6. `StoreHome`: the store's directory and its log among processes that start at once.
7. `Shelf`, `Cortex`, `Peek`: the files under the protocol, and who looks at them.
8. Proofs: every safety property a passing run checks, for every value of the constants.
9. `Handoff` composed with `Delivery`: a move that takes the row from under a ready marker.

## 6. Not modelled

* Text: `render`, its escaping and truncation, the prompt, the preamble, the output of `peek`, log
  messages. No property here depends on them.
* Operating system: descriptors and sessions of `detach`, modes of files (those of the directories
  are in `StoreHome`). A failing `fork` is `CannotDetach`. The order in which a directory reaches the
  disk: `write_atomic` does not sync it, and `PowerLoss` takes it to be kept as it was changed.
* Journal discovery, the parsing of arguments, `extraction_prompt`, the scratch directory: they read
  arguments and files once, or make a directory nobody else knows, and keep no state.
* In `Peek`, a file that is there and cannot be read: it is reported or shown as unreadable, as one
  that has gone is.
* The plugin's shell adapter and manifests: they fix which hooks fire and their timeouts, which
  `Delivery` takes in as kills at any step.
* In `Extraction`, failure of `try_wait` on a child that was not reaped, which does not occur.
* Session ids that a slug changes, in `Cortex` and `Peek` (`Handoff` has them): there a row is shown
  under its session and a marker under its slug. Hosts mint ids that are their own slug.
* In `Cortex`, that two names may be links of one file. A process killed between `hard_link` and the
  unlink after it leaves such a pair; `rename` of one onto the other then does nothing and leaves both. It
  takes another process with the dead one's id and counter to rename just these two.
* The store as seen by a file system without atomic `rename` and `link`.

----------------------------- MODULE Extraction -----------------------------
(***************************************************************************)
(* One run of the extraction agent (src/extract.rs, drive_with_timeout):   *)
(* the worker's main thread, the three threads that serve the agent's      *)
(* pipes, the agent, and helpers the agent forks.  Pipes hold Capacity     *)
(* units; the agent does what it likes, including nothing.                 *)
(***************************************************************************)
EXTENDS Naturals

CONSTANTS
  Helpers,    \* processes the agent may fork
  Capacity,   \* units a pipe holds
  Payload,    \* units of input to feed the agent
  MaxSaid,    \* bound on the agent's answer
  MaxNoise,   \* bound on what it writes to stderr
  MinAnswer, MaxAnswer   \* the answers validate accepts

ASSUME ExtractionAssumption ==
  /\ {Capacity, Payload, MaxSaid, MaxNoise, MinAnswer, MaxAnswer} \subseteq Nat
  /\ Capacity > 0

VARIABLES
  main,      \* the next step of drive_with_timeout
  child,     \* the agent process
  status,    \* how it ended
  helper,    \* each helper's place
  stdin, stdout, stderr,   \* units in each pipe
  toSend,    \* input not yet written
  said,      \* units the agent wrote to stdout
  got,       \* units the reader thread took from there
  noise,     \* units the agent wrote to stderr
  writer, reader, drain,   \* the three threads
  expired,   \* the deadline has passed
  result     \* what the call returned

agent == <<child, status, helper>>
pipes == <<stdin, stdout, stderr>>
amounts == <<toSend, said, got, noise>>
threads == <<writer, reader, drain>>
vars == <<main, agent, pipes, amounts, threads, expired, result>>

Init ==
  /\ main = "spawn"
  /\ child = "none" /\ status = "none"
  /\ helper = [h \in Helpers |-> "none"]
  /\ stdin = 0 /\ stdout = 0 /\ stderr = 0
  /\ toSend = Payload /\ said = 0 /\ got = 0 /\ noise = 0
  /\ writer = "none" /\ reader = "none" /\ drain = "none"
  /\ expired = FALSE
  /\ result = "none"

(* The agent leads a process group of its own.  A helper inherits the      *)
(* agent's ends of all three pipes, in the group or out of it.             *)
GroupRuns == child = "running" \/ \E h \in Helpers : helper[h] = "group"
Escaped == \E h \in Helpers : helper[h] = "escaped"
PipesHeld == GroupRuns \/ Escaped

Return(r) == main' = "returned" /\ result' = r

-----------------------------------------------------------------------------
(* The main thread.                                                        *)

(* Mutant: the input is written first, and only then is the answer read.   *)
SpawnWritesInline ==
  /\ main = "spawn"
  /\ main' = "poll" /\ child' = "running"
  /\ writer' = "run" /\ reader' = "none" /\ drain' = "run"
  /\ UNCHANGED <<status, helper, pipes, amounts, expired, result>>

Spawn ==
  /\ main = "spawn"
  /\ main' = "poll" /\ child' = "running"
  /\ writer' = "run" /\ reader' = "run" /\ drain' = "run"
  /\ UNCHANGED <<status, helper, pipes, amounts, expired, result>>

CannotSpawn ==
  /\ main = "spawn"
  /\ Return("failed")
  /\ UNCHANGED <<agent, pipes, amounts, threads, expired>>

(* A round of the wait loop: try_wait first, then the deadline.            *)
SeeExit ==
  /\ main = "poll" /\ child = "exited"
  /\ child' = "reaped"
  /\ main' = "killGroup"
  /\ UNCHANGED <<status, helper, pipes, amounts, threads, expired, result>>

SeeDeadline ==
  /\ main = "poll" /\ child = "running" /\ expired
  /\ main' = "timeout"
  /\ UNCHANGED <<agent, pipes, amounts, threads, expired, result>>

(* Mutant: kill_process_group finds nobody to kill.                        *)
NoneKilled == helper

(* kill_process_group: one signal for all that are in the group.           *)
GroupKilled == [h \in Helpers |-> IF helper[h] = "group" THEN "gone" ELSE helper[h]]

(* Mutant: a timeout kills and reaps the agent only.                       *)
KillAgentOnly ==
  /\ main = "timeout"
  /\ child' = "reaped"
  /\ status' = IF child = "running" THEN "killed" ELSE status
  /\ main' = "note"
  /\ UNCHANGED <<helper, pipes, amounts, threads, expired, result>>

(* Group kill, child.kill and child.wait; the pipe threads are left alone. *)
KillOnTimeout ==
  /\ main = "timeout"
  /\ helper' = GroupKilled
  /\ child' = "reaped"
  /\ status' = IF child = "running" THEN "killed" ELSE status
  /\ main' = "note"
  /\ UNCHANGED <<pipes, amounts, threads, expired, result>>

KillLeftovers ==
  /\ main = "killGroup"
  /\ helper' = GroupKilled
  /\ main' = "joinWriter"
  /\ UNCHANGED <<child, status, pipes, amounts, threads, expired, result>>

JoinWriter ==
  /\ main = "joinWriter" /\ writer = "done"
  /\ main' = "joinReader"
  /\ UNCHANGED <<agent, pipes, amounts, threads, expired, result>>

(* Mutant: what was read when the agent exited is taken for its answer.    *)
SkipReader ==
  /\ main = "joinReader"
  /\ main' = "judge"
  /\ UNCHANGED <<agent, pipes, amounts, threads, expired, result>>

(* A reader that failed ends the call at once.                             *)
JoinReader ==
  /\ main = "joinReader"
  /\ \/ reader = "done" /\ main' = "judge" /\ UNCHANGED result
     \/ reader = "failed" /\ Return("failed")
  /\ UNCHANGED <<agent, pipes, amounts, threads, expired>>

(* The exit status, then validate: long enough and within the budget.      *)
Acceptable == status = "ok" /\ MinAnswer <= got /\ got <= MaxAnswer

(* Mutant: the answer is taken first and validated afterwards.             *)
TakeThenJudge ==
  /\ main = "judge"
  /\ result' = "handoff"
  /\ main' = IF Acceptable THEN "returned" ELSE "note"
  /\ UNCHANGED <<agent, pipes, amounts, threads, expired>>

Judge ==
  /\ main = "judge"
  /\ \/ Acceptable /\ Return("handoff")
     \/ ~Acceptable /\ main' = "note" /\ UNCHANGED result
  /\ UNCHANGED <<agent, pipes, amounts, threads, expired>>

(* stderr_note waits for the drain thread, but not for long.               *)
NoteStderr ==
  /\ main = "note"
  /\ Return("failed")
  /\ UNCHANGED <<agent, pipes, amounts, threads, expired>>

MainStep ==
  \/ Spawn \/ CannotSpawn \/ SeeExit \/ SeeDeadline \/ KillOnTimeout \/ KillLeftovers
  \/ JoinWriter \/ JoinReader \/ Judge \/ NoteStderr

-----------------------------------------------------------------------------
(* The pipe threads.                                                       *)

WriteInput ==
  /\ writer = "run"
  /\ \/ /\ toSend > 0 /\ PipesHeld /\ stdin < Capacity
        /\ stdin' = stdin + 1 /\ toSend' = toSend - 1 /\ UNCHANGED writer
     \/ /\ toSend = 0 \/ ~PipesHeld
        /\ writer' = "done" /\ UNCHANGED <<stdin, toSend>>
  /\ UNCHANGED <<main, agent, stdout, stderr, said, got, noise, reader, drain, expired, result>>

ReadAnswer ==
  /\ reader = "run"
  /\ \/ stdout > 0 /\ stdout' = stdout - 1 /\ got' = got + 1 /\ UNCHANGED reader
     \/ stdout = 0 /\ ~PipesHeld /\ reader' = "done" /\ UNCHANGED <<stdout, got>>
  /\ UNCHANGED <<main, agent, stdin, stderr, toSend, said, noise, writer, drain, expired, result>>

DrainStderr ==
  /\ drain = "run"
  /\ \/ stderr > 0 /\ stderr' = stderr - 1 /\ UNCHANGED drain
     \/ stderr = 0 /\ ~PipesHeld /\ drain' = "done" /\ UNCHANGED stderr
  /\ UNCHANGED <<main, agent, stdin, stdout, amounts, writer, reader, expired, result>>

(* A read error or a panic ends an output thread, and its end of the pipe  *)
(* closes: a write to it fails from then on.  Nobody asks how the drain    *)
(* thread ended.                                                           *)
ReadFails ==
  /\ \/ reader = "run" /\ reader' = "failed" /\ UNCHANGED drain
     \/ drain = "run" /\ drain' = "failed" /\ UNCHANGED reader
  /\ UNCHANGED <<main, agent, pipes, amounts, writer, expired, result>>

-----------------------------------------------------------------------------
(* The agent and its helpers: any program.  Whoever holds the pipes may    *)
(* use them.  Units of stdout are those of the handoff itself: what        *)
(* strip_preamble and trim cut off before and after it is not counted.     *)

AgentReads ==
  /\ PipesHeld /\ stdin > 0
  /\ stdin' = stdin - 1
  /\ UNCHANGED <<main, agent, stdout, stderr, amounts, threads, expired, result>>

AgentAnswers ==
  /\ PipesHeld /\ reader # "failed" /\ said < MaxSaid /\ stdout < Capacity
  /\ stdout' = stdout + 1 /\ said' = said + 1
  /\ UNCHANGED <<main, agent, stdin, stderr, toSend, got, noise, threads, expired, result>>

AgentComplains ==
  /\ PipesHeld /\ drain # "failed" /\ noise < MaxNoise /\ stderr < Capacity
  /\ stderr' = stderr + 1 /\ noise' = noise + 1
  /\ UNCHANGED <<main, agent, stdin, stdout, toSend, said, got, threads, expired, result>>

AgentForks(h) ==
  /\ GroupRuns /\ helper[h] = "none"
  /\ helper' = [helper EXCEPT ![h] = "group"]
  /\ UNCHANGED <<main, child, status, pipes, amounts, threads, expired, result>>

AgentExits ==
  /\ child = "running"
  /\ child' = "exited"
  /\ status' \in {"ok", "error"}
  /\ UNCHANGED <<main, helper, pipes, amounts, threads, expired, result>>

(* setsid or setpgid: out of reach of the group kill, pipes in hand.       *)
HelperEscapes(h) ==
  /\ helper[h] = "group"
  /\ helper' = [helper EXCEPT ![h] = "escaped"]
  /\ UNCHANGED <<main, child, status, pipes, amounts, threads, expired, result>>

HelperExits(h) ==
  /\ helper[h] \in {"group", "escaped"}
  /\ helper' = [helper EXCEPT ![h] = "gone"]
  /\ UNCHANGED <<main, child, status, pipes, amounts, threads, expired, result>>

AgentStep ==
  \/ AgentReads \/ AgentAnswers \/ AgentComplains \/ AgentExits
  \/ \E h \in Helpers : AgentForks(h) \/ HelperEscapes(h) \/ HelperExits(h)

-----------------------------------------------------------------------------
Expire ==
  /\ main = "poll" /\ ~expired
  /\ expired' = TRUE
  /\ UNCHANGED <<main, agent, pipes, amounts, threads, result>>

Finished == main = "returned" /\ UNCHANGED vars

Next ==
  \/ MainStep \/ WriteInput \/ ReadAnswer \/ DrainStderr \/ ReadFails
  \/ AgentStep \/ Expire \/ Finished

(* The worker's threads run and time passes; the agent owes nothing.       *)
Fairness ==
  WF_vars(MainStep) /\ WF_vars(WriteInput) /\ WF_vars(ReadAnswer) /\ WF_vars(DrainStderr)
    /\ WF_vars(Expire)

Spec == Init /\ [][Next]_vars /\ Fairness

-----------------------------------------------------------------------------
(* The state keeps its shape, and a result is there exactly when the call  *)
(* has returned.                                                           *)
TypeOK ==
  /\ main \in {"spawn", "poll", "timeout", "killGroup", "joinWriter", "joinReader", "judge",
               "note", "returned"}
  /\ child \in {"none", "running", "exited", "reaped"}
  /\ status \in {"none", "ok", "error", "killed"}
  /\ helper \in [Helpers -> {"none", "group", "escaped", "gone"}]
  /\ stdin \in 0..Capacity /\ stdout \in 0..Capacity /\ stderr \in 0..Capacity
  /\ toSend \in 0..Payload /\ said \in 0..MaxSaid /\ got \in 0..MaxSaid /\ noise \in 0..MaxNoise
  /\ writer \in {"none", "run", "done"} /\ {reader, drain} \subseteq {"none", "run", "done", "failed"}
  /\ expired \in BOOLEAN
  /\ result \in {"none", "handoff", "failed"}
  /\ (result = "none") <=> (main # "returned")

(* A handoff is the whole answer of an agent that ended well: a fast exit  *)
(* never cuts it short, and an answer over the budget is refused, not      *)
(* clipped.                                                                *)
HandoffIsWhole ==
  result = "handoff" => status = "ok" /\ got = said /\ MinAnswer <= said /\ said <= MaxAnswer

(* Whatever the agent or a helper fills, somebody empties: no process the  *)
(* main thread waits for is stuck on a full pipe that no thread reads and  *)
(* that is open.                                                           *)
FullPipesAreServed ==
  PipesHeld =>
    /\ stdout = Capacity => reader \in {"run", "failed"}
    /\ stderr = Capacity => drain \in {"run", "failed"}

(* When the call is over the agent is reaped and nothing of its process    *)
(* group runs on, whether it ended by itself or was killed.                *)
GroupIsGone ==
  main = "returned" /\ child # "none" =>
    child = "reaped" /\ \A h \in Helpers : helper[h] # "group"

(* The call returns, whatever the agent and its helpers do, so that no     *)
(* marker stays ongoing behind a live worker, unless a helper that left    *)
(* the group lives on for ever with the pipes in hand; nothing else can    *)
(* hold the worker back.                                                   *)
ReturnsUnlessHeld == <>(main = "returned") \/ <>[]Escaped
=============================================================================

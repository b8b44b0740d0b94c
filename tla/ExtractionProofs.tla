-------------------------- MODULE ExtractionProofs --------------------------
(***************************************************************************)
(* Theorems about Extraction, for every agent, every number of helpers,    *)
(* every capacity of the pipes and every length of input and answer.       *)
(***************************************************************************)
EXTENDS Extraction, TLAPS

(* Before the agent is spawned there is nobody; afterwards both output     *)
(* pipes have their thread, which fails or ends at the end of its pipe.    *)
PipesHaveThreads ==
  /\ child = "none" => /\ writer = "none" /\ reader = "none" /\ drain = "none"
                       /\ \A h \in Helpers : helper[h] = "none"
  /\ child # "none" => reader # "none" /\ drain # "none"
  /\ reader = "done" => stdout = 0 /\ ~PipesHeld
  /\ drain = "done" => ~PipesHeld

(* What the agent wrote is in the pipe or was taken from it.               *)
AnswerIsAccounted == got + stdout = said

(* How far the main thread has come with the agent and its group.          *)
PastGroupKill == main \in {"joinWriter", "joinReader", "judge", "note"}
Called == main \notin {"spawn", "returned"}

MainKnows ==
  /\ main = "spawn" => child = "none"
  /\ Called => child # "none"
  /\ main = "killGroup" => child = "reaped"
  /\ PastGroupKill \/ (main = "returned" /\ child # "none")
       => child = "reaped" /\ \A h \in Helpers : helper[h] # "group"
  /\ main = "judge" => reader = "done"
  /\ result = "handoff" => Acceptable /\ reader = "done"

ExtractionInv == TypeOK /\ PipesHaveThreads /\ AnswerIsAccounted /\ MainKnows

USE DEF agent, pipes, amounts, threads, GroupRuns, Escaped, PipesHeld, Return,
        PastGroupKill, Called

LEMMA InitExtraction == Init => ExtractionInv
  <1> SUFFICES ASSUME Init PROVE ExtractionInv
    OBVIOUS
  <1> USE ExtractionAssumption DEF Init
  <1>1. TypeOK
    <2>1. /\ stdin \in 0..Capacity /\ stdout \in 0..Capacity /\ stderr \in 0..Capacity
          /\ toSend \in 0..Payload /\ said \in 0..MaxSaid /\ got \in 0..MaxSaid
          /\ noise \in 0..MaxNoise
      OBVIOUS
    <2>2. helper \in [Helpers -> {"none", "group", "escaped", "gone"}]
      OBVIOUS
    <2> QED
      BY <2>1, <2>2, Zenon DEF TypeOK
  <1>2. PipesHaveThreads
    BY DEF PipesHaveThreads
  <1>3. AnswerIsAccounted
    BY DEF AnswerIsAccounted
  <1>4. MainKnows
    BY DEF MainKnows
  <1> QED
    BY <1>1, <1>2, <1>3, <1>4 DEF ExtractionInv

(* The steps of the main thread.  Only Spawn begins anything, and only     *)
(* past the group kill and the joins is a result made of what was read.    *)
LEMMA MainStepKeeps == ExtractionInv /\ MainStep => ExtractionInv'
  <1> SUFFICES ASSUME ExtractionInv, MainStep PROVE ExtractionInv'
    OBVIOUS
  <1> USE DEF ExtractionInv
  <1>1. TypeOK'
    BY DEF TypeOK, MainStep, Spawn, CannotSpawn, SeeExit, SeeDeadline, KillOnTimeout,
           KillLeftovers, JoinWriter, JoinReader, Judge, NoteStderr, GroupKilled
  <1>2. PipesHaveThreads'
    BY DEF PipesHaveThreads, MainKnows, TypeOK, MainStep, Spawn, CannotSpawn, SeeExit, SeeDeadline,
           KillOnTimeout, KillLeftovers, JoinWriter, JoinReader, Judge, NoteStderr, GroupKilled
  <1>3. AnswerIsAccounted'
    BY DEF AnswerIsAccounted, MainStep, Spawn, CannotSpawn, SeeExit, SeeDeadline,
           KillOnTimeout, KillLeftovers, JoinWriter, JoinReader, Judge, NoteStderr
  <1>4. MainKnows'
    BY DEF MainKnows, PipesHaveThreads, TypeOK, Acceptable, MainStep, Spawn, CannotSpawn, SeeExit,
           SeeDeadline, KillOnTimeout, KillLeftovers, JoinWriter, JoinReader, Judge, NoteStderr,
           GroupKilled
  <1> QED
    BY <1>1, <1>2, <1>3, <1>4

(* The three threads move units and stop; they start nobody.               *)
LEMMA ThreadStepKeeps ==
  ExtractionInv /\ (WriteInput \/ ReadAnswer \/ DrainStderr \/ ReadFails)
    => ExtractionInv'
  <1> SUFFICES ASSUME ExtractionInv, WriteInput \/ ReadAnswer \/ DrainStderr \/ ReadFails
               PROVE  ExtractionInv'
    OBVIOUS
  <1> USE ExtractionAssumption DEF ExtractionInv, WriteInput, ReadAnswer, DrainStderr, ReadFails
  <1>1. AnswerIsAccounted'
    BY DEF AnswerIsAccounted, TypeOK
  <1>2. TypeOK'
    BY <1>1 DEF TypeOK, AnswerIsAccounted
  <1>3. PipesHaveThreads'
    BY DEF PipesHaveThreads, TypeOK
  <1>4. MainKnows'
    BY DEF MainKnows, PipesHaveThreads, TypeOK, Acceptable
  <1> QED
    BY <1>1, <1>2, <1>3, <1>4

(* The agent and its helpers do as they like, but only while some process  *)
(* holds the pipes, and none that left the group comes back to fork.       *)
LEMMA AgentStepKeeps == ExtractionInv /\ AgentStep => ExtractionInv'
  <1> SUFFICES ASSUME ExtractionInv, AgentStep PROVE ExtractionInv'
    OBVIOUS
  <1> USE ExtractionAssumption
      DEF ExtractionInv, AgentStep, AgentReads, AgentAnswers, AgentComplains, AgentExits,
          AgentForks, HelperEscapes, HelperExits
  <1>1. AnswerIsAccounted'
    BY DEF AnswerIsAccounted, TypeOK
  <1>2. TypeOK'
    BY <1>1 DEF TypeOK, AnswerIsAccounted
  <1>3. PipesHaveThreads'
    BY DEF PipesHaveThreads, TypeOK
  <1>4. MainKnows'
    BY DEF MainKnows, PipesHaveThreads, TypeOK, Acceptable
  <1> QED
    BY <1>1, <1>2, <1>3, <1>4

LEMMA StepKeeps == ExtractionInv /\ [Next]_vars => ExtractionInv'
  <1> SUFFICES ASSUME ExtractionInv, [Next]_vars PROVE ExtractionInv'
    OBVIOUS
  <1>1. CASE Expire
    BY <1>1 DEF Expire, ExtractionInv, TypeOK, PipesHaveThreads, AnswerIsAccounted, MainKnows,
                Acceptable
  <1>2. CASE UNCHANGED vars
    BY <1>2 DEF vars, ExtractionInv, TypeOK, PipesHaveThreads, AnswerIsAccounted, MainKnows,
                Acceptable
  <1> QED
    BY <1>1, <1>2, MainStepKeeps, ThreadStepKeeps, AgentStepKeeps DEF Next, Finished

LEMMA ExtractionInvariant == Spec => []ExtractionInv
  BY InitExtraction, StepKeeps, PTL DEF Spec

-----------------------------------------------------------------------------
(* The state keeps its shape: in particular the reader never has more than *)
(* the agent said, however the pipe is cut into reads.                     *)
THEOREM TypeCorrect == Spec => []TypeOK
  <1>1. ExtractionInv => TypeOK
    BY DEF ExtractionInv
  <1> QED
    BY <1>1, ExtractionInvariant, PTL

(* An accepted handoff is the whole answer of an agent that ended well:    *)
(* the reader is joined, its thread ends only when nobody holds the pipe   *)
(* and the pipe is empty, and so nothing more can be said.                 *)
THEOREM HandoffWhole == Spec => []HandoffIsWhole
  <1>1. ExtractionInv => HandoffIsWhole
    BY DEF ExtractionInv, TypeOK, PipesHaveThreads, AnswerIsAccounted, MainKnows, Acceptable,
           HandoffIsWhole
  <1> QED
    BY <1>1, ExtractionInvariant, PTL

(* As long as anybody can fill an output pipe, its thread reads it, or its *)
(* end is closed and a write fails instead of waiting.                     *)
THEOREM PipesServed == Spec => []FullPipesAreServed
  <1>1. ExtractionInv => FullPipesAreServed
    BY DEF ExtractionInv, TypeOK, PipesHaveThreads, FullPipesAreServed
  <1> QED
    BY <1>1, ExtractionInvariant, PTL

(* A call that spawned the agent returns with the agent reaped and none of *)
(* its group alive, on every way out.                                      *)
THEOREM GroupGone == Spec => []GroupIsGone
  <1>1. ExtractionInv => GroupIsGone
    BY DEF ExtractionInv, MainKnows, GroupIsGone
  <1> QED
    BY <1>1, ExtractionInvariant, PTL
=============================================================================

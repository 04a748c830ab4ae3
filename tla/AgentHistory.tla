---------------------------- MODULE AgentHistory ----------------------------
(***************************************************************************)
(* What the shared log says of the worker threads: the inductive invariant *)
(* behind FallbackExplained and LeaksAreLogged, next to that of            *)
(* AgentInvariant.                                                         *)
(***************************************************************************)
EXTENDS AgentInvariant

\* Line j announces an attempt.
Announces(text, j, step, try) ==
  /\ text[j].call = 0
  /\ text[j].event.type = "StepStarted"
  /\ text[j].event.step = step
  /\ text[j].event.attempt = try

\* The main thread has written nothing since it announced the attempt.
Open(text, step, try) ==
  \E j \in 1..Len(text) :
    /\ Announces(text, j, step, try)
    /\ \A k \in (j + 1)..Len(text) : text[k].call # 0

\* It has written since that the step failed.
GivenUp(text, step, try) ==
  \E j \in 1..Len(text) :
    /\ Announces(text, j, step, try)
    /\ \E k \in (j + 1)..Len(text) :
         /\ text[k].call = 0
         /\ text[k].event.type = "StepFailed"
         /\ text[k].event.step = step

\* The attempt being made is open in the log.
AttemptIsOpen == pc = "call" => Open(lines, Step(state), attempt)

\* A busy worker nobody waits for was given up.
LeakedWereGivenUp ==
  \A c \in DOMAIN calls :
    Busy(c) /\ c # waiting => GivenUp(lines, calls[c].step, calls[c].attempt)

LateWorkerInv == AttemptIsOpen /\ LeakedWereGivenUp /\ FallbackExplained

\* The threads that LeaksAreLogged counts.
Leaked == {c \in DOMAIN calls : Busy(c) /\ c # waiting}

=============================================================================

--------------------------- MODULE AgentInvariant ---------------------------
(***************************************************************************)
(* The inductive invariant of Agent: what a worker's record says, and how  *)
(* it relates to the main thread that waits for it.                        *)
(***************************************************************************)
EXTENDS Agent

\* A future that is done has an answer or an error; a call that falls back has
\* a model to fall back to.
CallsSound ==
  /\ calls \in Seq(CallRecord)
  /\ \A c \in DOMAIN calls :
       /\ calls[c].status = "answered" => calls[c].result \in Payloads
       /\ calls[c].status = "raised" => calls[c].result \in Errors
       /\ calls[c].status = "falling" => calls[c].model < Len(ModelChain)

\* The main thread waits only inside an attempt whose prompt was accepted, for
\* the call it started in this attempt.
WaitsForOwnCall ==
  /\ waiting \in 0..Len(calls)
  /\ waiting # 0 =>
       /\ pc = "call"
       /\ ~(PromptBuilds(state) /\ PromptPoisoned(state))
       /\ calls[waiting].run = runs
       /\ calls[waiting].step = Step(state)
       /\ calls[waiting].attempt = attempt

\* The lines a call has written are behind it in the chain.
LinesBehind ==
  /\ lines \in Seq(Line)
  /\ \A i \in Fallbacks :
       /\ lines[i].call \in DOMAIN calls
       /\ lines[i].model < calls[lines[i].call].model

AgentInv == CallsSound /\ WaitsForOwnCall /\ LinesBehind /\ ChainInOrder

=============================================================================

------------------------------- MODULE MCChaos -------------------------------
(* ChaosExperiment with two of the repository's experiments, for TLC. *)
EXTENDS ChaosExperiment

Probe(name, min, max) == [name |-> name, min |-> min, max |-> max]

\* 03-cascading-survivability.json and 04-prompt-injection-rejection.json.
MCExperiments ==
  <<[poison_prob |-> 0,
     probes |-> {Probe("state_integrity_rate", 100, 100), Probe("crash_rate", 0, 0),
                 Probe("abort_rate", 5, 100)}],
    [poison_prob |-> 30,
     probes |-> {Probe("state_integrity_rate", 100, 100), Probe("crash_rate", 0, 0),
                 Probe("completion_rate", 55, 85), Probe("abort_rate", 15, 45)}]>>

=============================================================================

------------------------------- MODULE MCUsage -------------------------------
(* Two requests, of two keys, over one connection: of every kind but those *)
(* that differ in the key alone.                                           *)
EXTENDS UsageTracking

CONSTANTS k1, k2

MCKinds ==
    {[key |-> k1, tracked |-> TRUE, backend |-> "ollama"],
     [key |-> k2, tracked |-> TRUE, backend |-> "ollama"],
     [key |-> k2, tracked |-> TRUE, backend |-> "vllm"],
     [key |-> k1, tracked |-> FALSE, backend |-> "ollama"],
     [key |-> k1, tracked |-> FALSE, backend |-> "none"]}

=============================================================================

---------------------------- MODULE MCEventStream ----------------------------
(* EventStream on a small instance: one update of every kind, a retryable    *)
(* and a terminal status, and policies on both sides of every bound.         *)
(* Factors above 1, whole or not, below 1 and below 0.                       *)
EXTENDS EventStream

MCPolicy(retries, factor) ==
    [initial_interval |-> 1, multiplier |-> factor, max_interval |-> 6,
     max_retries |-> retries]

Factor(n, d) == [num |-> n, den |-> d]

\* No reconnect, no retry, two, as many as a u32 counts, and no limit.
MCPolicies ==
    {NoReconnect}
      \union {MCPolicy(r, Factor(2, 1)) : r \in {0, 2, U32Size - 1, NoLimit}}
      \union {MCPolicy(NoLimit, f) : f \in {Factor(3, 2), Factor(1, 2), Factor(-2, 1)}}

MCHarmonicUpdates ==
    {[payload |-> p, body |-> 1] : p \in HarmonicPayloads}

MCStatuses == {"Unavailable", "Unauthenticated"}
=============================================================================

------------------------- MODULE MCEventStreamHistory -------------------------
(* The history of a BAM stream under the two retry policy. *)
EXTENDS EventStreamHistory

MCPolicies ==
    {[initial_interval |-> 1, multiplier |-> [num |-> 2, den |-> 1],
      max_interval |-> 6, max_retries |-> 2]}

MCUpdates == {[payload |-> p, body |-> 1] : p \in BamPayloads}

MCStatuses == {"Unavailable"}
=============================================================================

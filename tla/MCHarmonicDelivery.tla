-------------------------- MODULE MCHarmonicDelivery --------------------------
(* A subscription that may be lost and resubscribed twice without an event,  *)
(* on a feed with room for a restarted slot after a gap.                     *)
EXTENDS HarmonicDelivery

MCPolicies ==
    {[initial_interval |-> 1, multiplier |-> [num |-> 1, den |-> 1],
      max_interval |-> 1, max_retries |-> 1]}

MCStatuses == {"Unavailable", "DataLoss"}
=============================================================================

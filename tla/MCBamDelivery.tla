---------------------------- MODULE MCBamDelivery ----------------------------
(* A stream that may be lost and not resubscribed at all, or once without an *)
(* event, cut off by the connection or closed as lagging in the middle of    *)
(* the feed, and refused for good.                                           *)
EXTENDS BamDelivery

MCPolicies ==
    {NoReconnect,
     [initial_interval |-> 1, multiplier |-> [num |-> 1, den |-> 1],
      max_interval |-> 1, max_retries |-> 1]}

MCStatuses == {"Unavailable", "DataLoss", "Unauthenticated"}
=============================================================================

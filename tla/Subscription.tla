---------------------------- MODULE Subscription -----------------------------
(***************************************************************************)
(* What poll_next of stream.rs lets the program see, with none of the      *)
(* machinery behind it: no timer, no call, no waker, no update that yields *)
(* nothing.  The program sees a succession of items:                       *)
(*                                                                         *)
(*   - events; on a feed with slot framing the first event after           *)
(*     subscribing, and the first after each Reconnected, is a SlotStart;  *)
(*   - Reconnected, after a drop, naming the attempt that brought it back; *)
(*   - one error, only when resubscribing is off, could not fix it, or was *)
(*     tried as often as the policy allows since the last event; and then  *)
(*     nothing but None.                                                   *)
(*                                                                         *)
(* Resubscribing itself is invisible to the program: Resubscribe changes   *)
(* only the count of tries.                                                *)
(***************************************************************************)
EXTENDS Reconnect

CONSTANTS
    SLOT_FRAMING,  \* whether the feed frames its slots
    Events,        \* the events the feed may deliver, records with field event
    Policies,      \* the Option<Reconnect> values a program may choose
    NoReconnect,   \* the policy of no_reconnect()
    U32Size        \* 2^32, the number of values of a u32

VARIABLES
    policy,  \* the policy the program chose
    item,    \* the last item the program was given
    joined,  \* whether any event may come now, or only a SlotStart
    tries    \* resubscribes since the last event, when the policy bounds them

vars == <<policy, item, joined, tries>>

\* Whether the policy bounds the retries.  A bound of u32::MAX is none: the
\* u32 that counts the failures cannot exceed it.
Limited(p) ==
    /\ p # NoReconnect
    /\ p.max_retries # NoLimit
    /\ p.max_retries + 1 < U32Size

Over == item.item \in {"Error", "None"}

-----------------------------------------------------------------------------
Init ==
    /\ policy \in Policies
    /\ item = [item |-> "Opened"]
    /\ joined = ~SLOT_FRAMING
    /\ tries = 0

Deliver(e) ==
    /\ ~Over
    /\ joined \/ e.event = "SlotStart"
    /\ item' = [item |-> "Event", event |-> e]
    /\ joined' = TRUE
    /\ tries' = 0
    /\ UNCHANGED policy

Resubscribe ==
    /\ ~Over
    /\ policy # NoReconnect
    /\ Limited(policy) => tries < policy.max_retries
    /\ tries' = IF Limited(policy) THEN tries + 1 ELSE 0
    /\ UNCHANGED <<policy, item, joined>>

Resume(attempts) ==
    /\ ~Over
    /\ policy # NoReconnect
    /\ Limited(policy) => attempts = tries /\ tries > 0
    /\ item' = [item |-> "Reconnected", attempts |-> attempts]
    /\ joined' = ~SLOT_FRAMING
    /\ UNCHANGED <<policy, tries>>

Fail(error) ==
    /\ ~Over
    /\ \/ policy = NoReconnect
       \/ ~Retryable(error)
       \/ Limited(policy) /\ tries = policy.max_retries
    /\ item' = [item |-> "Error", error |-> error]
    /\ UNCHANGED <<policy, joined, tries>>

Finish ==
    /\ Over
    /\ item' = [item |-> "None"]
    /\ UNCHANGED <<policy, joined, tries>>

\* What the program sees.
Yield ==
    \/ \E e \in Events : Deliver(e)
    \/ \E attempts \in 0 .. U32Size - 1 : Resume(attempts)
    \/ \E error \in StreamErrors : Fail(error)
    \/ Finish

Next == Yield \/ Resubscribe

Spec == Init /\ [][Next]_vars
=============================================================================

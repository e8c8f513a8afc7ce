------------------------------ MODULE Reconnect ------------------------------
(***************************************************************************)
(* The retry policy of reconnect.rs: which failures resubscribing can fix, *)
(* when the budget of retries is used up, and how long to wait before a    *)
(* given attempt.                                                          *)
(*                                                                         *)
(* A policy is a record with the fields of the struct Reconnect.  Delays   *)
(* are natural numbers of an arbitrary time unit.  The growth factor is a  *)
(* fraction num / den, as every finite f64 is, negative ones included; a   *)
(* NaN grows as 1 does, the greater of the two.  f64 rounding is           *)
(* abstracted, the overflow of f64 is not.                                 *)
(***************************************************************************)
EXTENDS Integers

CONSTANTS
    NoLimit,   \* max_retries = None
    FloatMax,  \* the largest finite f64; a larger power is infinite
    I32Max     \* i32::MAX, where the exponent of powi saturates

ASSUME ReconnectAssumption ==
    /\ NoLimit \notin Nat
    /\ FloatMax \in Nat \ {0}
    /\ I32Max \in Nat

-----------------------------------------------------------------------------
(* Failures.  A StreamError is the string "Closed", the raw stream ended   *)
(* without a status, or the name of the gRPC code of StreamError::Status.  *)

Closed == "Closed"

RetryableCodes_NotExhausted ==
    {"Unavailable", "DataLoss", "Internal", "Unknown", "Aborted", "Cancelled",
     "DeadlineExceeded"}

RetryableCodes_Denied ==
    {"Unavailable", "DataLoss", "ResourceExhausted", "Internal", "Unknown",
     "Aborted", "Cancelled", "DeadlineExceeded", "PermissionDenied"}

RetryableCodes ==
    {"Unavailable", "DataLoss", "ResourceExhausted", "Internal", "Unknown",
     "Aborted", "Cancelled", "DeadlineExceeded"}

TerminalCodes ==
    {"Ok", "Unauthenticated", "PermissionDenied", "InvalidArgument",
     "FailedPrecondition", "NotFound", "AlreadyExists", "OutOfRange",
     "Unimplemented"}

Codes == RetryableCodes \union TerminalCodes

StreamErrors == Codes \union {Closed}

Retryable(error) == error = Closed \/ error \in RetryableCodes

-----------------------------------------------------------------------------
(* The budget. *)

Exhausted_OneMore(policy, attempts) ==
    policy.max_retries # NoLimit /\ attempts > policy.max_retries + 1

Exhausted(policy, attempts) ==
    policy.max_retries # NoLimit /\ attempts > policy.max_retries

-----------------------------------------------------------------------------
(* The schedule. *)

Lesser(a, b) == IF a <= b THEN a ELSE b
Greater(a, b) == IF a >= b THEN a ELSE b

\* attempt.saturating_sub(1), then i32::try_from saturated at i32::MAX.
Exponent(attempt) == Lesser(Greater(attempt - 1, 0), I32Max)

\* f64::powi: the powers of a number.
Powers(number) ==
    LET power[k \in Nat] == IF k = 0 THEN 1 ELSE number * power[k - 1]
    IN  power

\* The growth is num / den, and at least 1.  The product converts to a Duration
\* when it is finite, and is then cut at max_interval; anything that does not
\* convert, infinite * 0 (a NaN) included, is max_interval.
Interval(policy, attempt) ==
    LET num == Powers(policy.multiplier.num)[Exponent(attempt)]
        den == Powers(policy.multiplier.den)[Exponent(attempt)]
        delay == IF num <= den THEN policy.initial_interval
                 ELSE (policy.initial_interval * num) \div den
    IN  IF num <= FloatMax * den /\ delay <= policy.max_interval
        THEN delay
        ELSE policy.max_interval
=============================================================================

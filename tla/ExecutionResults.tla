-------------------------- MODULE ExecutionResults --------------------------
(***************************************************************************)
(* The outcomes of the protobuf crate (src/lib.rs): what a name means, and *)
(* what a number on the wire means.                                        *)
(*                                                                         *)
(* An Option is the set of at most one value.  A name is its letters in    *)
(* lower case and the case they are written in.                            *)
(***************************************************************************)
EXTENDS Integers

Success == 0
ExecutionFailure == 1
FeesOnly == 2
ExecutionResultValues == {Success, ExecutionFailure, FeesOnly}

ShortNames ==
    [success |-> Success, execution_failure |-> ExecutionFailure, fees_only |-> FeesOnly]

ProtoNames ==
    [execution_result_success           |-> Success,
     execution_result_execution_failure |-> ExecutionFailure,
     execution_result_fees_only         |-> FeesOnly]

\* A short name in any case, or a name of the enumeration as it is written.
ExecutionResultOf(name) ==
    IF name.letters \in DOMAIN ShortNames THEN {ShortNames[name.letters]}
    ELSE IF name.letters \in DOMAIN ProtoNames /\ name.case = "upper"
    THEN {ProtoNames[name.letters]}
    ELSE {}

\* The generated result(): zero for what is unset or unknown.
Reported_Generated(value) ==
    IF value \subseteq ExecutionResultValues /\ value # {} THEN value ELSE {Success}

\* execution_result() of either feed.
Reported(value) == value \intersect ExecutionResultValues
=============================================================================

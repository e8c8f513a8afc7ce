-------------------------------- MODULE Parse --------------------------------
(***************************************************************************)
(* parse.rs: what a program reads from the raw bytes of a transaction.     *)
(*                                                                         *)
(* Bytes either are one whole transaction or are not; which, is up to      *)
(* wincode.  Of a transaction only its signatures and its static account   *)
(* keys are looked at.                                                     *)
(***************************************************************************)
EXTENDS Sequences

NotATransaction == [whole |-> FALSE]
BytesOf(signatures, keys) == [whole |-> TRUE, signatures |-> signatures, keys |-> keys]

Err(kind) == [result |-> "Err", kind |-> kind]
Signed(value) == [result |-> "Ok", value |-> value]

\* parse, then first_signature.
ParseSignature(data) ==
    IF ~data.whole THEN Err("Malformed")
    ELSE IF data.signatures = <<>> THEN Err("NoSignature")
    ELSE Signed(Head(data.signatures))

ParseStaticParts(data) ==
    IF ParseSignature(data).result = "Err" THEN ParseSignature(data)
    ELSE Signed(<<ParseSignature(data).value, data.keys>>)

\* .ok() of a Result, as an Option.
OkOf(r) == IF r.result = "Ok" THEN {r.value} ELSE {}
=============================================================================

------------------------------- MODULE Filters -------------------------------
(***************************************************************************)
(* The subscribe filters of filter.rs: filters, the checks that refuse     *)
(* what the server would refuse, and the request made of a set of them.    *)
(*                                                                         *)
(* Accounts, signatures and outcomes are values that are only compared.  A *)
(* set of filters is a sequence of names with their filters, in the order  *)
(* of with().                                                              *)
(***************************************************************************)
EXTENDS Integers, FiniteSets, Sequences, SequencesExt

CONSTANTS
    MAX_FILTERS, MAX_ACCOUNTS_PER_LIST, MAX_SIGNATURES_PER_FILTER,
    MAX_INSTRUCTION_FILTERS, MAX_MEMCMPS_PER_INSTRUCTION, MAX_MEMCMP_BYTES,
    MAX_INSTRUCTION_DATA_BYTES,
    USizeSize,     \* 2^32 or 2^64: where a usize of the target ends
    NoSize,        \* data_size = None
    LongNames      \* names longer than MAX_FILTER_NAME_BYTES

ASSUME FiltersAssumption ==
    /\ {MAX_FILTERS, MAX_ACCOUNTS_PER_LIST, MAX_SIGNATURES_PER_FILTER,
        MAX_INSTRUCTION_FILTERS, MAX_MEMCMPS_PER_INSTRUCTION, MAX_MEMCMP_BYTES,
        MAX_INSTRUCTION_DATA_BYTES, USizeSize} \subseteq Nat
    /\ MAX_INSTRUCTION_DATA_BYTES < USizeSize
    /\ NoSize \notin Nat

-----------------------------------------------------------------------------
(* Filters. *)

Selections == {"account_include", "account_required", "signer_include"}
Exclusions == {"account_exclude", "signer_exclude"}
AccountLists == Selections \union Exclusions

NewFilter ==
    [accounts |-> [list \in AccountLists |-> <<>>], instructions |-> <<>>,
     signatures |-> <<>>, execution_results |-> <<>>]

NewInstruction(program_id) ==
    [program_id |-> program_id, memcmp |-> <<>>, data_size |-> NoSize]
WithMemcmp(i, offset, bytes) ==
    [i EXCEPT !.memcmp = Append(@, [offset |-> offset, bytes |-> bytes])]
WithDataSize(i, size) == [i EXCEPT !.data_size = size]

-----------------------------------------------------------------------------
(* Validation: an error is its kind, and the first one found is reported.  *)

Ok == "Ok"
Check(broken, kind) == IF broken THEN kind ELSE Ok

First(errors) ==
    LET found == {k \in DOMAIN errors : errors[k] # Ok}
    IN  IF found = {} THEN Ok ELSE errors[Min(found)]

InRange_Wraps(memcmp, dataBytes) ==
    (memcmp.offset + Len(memcmp.bytes)) % USizeSize <= dataBytes

InRange_Strict(memcmp, dataBytes) ==
    memcmp.offset + Len(memcmp.bytes) < dataBytes

\* offset.checked_add(len), compared with the bytes there can be.
InRange(memcmp, dataBytes) ==
    LET end == memcmp.offset + Len(memcmp.bytes)
    IN  memcmp.offset < USizeSize /\ end < USizeSize /\ end <= dataBytes

MemcmpError(memcmp, dataBytes) ==
    First(<<Check(Len(memcmp.bytes) \notin 1 .. MAX_MEMCMP_BYTES, "MemcmpLength"),
            Check(~InRange(memcmp, dataBytes), "MemcmpOutOfRange")>>)

DataBytes(i) ==
    IF i.data_size = NoSize THEN MAX_INSTRUCTION_DATA_BYTES ELSE i.data_size

InstructionError(i) ==
    First(<<Check(Len(i.memcmp) > MAX_MEMCMPS_PER_INSTRUCTION, "TooManyMemcmps"),
            Check(DataBytes(i) > MAX_INSTRUCTION_DATA_BYTES, "DataSizeTooLarge")>>
          \o [k \in DOMAIN i.memcmp |-> MemcmpError(i.memcmp[k], DataBytes(i))])

Selects(filter) ==
    \/ \E list \in Selections : filter.accounts[list] # <<>>
    \/ filter.instructions # <<>>
    \/ filter.signatures # <<>>

FilterError(name, filter) ==
    First(<<Check(name \in LongNames, "NameTooLong"),
            Check(\E list \in AccountLists :
                    Len(filter.accounts[list]) > MAX_ACCOUNTS_PER_LIST, "TooManyAccounts"),
            Check(Len(filter.signatures) > MAX_SIGNATURES_PER_FILTER, "TooManySignatures")>>
          \o [k \in DOMAIN filter.instructions |->
                InstructionError(filter.instructions[k])]
          \o <<Check(~Selects(filter), "Empty")>>)

-----------------------------------------------------------------------------
(* The request. *)

NoResult == [result |-> "none"]
Refusal(kind, name) == [result |-> "Err", kind |-> kind, name |-> name]
Accepted(transactions) == [result |-> "Ok", transactions |-> transactions]

\* The instruction filters of all the filters together, counted one by one.
InstructionsOf(set) ==
    Cardinality(UNION {{k} \X DOMAIN set[k].filter.instructions : k \in DOMAIN set})

TooManyInstructions_PerFilter(set) ==
    \E k \in DOMAIN set : Len(set[k].filter.instructions) > MAX_INSTRUCTION_FILTERS

TooManyInstructions(set) == InstructionsOf(set) > MAX_INSTRUCTION_FILTERS

SetError(set) ==
    First(<<Check(set = <<>>, "NoFilters"),
            Check(Len(set) > MAX_FILTERS, "TooManyFilters"),
            Check(TooManyInstructions(set), "TooManyInstructionFilters")>>)

FilterIntoProto_Crossed(filter) ==
    [account_include   |-> filter.accounts["account_exclude"],
     account_exclude   |-> filter.accounts["account_include"],
     account_required  |-> filter.accounts["account_required"],
     signer_include    |-> filter.accounts["signer_include"],
     signer_exclude    |-> filter.accounts["signer_exclude"],
     instructions      |-> filter.instructions,
     signature         |-> filter.signatures,
     execution_results |-> filter.execution_results]

InstructionIntoProto(i) ==
    [program_id |-> i.program_id,
     memcmp     |-> [k \in DOMAIN i.memcmp |->
                       [offset |-> i.memcmp[k].offset, bytes |-> i.memcmp[k].bytes]],
     data_size  |-> i.data_size]

\* The message of the wire, field by field; every entry of a list is converted.
FilterIntoProto(filter) ==
    [account_include   |-> filter.accounts["account_include"],
     account_exclude   |-> filter.accounts["account_exclude"],
     account_required  |-> filter.accounts["account_required"],
     signer_include    |-> filter.accounts["signer_include"],
     signer_exclude    |-> filter.accounts["signer_exclude"],
     instructions      |-> [k \in DOMAIN filter.instructions |->
                             InstructionIntoProto(filter.instructions[k])],
     signature         |-> filter.signatures,
     execution_results |-> filter.execution_results]

\* The HashMap the filters are inserted into, one after the other: of two
\* filters with one name the later stays.
Transactions(set) ==
    [name \in {set[k].name : k \in DOMAIN set} |->
       FilterIntoProto(set[Max({k \in DOMAIN set : set[k].name = name})].filter)]

RequestOf(set) ==
    LET faulty == {k \in DOMAIN set : FilterError(set[k].name, set[k].filter) # Ok}
    IN  IF SetError(set) # Ok THEN Refusal(SetError(set), "")
        ELSE IF faulty = {} THEN Accepted(Transactions(set))
        ELSE LET first == set[Min(faulty)]
             IN  Refusal(FilterError(first.name, first.filter), first.name)
=============================================================================

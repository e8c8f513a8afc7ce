---------------------------- MODULE FilterBuilder ----------------------------
(***************************************************************************)
(* A program that builds filters condition by condition with the builders  *)
(* of filter.rs, names them, and turns the set into a request.             *)
(***************************************************************************)
EXTENDS FilterMeaning

CONSTANTS
    Accounts,      \* the accounts, signatures, outcomes and instruction filters
    Signatures,    \* a program uses
    Outcomes,
    Instructions,
    Names,         \* the names it uses
    MaxCalls       \* builder calls, over the whole set

\* What InstructionFilter::new, memcmp and data_size can make.
ASSUME FilterBuilderAssumption ==
    \A i \in Instructions :
      /\ i.memcmp \in Seq([offset : Nat, bytes : Seq(Bytes)])
      /\ i.data_size \in Nat \union {NoSize}

VARIABLES
    building,  \* the filter being built
    filters,   \* the set so far, in the order of with(): name and filter
    result,    \* what into_request returned
    calls      \* builder calls made

vars == <<building, filters, result, calls>>

-----------------------------------------------------------------------------
Init ==
    /\ building = NewFilter
    /\ filters = <<>>
    /\ result = NoResult
    /\ calls = 0

Building ==
    /\ result = NoResult
    /\ calls < MaxCalls
    /\ calls' = calls + 1
    /\ UNCHANGED result

\* accounts, require, exclude_accounts, signers and exclude_signers.
AddAccount(list, account) ==
    /\ Building
    /\ building' = [building EXCEPT !.accounts[list] = Append(@, account)]
    /\ UNCHANGED filters

AddInstruction(i) ==
    /\ Building
    /\ building' = [building EXCEPT !.instructions = Append(@, i)]
    /\ UNCHANGED filters

AddSignature(signature) ==
    /\ Building
    /\ building' = [building EXCEPT !.signatures = Append(@, signature)]
    /\ UNCHANGED filters

AddExecutionResult(outcome) ==
    /\ Building
    /\ building' = [building EXCEPT !.execution_results = Append(@, outcome)]
    /\ UNCHANGED filters

With(name) ==
    /\ Building
    /\ filters' = Append(filters, [name |-> name, filter |-> building])
    /\ building' = NewFilter

IntoRequest ==
    /\ result = NoResult
    /\ result' = RequestOf(filters)
    /\ UNCHANGED <<building, filters, calls>>

Next ==
    \/ \E list \in AccountLists, account \in Accounts : AddAccount(list, account)
    \/ \E i \in Instructions : AddInstruction(i)
    \/ \E signature \in Signatures : AddSignature(signature)
    \/ \E outcome \in Outcomes : AddExecutionResult(outcome)
    \/ \E name \in Names : With(name)
    \/ IntoRequest

Spec == Init /\ [][Next]_vars

-----------------------------------------------------------------------------
(* Properties. *)

IsOk == result.result = "Ok"
IsErr(kind) == result.result = "Err" /\ result.kind = kind

\* The filters a refusal is about.
Accused == {filters[k].filter : k \in {j \in DOMAIN filters : filters[j].name = result.name}}

\* Every memcmp of an accepted request can match the data of some instruction:
\* none is empty, or reaches past the data, on any width of usize.
AcceptedCanMatch ==
    IsOk =>
      \A name \in DOMAIN result.transactions :
        \A k \in DOMAIN result.transactions[name].instructions :
          LET i == result.transactions[name].instructions[k]
          IN  \A m \in DOMAIN i.memcmp :
                i.memcmp[m].bytes # <<>> /\ CanMatch(i, i.memcmp[m])

\* A memcmp or a size is refused as out of range only if no instruction could
\* ever match it: the last byte of the largest data is within reach.
RefusedCannotMatch ==
    /\ IsErr("MemcmpOutOfRange") =>
         \E filter \in Accused : \E k \in DOMAIN filter.instructions :
           LET i == filter.instructions[k]
           IN  \E m \in DOMAIN i.memcmp : ~CanMatch(i, i.memcmp[m])
    /\ IsErr("DataSizeTooLarge") =>
         \E filter \in Accused : \E k \in DOMAIN filter.instructions :
           \A data \in AllData : ~SizeFits(data, filter.instructions[k])

\* An instruction filter of a request that the server takes.
InstructionServable(i) ==
    /\ Len(i.memcmp) <= MAX_MEMCMPS_PER_INSTRUCTION
    /\ \A m \in DOMAIN i.memcmp : Len(i.memcmp[m].bytes) \in 1 .. MAX_MEMCMP_BYTES
    /\ i.data_size # NoSize => i.data_size <= MAX_INSTRUCTION_DATA_BYTES

\* A filter of a request that the server takes: it is not the full feed, and no
\* list of it is longer than the server allows.
FilterServable(asked) ==
    /\ Selective(asked)
    /\ \A list \in {asked.account_include, asked.account_exclude, asked.account_required,
                    asked.signer_include, asked.signer_exclude} :
         Len(list) <= MAX_ACCOUNTS_PER_LIST
    /\ Len(asked.signature) <= MAX_SIGNATURES_PER_FILTER
    /\ \A k \in DOMAIN asked.instructions : InstructionServable(asked.instructions[k])

\* What an accepted request asks of the server is within each of its limits, those
\* of a filter and those of the stream, which filters within theirs may break
\* together: names, account lists, signatures, memcmps and their bytes, data
\* sizes, filters and the instruction filters of all of them.
AcceptedIsServable ==
    IsOk =>
      LET asked == result.transactions
          conditions ==
            UNION {{name} \X DOMAIN asked[name].instructions : name \in DOMAIN asked}
      IN  /\ Cardinality(DOMAIN asked) \in 1 .. MAX_FILTERS
          /\ Cardinality(conditions) <= MAX_INSTRUCTION_FILTERS
          /\ \A name \in DOMAIN asked :
               name \notin LongNames /\ FilterServable(asked[name])

\* Filters, filter.rs:347: "Named filters for one stream; every matching update
\* echoes the names that matched"; and README.md:150, "you hold everything your
\* filters matched": no filter of an accepted set is left out of its request.
EveryFilterIsAsked ==
    IsOk => \A k \in DOMAIN filters :
              result.transactions[filters[k].name] = FilterIntoProto(filters[k].filter)
=============================================================================

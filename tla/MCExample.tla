------------------------------ MODULE MCExample ------------------------------
(* Command lines that give any two of the options, each with values on both  *)
(* sides of what its parser takes; and payloads and transactions of which    *)
(* every option tells some apart.                                            *)
EXTENDS Example

NoArgs ==
    [region |-> Text(Word("harmonic", "lower"), Word("ams", "lower")),
     accounts |-> <<>>, required |-> <<>>, excluded |-> <<>>, signers |-> <<>>,
     excluded_signers |-> <<>>, instructions |-> <<>>, data_size |-> NoSize,
     signatures |-> <<>>, results |-> <<>>, no_reconnect |-> FALSE]

MCRegions ==
    {Text(Word("bam", "mixed"), Word("slc", "upper")),
     Text(Word("harmonic", "lower"), Word("dfw", "lower"))}

\* Any data, two bytes as four digits, a sign and a digit, no bytes, an offset
\* out of reach, what is no digit, half a pair, no hex, and one part too many.
MCInstructions ==
    {<<"p">>, <<"p", {0}, <<0, 1, 0, 2>>>>, <<"p", {1}, <<Plus, 2>>>>, <<"p", {0}, <<>>>>,
     <<"p", {3}, <<0, 1>>>>, <<"p", {0}, <<0, Other>>>>, <<"p", {0}, <<0, 1, 0>>>>,
     <<"p", {}, <<0, 1>>>>, <<"p", {0}>>, <<"p", {0}, <<0, 1>>, <<0>>>>, <<"not a key">>}

Accounts == {<<"a">>, <<"b">>}

MCResults ==
    {<<Word("success", "mixed")>>, <<Word("execution_result_fees_only", "upper")>>,
     <<Word("execution_result_fees_only", "lower")>>, <<Word("landed", "lower")>>}

\* The values an option is given.
Given(option) ==
    CASE option = "region" -> MCRegions
      [] option = "instructions" -> {<<spec>> : spec \in MCInstructions}
      [] option = "data_size" -> {2, 4}
      [] option = "signatures" -> {<<"s">>}
      [] option = "results" -> MCResults
      [] option = "no_reconnect" -> {TRUE}
      [] OTHER -> Accounts

With(line, option) == {[line EXCEPT ![option] = value] : value \in Given(option)}

MCArgs ==
    {NoArgs} \union
    UNION {UNION {With(line, second) : line \in With(NoArgs, first)} :
             first \in DOMAIN NoArgs, second \in DOMAIN NoArgs}

MCPayloads ==
    {[transaction |-> BytesOf(<<"s">>, <<"a">>), result |-> result] :
       result \in {{}, {Success}, {FeesOnly}, {3}}}
      \union {[transaction |-> bytes, result |-> {Success}] :
                bytes \in {NotATransaction, BytesOf(<<>>, <<"a">>)}}

MCTransactions ==
    {[keys |-> keys, signers |-> signers, instructions |-> instructions,
      signature |-> signature, result |-> result] :
       keys \in SUBSET {"a", "b"}, signers \in SUBSET {"a", "b"},
       instructions \in {{}} \union {{[program_id |-> "p", data |-> data]} :
                                       data \in {<<>>, <<1, 2>>, <<1, 2, 0>>, <<2, 2>>}},
       signature \in {"s", "t"}, result \in {{}, {Success}, {FeesOnly}}}

TxsOf == {tx \in MCTransactions : tx.signers \subseteq tx.keys}

\* Only the bytes of a whole transaction with a signature give its parts.
ASSUME PartsNeedASignature ==
    /\ ParseStaticParts(NotATransaction) = Err("Malformed")
    /\ ParseStaticParts(BytesOf(<<>>, <<"a">>)) = Err("NoSignature")
    /\ ParseStaticParts(BytesOf(<<"s", "t">>, <<"a">>)) = Signed(<<"s", <<"a">>>>)
=============================================================================

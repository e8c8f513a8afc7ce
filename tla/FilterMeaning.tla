---------------------------- MODULE FilterMeaning ----------------------------
(***************************************************************************)
(* What a filter of a request means, as preconfs.proto states it: the      *)
(* reference the client's filters are held against.                        *)
(*                                                                         *)
(* A transaction is its static account keys, those of them that signed,    *)
(* its top-level instructions, its first signature and the set of at most  *)
(* one outcome its feed reported.                                          *)
(***************************************************************************)
EXTENDS Filters

CONSTANT Bytes  \* the values of a byte

\* Every instruction data a transaction can carry.
AllData == UNION {[1 .. n -> Bytes] : n \in 0 .. MAX_INSTRUCTION_DATA_BYTES}

\* Data shorter than the offset plus the bytes does not match.
Holds(data, memcmp) ==
    \A k \in DOMAIN memcmp.bytes :
      memcmp.offset + k <= Len(data) /\ data[memcmp.offset + k] = memcmp.bytes[k]

\* Full-feed subscriptions are not allowed: a filter must positively select.
Selective(transactionFilter) ==
    \/ transactionFilter.account_include # <<>>
    \/ transactionFilter.account_required # <<>>
    \/ transactionFilter.signer_include # <<>>
    \/ transactionFilter.instructions # <<>>
    \/ transactionFilter.signature # <<>>

SizeFits(data, i) == i.data_size = NoSize \/ Len(data) = i.data_size

CanMatch(i, memcmp) == \E data \in AllData : SizeFits(data, i) /\ Holds(data, memcmp)

\* The transaction has an instruction that passes one of the conditions.
Invokes(tx, instructions) ==
    \E i \in Range(instructions), called \in tx.instructions :
      /\ called.program_id = i.program_id
      /\ SizeFits(called.data, i)
      /\ \A memcmp \in Range(i.memcmp) : Holds(called.data, memcmp)

\* A transaction matches when it satisfies every condition that is set; an
\* empty list is a condition that is not set.
Matches(tf, tx) ==
    LET Unset(list) == list = <<>>
        Some(list, values) == Range(list) \intersect values # {}
    IN  /\ Unset(tf.account_include) \/ Some(tf.account_include, tx.keys)
        /\ ~Some(tf.account_exclude, tx.keys)
        /\ Range(tf.account_required) \subseteq tx.keys
        /\ Unset(tf.signature) \/ Some(tf.signature, {tx.signature})
        /\ Unset(tf.execution_results) \/ Some(tf.execution_results, tx.result)
        /\ Unset(tf.signer_include) \/ Some(tf.signer_include, tx.signers)
        /\ ~Some(tf.signer_exclude, tx.signers)
        /\ Unset(tf.instructions) \/ Invokes(tx, tf.instructions)
=============================================================================

------------------------------ MODULE MCFilters ------------------------------
(* Limits of one or two, instruction data of at most three bytes, and a usize *)
(* of the width of an offset, so that an offset plus a length can overflow.   *)
EXTENDS FilterBuilder

AnyData == NewInstruction("p")

\* Any data, the last byte and one past it, an offset that overflows, no
\* bytes, too many, a size met exactly, missed by one, and too large, and two
\* memcmps of which none or one is out of reach, and three, one too many.
MCInstructions ==
    {AnyData,
     WithMemcmp(AnyData, 2, <<1>>),
     WithMemcmp(AnyData, 3, <<1>>),
     WithMemcmp(AnyData, 7, <<0>>),
     WithMemcmp(AnyData, 0, <<>>),
     WithMemcmp(AnyData, 0, <<0, 1, 0>>),
     WithDataSize(WithMemcmp(AnyData, 0, <<1, 0>>), 2),
     WithDataSize(WithMemcmp(AnyData, 1, <<1, 0>>), 2),
     WithDataSize(AnyData, 4),
     WithMemcmp(WithMemcmp(AnyData, 0, <<1>>), 2, <<0>>),
     WithMemcmp(WithMemcmp(AnyData, 0, <<1>>), 3, <<0>>),
     WithMemcmp(WithMemcmp(WithMemcmp(AnyData, 0, <<1>>), 1, <<0>>), 2, <<1>>)}
=============================================================================

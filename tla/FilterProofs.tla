----------------------------- MODULE FilterProofs -----------------------------
(***************************************************************************)
(* The checks of filter.rs, for every set of filters and every value of    *)
(* the limits: what passes them the server can serve, what they refuse as  *)
(* out of range no instruction can match.                                  *)
(***************************************************************************)
EXTENDS FilterBuilder, PathProofs, FiniteSetTheorems

Memcmps == [offset : Nat, bytes : Seq(Bytes)]

BuiltFilters ==
    [accounts : [AccountLists -> Seq(Accounts)], instructions : Seq(Instructions),
     signatures : Seq(Signatures), execution_results : Seq(Outcomes)]

Named == [name : Names, filter : BuiltFilters]

Errors ==
    {Ok, "MemcmpLength", "MemcmpOutOfRange", "TooManyMemcmps", "DataSizeTooLarge",
     "NameTooLong", "TooManyAccounts", "TooManySignatures", "Empty", "NoFilters",
     "TooManyFilters", "TooManyInstructionFilters"}

-----------------------------------------------------------------------------
(* The least and the greatest of a set. *)

LEMMA MinOf ==
    ASSUME NEW T, T \subseteq Nat, T # {}
    PROVE  Min(T) \in T /\ \A k \in T : Min(T) <= k
<1>1. \E m \in T : \A k \in T : m <= k
  BY LeastOf
<1>2. QED
  BY <1>1 DEF Min

\* The greatest is at the least distance from the bound.
LEMMA MaxOf ==
    ASSUME NEW n \in Nat, NEW T, T \subseteq 1 .. n, T # {}
    PROVE  Max(T) \in T /\ \A k \in T : k <= Max(T)
<1> DEFINE D == {n - k : k \in T}
<1>1. D \subseteq Nat /\ D # {}
  <2>1. ASSUME NEW k \in T PROVE n - k \in Nat
    <3>1. k \in 1 .. n
      OBVIOUS
    <3>2. QED
      BY <3>1
  <2>2. QED
    BY <2>1
<1>2. PICK d \in D : \A e \in D : d <= e
  <2> HIDE DEF D
  <2>1. QED
    BY <1>1, LeastOf
<1>3. PICK m \in T : d = n - m
  OBVIOUS
<1>4. ASSUME NEW k \in T PROVE m >= k
  <2>1. n - m <= n - k
    BY <1>2, <1>3
  <2>2. m \in Nat /\ k \in Nat
    OBVIOUS
  <2>3. QED
    BY <2>1, <2>2
<1>5. Max(T) \in T /\ \A k \in T : Max(T) >= k
  BY <1>4 DEF Max
<1>6. QED
  BY <1>5

-----------------------------------------------------------------------------
(* The first error of a list of checks. *)

LEMMA FirstIs ==
    ASSUME NEW S, NEW E \in Seq(S)
    PROVE  \/ First(E) = Ok /\ \A k \in 1 .. Len(E) : E[k] = Ok
           \/ \E k \in 1 .. Len(E) : /\ E[k] # Ok
                                     /\ First(E) = E[k]
                                     /\ \A j \in 1 .. Len(E) : j < k => E[j] = Ok
<1> DEFINE found == {k \in DOMAIN E : E[k] # Ok}
<1>1. DOMAIN E = 1 .. Len(E) /\ found \subseteq Nat
  OBVIOUS
<1>2. First(E) = IF found = {} THEN Ok ELSE E[Min(found)]
  BY DEF First
<1>3. CASE found = {}
  BY <1>1, <1>2, <1>3
<1>4. CASE found # {}
  <2>1. PICK m \in found : m = Min(found) /\ \A k \in found : m <= k
    <3> HIDE DEF found
    <3>1. QED
      BY <1>1, <1>4, MinOf
  <2>2. First(E) = E[m]
    BY <1>2, <1>4, <2>1
  <2>3. ASSUME NEW j \in 1 .. Len(E), j < m PROVE E[j] = Ok
    <3>1. SUFFICES ASSUME E[j] # Ok PROVE FALSE
      OBVIOUS
    <3>2. j \in found /\ m \in Nat /\ j \in Nat
      BY <1>1, <2>1, <3>1
    <3>3. m <= j
      BY <2>1, <3>2
    <3>4. QED
      BY <2>3, <3>2, <3>3
  <2>4. QED
    BY <1>1, <2>1, <2>2, <2>3
<1>5. QED
  BY <1>3, <1>4

\* Two checks, then those of a list.
LEMMA FirstOfTwoAndMore ==
    ASSUME NEW S, NEW a \in S, NEW b \in S, NEW t \in Seq(S)
    PROVE  LET e == First(<<a, b>> \o t)
           IN  \/ e = Ok /\ a = Ok /\ b = Ok /\ \A k \in 1 .. Len(t) : t[k] = Ok
               \/ e # Ok /\ e = a
               \/ e # Ok /\ a = Ok /\ e = b
               \/ e # Ok /\ a = Ok /\ b = Ok /\ \E k \in 1 .. Len(t) : t[k] = e
<1>1. PICK E : E = <<a, b>> \o t
  OBVIOUS
<1>2. /\ E \in Seq(S)
      /\ Len(E) = Len(t) + 2
      /\ Len(t) \in Nat
      /\ E[1] = a
      /\ E[2] = b
  BY <1>1
<1>3. \A k \in 1 .. Len(t) : E[k + 2] = t[k]
  BY <1>1
<1>4. CASE First(E) = Ok /\ \A k \in 1 .. Len(E) : E[k] = Ok
  <2>1. a = Ok /\ b = Ok
    BY <1>2, <1>4
  <2>2. ASSUME NEW k \in 1 .. Len(t) PROVE t[k] = Ok
    <3>1. k + 2 \in 1 .. Len(E)
      BY <1>2
    <3>2. QED
      BY <1>3, <1>4, <3>1
  <2>3. QED
    BY <1>1, <1>4, <2>1, <2>2
<1>5. ASSUME NEW k \in 1 .. Len(E), E[k] # Ok, First(E) = E[k],
             \A j \in 1 .. Len(E) : j < k => E[j] = Ok
      PROVE  \/ First(E) # Ok /\ First(E) = a
             \/ First(E) # Ok /\ a = Ok /\ First(E) = b
             \/ /\ First(E) # Ok /\ a = Ok /\ b = Ok
                /\ \E j \in 1 .. Len(t) : t[j] = First(E)
  <2>1. CASE k = 1
    BY <1>2, <1>5, <2>1
  <2>2. CASE k = 2
    BY <1>2, <1>5, <2>2
  <2>3. CASE k > 2
    <3>1. 1 \in 1 .. Len(E) /\ 2 \in 1 .. Len(E) /\ 1 < k /\ 2 < k
      BY <1>2, <2>3
    <3>2. a = Ok /\ b = Ok
      BY <1>2, <1>5, <3>1
    <3>3. k - 2 \in 1 .. Len(t) /\ (k - 2) + 2 = k
      BY <1>2, <2>3
    <3>4. t[k - 2] = E[k]
      BY <1>3, <3>3
    <3>5. QED
      BY <1>5, <3>2, <3>3, <3>4
  <2>4. QED
    BY <1>2, <2>1, <2>2, <2>3
<1>6. QED
  BY <1>1, <1>2, <1>4, <1>5, FirstIs

-----------------------------------------------------------------------------
(* What the checks of an instruction filter find. *)

LEMMA MemcmpErrorIs ==
    ASSUME NEW memcmp \in Memcmps, NEW n \in Nat
    PROVE  LET e == MemcmpError(memcmp, n)
           IN  /\ e \in Errors
               /\ e = Ok => /\ memcmp.bytes # <<>>
                            /\ Len(memcmp.bytes) \in 1 .. MAX_MEMCMP_BYTES
                            /\ InRange(memcmp, n)
               /\ e # "TooManyMemcmps" /\ e # "DataSizeTooLarge"
               /\ e = "MemcmpOutOfRange" => memcmp.bytes # <<>> /\ ~InRange(memcmp, n)
<1>1. PICK a \in {Ok, "MemcmpLength"} :
        a = Check(Len(memcmp.bytes) \notin 1 .. MAX_MEMCMP_BYTES, "MemcmpLength")
  BY DEF Check, Ok
<1>2. PICK b \in {Ok, "MemcmpOutOfRange"} : b = Check(~InRange(memcmp, n), "MemcmpOutOfRange")
  BY DEF Check, Ok
<1>3. MemcmpError(memcmp, n) = First(<<a, b>>)
  BY <1>1, <1>2 DEF MemcmpError
<1>4. /\ <<a, b>> \in Seq(Errors) /\ Len(<<a, b>>) = 2
      /\ <<a, b>>[1] = a /\ <<a, b>>[2] = b
  BY DEF Errors
<1>5. \/ First(<<a, b>>) = Ok /\ a = Ok /\ b = Ok
      \/ First(<<a, b>>) # Ok /\ First(<<a, b>>) = a
      \/ First(<<a, b>>) # Ok /\ a = Ok /\ First(<<a, b>>) = b
  <2>1. PICK E : E = <<a, b>>
    OBVIOUS
  <2>2. E \in Seq(Errors) /\ Len(E) = 2 /\ E[1] = a /\ E[2] = b
    BY <1>4, <2>1
  <2>3. \/ First(E) = Ok /\ \A k \in 1 .. Len(E) : E[k] = Ok
        \/ \E k \in 1 .. Len(E) : /\ E[k] # Ok
                                  /\ First(E) = E[k]
                                  /\ \A j \in 1 .. Len(E) : j < k => E[j] = Ok
    BY <2>2, FirstIs
  <2>4. QED
    BY <2>1, <2>2, <2>3
<1>6. a = Ok => memcmp.bytes # <<>> /\ Len(memcmp.bytes) \in 1 .. MAX_MEMCMP_BYTES
  BY <1>1 DEF Check, Ok
<1>7. a \in {Ok, "MemcmpLength"} /\ b \in {Ok, "MemcmpOutOfRange"}
      /\ (b = Ok <=> InRange(memcmp, n))
  BY <1>1, <1>2 DEF Check, Ok
<1>8. PICK e : e = MemcmpError(memcmp, n)
  OBVIOUS
<1>9. \/ e = Ok /\ a = Ok /\ b = Ok
      \/ e = "MemcmpLength"
      \/ e = "MemcmpOutOfRange" /\ a = Ok /\ b # Ok
  BY <1>3, <1>5, <1>7, <1>8 DEF Ok
<1>10. e \in Errors
  BY <1>9 DEF Errors
<1>11. QED
  BY <1>6, <1>7, <1>8, <1>9, <1>10 DEF Ok

LEMMA InstructionTyped ==
    ASSUME NEW i \in Instructions
    PROVE  /\ i.memcmp \in Seq(Memcmps)
           /\ DataBytes(i) \in Nat
           /\ DataBytes(i) = MAX_INSTRUCTION_DATA_BYTES \/ DataBytes(i) = i.data_size
           /\ i.data_size # NoSize => DataBytes(i) = i.data_size
  BY FiltersAssumption, FilterBuilderAssumption DEF DataBytes, Memcmps

LEMMA InstructionErrorIs ==
    ASSUME NEW i \in Instructions
    PROVE  LET e == InstructionError(i)
           IN  /\ e \in Errors
               /\ e = Ok => /\ ~ (Len(i.memcmp) > MAX_MEMCMPS_PER_INSTRUCTION)
                            /\ DataBytes(i) <= MAX_INSTRUCTION_DATA_BYTES
                            /\ \A k \in 1 .. Len(i.memcmp) :
                                 MemcmpError(i.memcmp[k], DataBytes(i)) = Ok
               /\ e = "DataSizeTooLarge" => DataBytes(i) > MAX_INSTRUCTION_DATA_BYTES
               /\ e = "MemcmpOutOfRange" =>
                    /\ DataBytes(i) <= MAX_INSTRUCTION_DATA_BYTES
                    /\ \E k \in 1 .. Len(i.memcmp) :
                         MemcmpError(i.memcmp[k], DataBytes(i)) = e
<1>1. PICK a \in {Ok, "TooManyMemcmps"} :
        a = Check(Len(i.memcmp) > MAX_MEMCMPS_PER_INSTRUCTION, "TooManyMemcmps")
  BY DEF Check, Ok
<1>2. PICK b \in {Ok, "DataSizeTooLarge"} :
        b = Check(DataBytes(i) > MAX_INSTRUCTION_DATA_BYTES, "DataSizeTooLarge")
  BY DEF Check, Ok
<1>3. PICK t : t = [k \in DOMAIN i.memcmp |-> MemcmpError(i.memcmp[k], DataBytes(i))]
  OBVIOUS
<1>4. PICK e : e = InstructionError(i)
  OBVIOUS
<1>5. e = First(<<a, b>> \o t)
  BY <1>1, <1>2, <1>3, <1>4 DEF InstructionError
<1>6. DOMAIN i.memcmp = 1 .. Len(i.memcmp) /\ Len(i.memcmp) \in Nat
  BY InstructionTyped
<1>7. PICK n \in Nat : n = Len(i.memcmp)
  BY <1>6
<1>8. ASSUME NEW k \in 1 .. n
      PROVE  /\ t[k] = MemcmpError(i.memcmp[k], DataBytes(i))
             /\ t[k] \in Errors
             /\ t[k] # "TooManyMemcmps" /\ t[k] # "DataSizeTooLarge"
  <2>1. i.memcmp[k] \in Memcmps /\ DataBytes(i) \in Nat
    BY <1>6, <1>7, InstructionTyped
  <2>2. t[k] = MemcmpError(i.memcmp[k], DataBytes(i))
    BY <1>3, <1>6, <1>7
  <2>3. QED
    BY <2>1, <2>2, MemcmpErrorIs
<1>9. t \in Seq(Errors) /\ Len(t) = n
  <2>1. DOMAIN i.memcmp = 1 .. n
    BY <1>6, <1>7
  <2>2. t \in [1 .. n -> Errors]
    BY <1>3, <1>8, <2>1
  <2>3. QED
    BY <2>2
<1>10. \/ e = Ok /\ a = Ok /\ b = Ok /\ \A k \in 1 .. Len(t) : t[k] = Ok
       \/ e # Ok /\ e = a
       \/ e # Ok /\ a = Ok /\ e = b
       \/ e # Ok /\ a = Ok /\ b = Ok /\ \E k \in 1 .. Len(t) : t[k] = e
  <2>1. a \in Errors /\ b \in Errors
    BY DEF Errors
  <2>2. QED
    BY <1>5, <1>9, <2>1, FirstOfTwoAndMore
<1>11. a \in {Ok, "TooManyMemcmps"} /\ b \in {Ok, "DataSizeTooLarge"}
       /\ (a = Ok <=> ~ (Len(i.memcmp) > MAX_MEMCMPS_PER_INSTRUCTION))
       /\ (b = Ok <=> ~ (DataBytes(i) > MAX_INSTRUCTION_DATA_BYTES))
  BY <1>1, <1>2 DEF Check, Ok
<1>12. b = Ok <=> DataBytes(i) <= MAX_INSTRUCTION_DATA_BYTES
  BY <1>11, InstructionTyped, FiltersAssumption
<1>13. e \in Errors
  BY <1>8, <1>9, <1>10 DEF Errors
<1>14. e = Ok => /\ ~ (Len(i.memcmp) > MAX_MEMCMPS_PER_INSTRUCTION)
                 /\ DataBytes(i) <= MAX_INSTRUCTION_DATA_BYTES
                 /\ \A k \in 1 .. Len(i.memcmp) :
                      MemcmpError(i.memcmp[k], DataBytes(i)) = Ok
  BY <1>8, <1>7, <1>9, <1>10, <1>11, <1>12
<1>15. e = "DataSizeTooLarge" => DataBytes(i) > MAX_INSTRUCTION_DATA_BYTES
  BY <1>8, <1>7, <1>9, <1>10, <1>11 DEF Ok
<1>16. e = "MemcmpOutOfRange" =>
         /\ DataBytes(i) <= MAX_INSTRUCTION_DATA_BYTES
         /\ \E k \in 1 .. Len(i.memcmp) : MemcmpError(i.memcmp[k], DataBytes(i)) = e
  BY <1>8, <1>7, <1>9, <1>10, <1>11, <1>12 DEF Ok
<1>17. QED
  BY <1>4, <1>13, <1>14, <1>15, <1>16

-----------------------------------------------------------------------------
(* What the checks of a filter and of a set find. *)

LEMMA FilterErrorIs ==
    ASSUME NEW name, NEW filter \in BuiltFilters
    PROVE  LET e == FilterError(name, filter)
           IN  /\ e \in Errors
               /\ e = Ok => /\ name \notin LongNames
                            /\ Selects(filter)
                            /\ \A list \in AccountLists :
                                 ~ (Len(filter.accounts[list]) > MAX_ACCOUNTS_PER_LIST)
                            /\ ~ (Len(filter.signatures) > MAX_SIGNATURES_PER_FILTER)
                            /\ \A k \in 1 .. Len(filter.instructions) :
                                 InstructionError(filter.instructions[k]) = Ok
               /\ e \in {"DataSizeTooLarge", "MemcmpOutOfRange"} =>
                    \E k \in 1 .. Len(filter.instructions) :
                      InstructionError(filter.instructions[k]) = e
<1>1. PICK a \in {Ok, "NameTooLong"} : a = Check(name \in LongNames, "NameTooLong")
  BY DEF Check, Ok
<1>2. PICK b \in {Ok, "TooManyAccounts"} :
        b = Check(\E list \in AccountLists :
                    Len(filter.accounts[list]) > MAX_ACCOUNTS_PER_LIST, "TooManyAccounts")
  BY DEF Check, Ok
<1>3. PICK c \in {Ok, "TooManySignatures"} :
        c = Check(Len(filter.signatures) > MAX_SIGNATURES_PER_FILTER, "TooManySignatures")
  BY DEF Check, Ok
<1>4. PICK d \in {Ok, "Empty"} : d = Check(~Selects(filter), "Empty")
  BY DEF Check, Ok
<1>5. PICK t : t = [k \in DOMAIN filter.instructions |->
                      InstructionError(filter.instructions[k])]
  OBVIOUS
<1>6. PICK E : E = <<a, b, c>> \o t \o <<d>>
  OBVIOUS
<1>7. PICK e : e = FilterError(name, filter)
  OBVIOUS
<1>8. e = First(E)
  BY <1>1, <1>2, <1>3, <1>4, <1>5, <1>6, <1>7 DEF FilterError
<1>9. filter.instructions \in Seq(Instructions)
  BY DEF BuiltFilters
<1>10. DOMAIN filter.instructions = 1 .. Len(filter.instructions)
       /\ Len(filter.instructions) \in Nat
  BY <1>9
<1>11. PICK n \in Nat : n = Len(filter.instructions)
  BY <1>10
<1>12. ASSUME NEW k \in 1 .. n
       PROVE  t[k] = InstructionError(filter.instructions[k]) /\ t[k] \in Errors
  <2>1. filter.instructions[k] \in Instructions
    BY <1>9, <1>11
  <2>2. t[k] = InstructionError(filter.instructions[k])
    BY <1>5, <1>10, <1>11
  <2>3. QED
    BY <2>1, <2>2, InstructionErrorIs
<1>13. t \in Seq(Errors) /\ Len(t) = n
  <2>1. n \in Nat /\ n = Len(filter.instructions)
    BY <1>11
  <2>2. DOMAIN t = 1 .. n
    BY ONLY <1>5, <1>10, <2>1
  <2>3. t = [k \in 1 .. n |-> t[k]]
    BY ONLY <1>5, <2>2
  <2>4. \A k \in 1 .. n : t[k] \in Errors
    BY <1>12
  <2>5. t \in [1 .. n -> Errors]
    BY ONLY <2>3, <2>4
  <2>6. QED
    BY ONLY <2>1, <2>5
<1>14. {a, b, c, d} \subseteq Errors
  BY DEF Errors
<1>15. /\ E \in Seq(Errors)
       /\ Len(E) = n + 4
       /\ E[1] = a /\ E[2] = b /\ E[3] = c
  BY <1>6, <1>13, <1>14
<1>16. E[n + 4] = d
  BY <1>6, <1>13, <1>14
<1>17. \A k \in 1 .. n : E[k + 3] = t[k]
  BY <1>6, <1>13, <1>14
<1>18. CASE First(E) = Ok /\ \A k \in 1 .. Len(E) : E[k] = Ok
  <2>1. a = Ok /\ b = Ok /\ c = Ok /\ d = Ok
    BY <1>15, <1>16, <1>18
  <2>2. /\ name \notin LongNames
        /\ Selects(filter)
        /\ \A list \in AccountLists :
             ~ (Len(filter.accounts[list]) > MAX_ACCOUNTS_PER_LIST)
        /\ ~ (Len(filter.signatures) > MAX_SIGNATURES_PER_FILTER)
    BY <1>1, <1>2, <1>3, <1>4, <2>1 DEF Check, Ok
  <2>3. ASSUME NEW k \in 1 .. n PROVE InstructionError(filter.instructions[k]) = Ok
    <3>1. k + 3 \in 1 .. Len(E)
      BY <1>15
    <3>2. QED
      BY <1>12, <1>17, <1>18, <3>1
  <2>4. e = Ok /\ e \in Errors
    BY <1>8, <1>18 DEF Errors
  <2>5. QED
    BY <1>7, <1>11, <2>2, <2>3, <2>4 DEF Ok
<1>19. ASSUME NEW k \in 1 .. Len(E), E[k] # Ok, First(E) = E[k]
       PROVE  /\ e # Ok
              /\ e \in Errors
              /\ e \in {"DataSizeTooLarge", "MemcmpOutOfRange"} =>
                   \E j \in 1 .. n : InstructionError(filter.instructions[j]) = e
  <2>1. e = E[k] /\ e # Ok /\ e \in Errors
    BY <1>8, <1>15, <1>19
  <2>2. CASE k \in {1, 2, 3} \/ k = n + 4
    <3>1. e \in {a, b, c, d}
      BY <1>15, <1>16, <2>1, <2>2
    <3>2. QED
      BY <2>1, <3>1 DEF Ok
  <2>3. CASE k > 3 /\ k < n + 4
    <3>1. k - 3 \in 1 .. n /\ (k - 3) + 3 = k
      BY <1>15, <2>3
    <3>2. InstructionError(filter.instructions[k - 3]) = e
      BY <1>12, <1>17, <2>1, <3>1
    <3>3. QED
      BY <2>1, <3>1, <3>2
  <2>4. QED
    BY <1>15, <2>2, <2>3
<1>20. QED
  BY <1>7, <1>11, <1>15, <1>18, <1>19, FirstIs

LEMMA SetErrorIs ==
    ASSUME NEW set
    PROVE  /\ SetError(set) = Ok => /\ set # <<>>
                                    /\ ~ (Len(set) > MAX_FILTERS)
                                    /\ ~ (InstructionsOf(set) > MAX_INSTRUCTION_FILTERS)
           /\ SetError(set) \in {Ok, "NoFilters", "TooManyFilters",
                                 "TooManyInstructionFilters"}
<1>1. PICK a \in {Ok, "NoFilters"} : a = Check(set = <<>>, "NoFilters")
  BY DEF Check, Ok
<1>2. PICK b \in {Ok, "TooManyFilters"} : b = Check(Len(set) > MAX_FILTERS, "TooManyFilters")
  BY DEF Check, Ok
<1>3. PICK c \in {Ok, "TooManyInstructionFilters"} :
        c = Check(TooManyInstructions(set), "TooManyInstructionFilters")
  BY DEF Check, Ok
<1>4. PICK E : E = <<a, b, c>>
  OBVIOUS
<1>5. E \in Seq(Errors) /\ Len(E) = 3 /\ E[1] = a /\ E[2] = b /\ E[3] = c
  BY <1>4 DEF Errors
<1>6. SetError(set) = First(E)
  BY <1>1, <1>2, <1>3, <1>4 DEF SetError
<1>7. \/ First(E) = Ok /\ a = Ok /\ b = Ok /\ c = Ok
      \/ First(E) # Ok /\ First(E) \in {a, b, c}
  <2>1. \/ First(E) = Ok /\ \A k \in 1 .. Len(E) : E[k] = Ok
        \/ \E k \in 1 .. Len(E) : E[k] # Ok /\ First(E) = E[k]
    BY <1>5, FirstIs
  <2>2. QED
    BY <1>5, <2>1
<1>8. a = Ok => set # <<>>
  BY <1>1 DEF Check, Ok
<1>9. b = Ok => ~ (Len(set) > MAX_FILTERS)
  BY <1>2 DEF Check, Ok
<1>10. c = Ok => ~ (InstructionsOf(set) > MAX_INSTRUCTION_FILTERS)
  BY <1>3 DEF Check, Ok, TooManyInstructions
<1>11. QED
  BY <1>6, <1>7, <1>8, <1>9, <1>10

-----------------------------------------------------------------------------
(* What a request holds. *)

LEMMA RequestIs ==
    ASSUME NEW set \in Seq(Named)
    PROVE  LET r == RequestOf(set)
           IN  \/ /\ SetError(set) # Ok
                  /\ r = Refusal(SetError(set), "")
               \/ /\ SetError(set) = Ok
                  /\ \A k \in 1 .. Len(set) : FilterError(set[k].name, set[k].filter) = Ok
                  /\ r = Accepted(Transactions(set))
               \/ \E k \in 1 .. Len(set) :
                    /\ FilterError(set[k].name, set[k].filter) # Ok
                    /\ r = Refusal(FilterError(set[k].name, set[k].filter), set[k].name)
<1>1. PICK faulty : faulty = {k \in DOMAIN set : FilterError(set[k].name, set[k].filter) # Ok}
  OBVIOUS
<1>2. DOMAIN set = 1 .. Len(set) /\ faulty \subseteq Nat
  BY <1>1
<1>3. RequestOf(set) =
        IF SetError(set) # Ok THEN Refusal(SetError(set), "")
        ELSE IF faulty = {} THEN Accepted(Transactions(set))
        ELSE Refusal(FilterError(set[Min(faulty)].name, set[Min(faulty)].filter),
                     set[Min(faulty)].name)
  BY <1>1, Zenon DEF RequestOf
<1>4. CASE SetError(set) # Ok
  BY <1>3, <1>4
<1>5. CASE SetError(set) = Ok /\ faulty = {}
  BY <1>1, <1>2, <1>3, <1>5
<1>6. CASE SetError(set) = Ok /\ faulty # {}
  <2>1. PICK k \in faulty : k = Min(faulty)
    BY <1>2, <1>6, MinOf
  <2>2. QED
    BY <1>1, <1>2, <1>3, <1>6, <2>1
<1>7. QED
  BY <1>4, <1>5, <1>6

\* Under each name of a request is a filter of the set, the last of that name.
LEMMA TransactionsAre ==
    ASSUME NEW set \in Seq(Named), NEW name \in DOMAIN Transactions(set)
    PROVE  LET last == Max({k \in DOMAIN set : set[k].name = name})
           IN  /\ last \in 1 .. Len(set)
               /\ set[last].name = name
               /\ set[last].filter \in BuiltFilters
               /\ Transactions(set)[name] = FilterIntoProto(set[last].filter)
<1>1. PICK same : same = {k \in DOMAIN set : set[k].name = name}
  OBVIOUS
<1>2. PICK n \in Nat : n = Len(set) /\ DOMAIN set = 1 .. n
  OBVIOUS
<1>3. same \subseteq 1 .. n /\ same # {}
  BY <1>1, <1>2 DEF Transactions
<1>4. Max(same) \in same
  BY <1>2, <1>3, MaxOf
<1>5. PICK last : last = Max(same)
  OBVIOUS
<1>6. last \in 1 .. n /\ set[last].name = name
  BY <1>1, <1>2, <1>4, <1>5
<1>7. set[last] \in Named
  BY <1>2, <1>6
<1>8. set[last].filter \in BuiltFilters
  BY <1>7 DEF Named
<1>9. Transactions(set)[name] = FilterIntoProto(set[Max(same)].filter)
  BY <1>1, Zenon DEF Transactions
<1>10. QED
  BY <1>1, <1>2, <1>5, <1>6, <1>8, <1>9

LEMMA InstructionsAsked ==
    ASSUME NEW filter \in BuiltFilters
    PROVE  LET asked == FilterIntoProto(filter).instructions
           IN  /\ DOMAIN asked = 1 .. Len(filter.instructions)
               /\ \A k \in 1 .. Len(filter.instructions) :
                    asked[k] = InstructionIntoProto(filter.instructions[k])
<1>1. filter.instructions \in Seq(Instructions)
  BY DEF BuiltFilters
<1>2. DOMAIN filter.instructions = 1 .. Len(filter.instructions)
  BY <1>1
<1>3. FilterIntoProto(filter).instructions =
        [k \in DOMAIN filter.instructions |-> InstructionIntoProto(filter.instructions[k])]
  BY DEF FilterIntoProto
<1>4. QED
  BY <1>2, <1>3, Zenon

LEMMA MemcmpsAsked ==
    ASSUME NEW i \in Instructions
    PROVE  /\ InstructionIntoProto(i).data_size = i.data_size
           /\ DOMAIN InstructionIntoProto(i).memcmp = 1 .. Len(i.memcmp)
           /\ \A m \in 1 .. Len(i.memcmp) :
                InstructionIntoProto(i).memcmp[m] = i.memcmp[m]
<1>1. i.memcmp \in Seq(Memcmps)
  BY InstructionTyped
<1>2. DOMAIN i.memcmp = 1 .. Len(i.memcmp)
  BY <1>1
<1>3. InstructionIntoProto(i).memcmp =
        [k \in DOMAIN i.memcmp |->
           [offset |-> i.memcmp[k].offset, bytes |-> i.memcmp[k].bytes]]
  BY DEF InstructionIntoProto
<1>4. ASSUME NEW m \in 1 .. Len(i.memcmp)
      PROVE  InstructionIntoProto(i).memcmp[m] = i.memcmp[m]
  <2>1. i.memcmp[m] \in Memcmps
    BY <1>1
  <2>2. i.memcmp[m] = [offset |-> i.memcmp[m].offset, bytes |-> i.memcmp[m].bytes]
    BY <2>1 DEF Memcmps
  <2>3. QED
    BY <1>2, <1>3, <2>2
<1>5. DOMAIN InstructionIntoProto(i).memcmp = 1 .. Len(i.memcmp)
  BY <1>2, <1>3
<1>6. InstructionIntoProto(i).data_size = i.data_size
  BY DEF InstructionIntoProto
<1>7. QED
  BY <1>4, <1>5, <1>6

-----------------------------------------------------------------------------
(* What a memcmp can match. *)

\* The data that has the bytes at the offset and any byte elsewhere.
LEMMA InRangeCanMatch ==
    ASSUME NEW i \in Instructions, NEW memcmp \in Memcmps, memcmp.bytes # <<>>,
           DataBytes(i) <= MAX_INSTRUCTION_DATA_BYTES, InRange(memcmp, DataBytes(i))
    PROVE  CanMatch(i, memcmp)
<1>1. PICK n \in Nat : n = DataBytes(i) /\ n <= MAX_INSTRUCTION_DATA_BYTES
                       /\ (i.data_size = NoSize \/ i.data_size = n)
  BY InstructionTyped
<1>2. PICK from \in Nat, bytes \in Seq(Bytes) : from = memcmp.offset /\ bytes = memcmp.bytes
  BY DEF Memcmps
<1>3. PICK length \in Nat : length = Len(bytes)
  BY <1>2
<1>4. 1 <= length /\ from + length <= n
  BY <1>1, <1>2, <1>3 DEF InRange
<1>5. bytes[1] \in Bytes /\ DOMAIN bytes = 1 .. length
  BY <1>3, <1>4
<1>6. PICK data : data = [k \in 1 .. n |->
                            IF k - from \in 1 .. length THEN bytes[k - from] ELSE bytes[1]]
  OBVIOUS
<1>7. data \in [1 .. n -> Bytes]
  <2>1. ASSUME NEW k \in 1 .. length PROVE bytes[k] \in Bytes
    BY <1>5, <2>1
  <2>2. QED
    BY <1>5, <1>6, <2>1
<1>8. data \in Seq(Bytes) /\ Len(data) = n
  BY <1>7
<1>9. data \in AllData
  <2>1. n \in 0 .. MAX_INSTRUCTION_DATA_BYTES
    BY <1>1, FiltersAssumption
  <2>2. QED
    BY <1>7, <2>1 DEF AllData
<1>10. SizeFits(data, i)
  BY <1>1, <1>8 DEF SizeFits
<1>11. ASSUME NEW k \in 1 .. length
       PROVE  from + k <= n /\ data[from + k] = bytes[k]
  <2>1. from + k \in 1 .. n /\ (from + k) - from = k
    BY <1>4
  <2>2. QED
    BY <1>6, <2>1
<1>12. Holds(data, memcmp)
  BY <1>2, <1>5, <1>8, <1>11 DEF Holds
<1>13. QED
  BY <1>9, <1>10, <1>12 DEF CanMatch

\* The last of the bytes would have to lie past the largest data.
LEMMA OutOfRangeCannotMatch ==
    ASSUME NEW i \in Instructions, NEW memcmp \in Memcmps, memcmp.bytes # <<>>,
           DataBytes(i) <= MAX_INSTRUCTION_DATA_BYTES, ~InRange(memcmp, DataBytes(i))
    PROVE  ~CanMatch(i, memcmp)
<1>1. SUFFICES ASSUME NEW data \in AllData, SizeFits(data, i), Holds(data, memcmp)
               PROVE  FALSE
  BY DEF CanMatch
<1>2. PICK max \in Nat, size \in Nat, n \in Nat :
        max = MAX_INSTRUCTION_DATA_BYTES /\ size = USizeSize /\ n = DataBytes(i)
        /\ max < size /\ n <= max
  BY InstructionTyped, FiltersAssumption
<1>3. PICK from \in Nat, bytes \in Seq(Bytes) : from = memcmp.offset /\ bytes = memcmp.bytes
  BY DEF Memcmps
<1>4. PICK length \in Nat : length = Len(bytes)
  BY <1>3
<1>5. 1 <= length /\ DOMAIN bytes = 1 .. length
  BY <1>3, <1>4
<1>6. PICK l \in 0 .. max : data \in [1 .. l -> Bytes]
  BY <1>2 DEF AllData
<1>7. Len(data) = l
  BY <1>6
<1>8. l <= n
  <2>1. CASE i.data_size = NoSize
    BY <1>2, <1>6, <2>1 DEF DataBytes
  <2>2. CASE i.data_size # NoSize
    BY <1>1, <1>2, <1>7, <2>2, InstructionTyped DEF SizeFits
  <2>3. QED
    BY <2>1, <2>2
<1>9. from + length <= l
  <2>1. length \in DOMAIN bytes
    BY <1>5
  <2>2. QED
    BY <1>1, <1>3, <1>7, <2>1 DEF Holds
<1>10. from + length < size /\ from < size /\ from + length <= n
  BY <1>2, <1>6, <1>8, <1>9
<1>11. InRange(memcmp, DataBytes(i))
  BY <1>2, <1>3, <1>4, <1>10 DEF InRange
<1>12. QED
  BY <1>11

LEMMA TooLargeFitsNone ==
    ASSUME NEW i \in Instructions, DataBytes(i) > MAX_INSTRUCTION_DATA_BYTES,
           NEW data \in AllData
    PROVE  ~SizeFits(data, i)
<1>1. PICK max \in Nat : max = MAX_INSTRUCTION_DATA_BYTES
  BY FiltersAssumption
<1>2. i.data_size # NoSize /\ i.data_size \in Nat /\ i.data_size > max
  BY <1>1, InstructionTyped DEF DataBytes
<1>3. PICK l \in 0 .. max : data \in [1 .. l -> Bytes]
  BY <1>1 DEF AllData
<1>4. Len(data) = l
  BY <1>3
<1>5. QED
  BY <1>2, <1>3, <1>4 DEF SizeFits

-----------------------------------------------------------------------------
(* The invariant: the set is made of what the builders made, and what      *)
(* into_request returned is what it returns of that set still.             *)

FilterInv ==
    /\ building \in BuiltFilters
    /\ filters \in Seq(Named)
    /\ result \in {NoResult, RequestOf(filters)}

LEMMA NewFilterIsBuilt == NewFilter \in BuiltFilters
  BY DEF NewFilter, BuiltFilters

LEMMA FilterStep ==
    ASSUME FilterInv, [Next]_vars
    PROVE  FilterInv'
<1> USE DEF FilterInv
<1>1. ASSUME NEW list \in AccountLists, NEW account \in Accounts, AddAccount(list, account)
      PROVE  FilterInv'
  <2>1. building.accounts \in [AccountLists -> Seq(Accounts)]
    BY DEF BuiltFilters
  <2>2. building' = [building EXCEPT !.accounts[list] = Append(building.accounts[list], account)]
    BY <1>1 DEF AddAccount
  <2>3. [building.accounts EXCEPT ![list] = Append(building.accounts[list], account)]
          \in [AccountLists -> Seq(Accounts)]
    BY <2>1
  <2>4. building' \in BuiltFilters
    BY <2>2, <2>3 DEF BuiltFilters
  <2>5. QED
    BY <1>1, <2>4 DEF AddAccount, Building
<1>2. ASSUME NEW i \in Instructions, AddInstruction(i) PROVE FilterInv'
  <2>1. PICK old \in Seq(Instructions) : old = building.instructions
    BY DEF BuiltFilters
  <2>2. PICK list \in Seq(Instructions) : list = Append(building.instructions, i)
    <3>1. Append(old, i) \in Seq(Instructions)
      BY <2>1
    <3>2. QED
      BY <2>1, <3>1
  <2>3. building' = [building EXCEPT !.instructions = list]
    BY <1>2, <2>2 DEF AddInstruction
  <2>4. building' \in BuiltFilters
    BY <2>3 DEF BuiltFilters
  <2>5. QED
    BY <1>2, <2>4 DEF AddInstruction, Building
<1>3. ASSUME NEW signature \in Signatures, AddSignature(signature) PROVE FilterInv'
  <2>1. PICK old \in Seq(Signatures) : old = building.signatures
    BY DEF BuiltFilters
  <2>2. PICK list \in Seq(Signatures) : list = Append(building.signatures, signature)
    <3>1. Append(old, signature) \in Seq(Signatures)
      BY <2>1
    <3>2. QED
      BY <2>1, <3>1
  <2>3. building' = [building EXCEPT !.signatures = list]
    BY <1>3, <2>2 DEF AddSignature
  <2>4. building' \in BuiltFilters
    BY <2>3 DEF BuiltFilters
  <2>5. QED
    BY <1>3, <2>4 DEF AddSignature, Building
<1>4. ASSUME NEW outcome \in Outcomes, AddExecutionResult(outcome) PROVE FilterInv'
  <2>1. PICK old \in Seq(Outcomes) : old = building.execution_results
    BY DEF BuiltFilters
  <2>2. PICK list \in Seq(Outcomes) : list = Append(building.execution_results, outcome)
    <3>1. Append(old, outcome) \in Seq(Outcomes)
      BY <2>1
    <3>2. QED
      BY <2>1, <3>1
  <2>3. building' = [building EXCEPT !.execution_results = list]
    BY <1>4, <2>2 DEF AddExecutionResult
  <2>4. building' \in BuiltFilters
    BY <2>3 DEF BuiltFilters
  <2>5. QED
    BY <1>4, <2>4 DEF AddExecutionResult, Building
<1>5. ASSUME NEW name \in Names, With(name) PROVE FilterInv'
  <2>1. [name |-> name, filter |-> building] \in Named
    BY DEF Named
  <2>2. filters' \in Seq(Named)
    BY <1>5, <2>1 DEF With
  <2>3. QED
    BY <1>5, <2>2, NewFilterIsBuilt DEF With, Building
<1>6. CASE IntoRequest
  BY <1>6 DEF IntoRequest
<1>7. CASE UNCHANGED vars
  BY <1>7 DEF vars
<1>8. QED
  BY <1>1, <1>2, <1>3, <1>4, <1>5, <1>6, <1>7 DEF Next

\* What into_request returned is a function of the filters given with with(), which
\* no later call of a builder changes (filter.rs, Filters::into_request takes self).
THEOREM FilterInvariance == Spec => []FilterInv
<1>1. Init => FilterInv
  BY NewFilterIsBuilt DEF Init, FilterInv
<1>2. QED
  BY <1>1, FilterStep, PTL DEF Spec

LEMMA AcceptedIs ==
    ASSUME FilterInv, IsOk
    PROVE  /\ SetError(filters) = Ok
           /\ \A k \in 1 .. Len(filters) : FilterError(filters[k].name, filters[k].filter) = Ok
           /\ result.transactions = Transactions(filters)
<1>1. result = RequestOf(filters)
  BY DEF FilterInv, IsOk, NoResult
<1>2. \A kind, name : Refusal(kind, name).result # "Ok"
  BY DEF Refusal
<1>3. result = Accepted(Transactions(filters))
      /\ SetError(filters) = Ok
      /\ \A k \in 1 .. Len(filters) : FilterError(filters[k].name, filters[k].filter) = Ok
  BY <1>1, <1>2, RequestIs DEF IsOk, FilterInv
<1>4. QED
  BY <1>3 DEF Accepted

LEMMA RefusedIs ==
    ASSUME FilterInv, NEW kind \in {"DataSizeTooLarge", "MemcmpOutOfRange"}, IsErr(kind)
    PROVE  \E filter \in Accused :
             \E k \in 1 .. Len(filter.instructions) :
               /\ filter \in BuiltFilters
               /\ InstructionError(filter.instructions[k]) = kind
<1>1. result = RequestOf(filters)
  BY DEF FilterInv, IsErr, NoResult
<1>2. SetError(filters) # kind
  BY SetErrorIs DEF Ok
<1>3. Accepted(Transactions(filters)).result # "Err"
  BY DEF Accepted
<1>4. \A e, name : Refusal(e, name).kind = e /\ Refusal(e, name).name = name
  BY DEF Refusal
<1>5. PICK k \in 1 .. Len(filters) :
        result = Refusal(FilterError(filters[k].name, filters[k].filter), filters[k].name)
  <2>1. filters \in Seq(Named)
    BY DEF FilterInv
  <2>2. \/ result = Refusal(SetError(filters), "")
        \/ result = Accepted(Transactions(filters))
        \/ \E k \in 1 .. Len(filters) :
             result = Refusal(FilterError(filters[k].name, filters[k].filter),
                              filters[k].name)
    BY <1>1, <2>1, RequestIs, Zenon
  <2>3. result.result = "Err" /\ result.kind = kind
    BY DEF IsErr
  <2>4. result # Refusal(SetError(filters), "")
    <3>1. PICK e : e = SetError(filters)
      OBVIOUS
    <3>2. Refusal(e, "").kind = e
      BY <1>4
    <3>3. QED
      BY <1>2, <2>3, <3>1, <3>2
  <2>5. result # Accepted(Transactions(filters))
    BY <2>3 DEF Accepted
  <2>6. QED
    BY <2>2, <2>4, <2>5, Zenon
<1>6. FilterError(filters[k].name, filters[k].filter) = kind /\ result.name = filters[k].name
  BY <1>4, <1>5 DEF IsErr
<1>7. filters[k] \in Named /\ k \in DOMAIN filters
  BY DEF FilterInv
<1>8. filters[k].filter \in BuiltFilters
  BY <1>7 DEF Named
<1>9. filters[k].filter \in Accused
  BY <1>6, <1>7 DEF Accused
<1>10. \E j \in 1 .. Len(filters[k].filter.instructions) :
         InstructionError(filters[k].filter.instructions[j]) = kind
  BY <1>6, <1>8, FilterErrorIs
<1>11. QED
  BY <1>8, <1>9, <1>10

-----------------------------------------------------------------------------
(* The properties. *)

\* AcceptedCanMatch, for every limit, every width of usize and every filter
\* the builders make: no condition of an accepted request is one that no
\* transaction could ever meet (filter.rs, InstructionFilter::validate).
THEOREM AcceptedConditionsCanMatch == Spec => []AcceptedCanMatch
<1>1. ASSUME FilterInv PROVE AcceptedCanMatch
  <2>1. SUFFICES ASSUME IsOk,
                        NEW name \in DOMAIN result.transactions,
                        NEW k \in DOMAIN result.transactions[name].instructions,
                        NEW m \in DOMAIN result.transactions[name].instructions[k].memcmp
                 PROVE  LET i == result.transactions[name].instructions[k]
                        IN  i.memcmp[m].bytes # <<>> /\ CanMatch(i, i.memcmp[m])
    BY Zenon DEF AcceptedCanMatch
  <2>2. PICK last \in 1 .. Len(filters) :
          /\ filters[last].filter \in BuiltFilters
          /\ result.transactions[name] = FilterIntoProto(filters[last].filter)
    <3>1. filters \in Seq(Named) /\ name \in DOMAIN Transactions(filters)
      BY <1>1, <2>1, AcceptedIs DEF FilterInv
    <3>2. \E last \in 1 .. Len(filters) :
            /\ filters[last].filter \in BuiltFilters
            /\ Transactions(filters)[name] = FilterIntoProto(filters[last].filter)
      BY <3>1, TransactionsAre, Zenon
    <3>3. QED
      BY <1>1, <2>1, <3>2, AcceptedIs
  <2>3. PICK filter \in BuiltFilters : filter = filters[last].filter
    BY <2>2
  <2>4. k \in 1 .. Len(filter.instructions)
        /\ result.transactions[name].instructions[k] =
             InstructionIntoProto(filter.instructions[k])
    BY <2>2, <2>3, InstructionsAsked
  <2>5. FilterError(filters[last].name, filter) = Ok
    BY <1>1, <2>1, <2>3, AcceptedIs
  <2>6. InstructionError(filter.instructions[k]) = Ok
    BY <2>4, <2>5, FilterErrorIs
  <2>7. filter.instructions \in Seq(Instructions)
    BY DEF BuiltFilters
  <2>8. PICK i \in Instructions : i = filter.instructions[k]
    BY <2>4, <2>7
  <2>9. m \in 1 .. Len(i.memcmp) /\ InstructionIntoProto(i).memcmp[m] = i.memcmp[m]
    BY <2>1, <2>4, <2>8, MemcmpsAsked
  <2>10. PICK memcmp \in Memcmps : memcmp = i.memcmp[m]
    BY <2>9, InstructionTyped
  <2>11. DataBytes(i) <= MAX_INSTRUCTION_DATA_BYTES /\ MemcmpError(memcmp, DataBytes(i)) = Ok
    BY <2>6, <2>8, <2>9, <2>10, InstructionErrorIs
  <2>12. memcmp.bytes # <<>> /\ InRange(memcmp, DataBytes(i))
    BY <2>11, MemcmpErrorIs, InstructionTyped
  <2>13. CanMatch(i, memcmp)
    BY <2>11, <2>12, InRangeCanMatch
  <2>14. CanMatch(InstructionIntoProto(i), memcmp)
    BY <2>13, MemcmpsAsked DEF CanMatch, SizeFits
  <2>15. QED
    BY <2>4, <2>8, <2>9, <2>10, <2>12, <2>14
<1>2. QED
  BY <1>1, FilterInvariance, PTL

\* RefusedCannotMatch: a refusal as out of range or too large is never one of
\* a condition that some instruction data could have met.
THEOREM RefusedConditionsCannotMatch == Spec => []RefusedCannotMatch
<1>1. ASSUME FilterInv PROVE RefusedCannotMatch
  <2>1. ASSUME IsErr("MemcmpOutOfRange")
        PROVE  \E filter \in Accused : \E k \in DOMAIN filter.instructions :
                 \E m \in DOMAIN filter.instructions[k].memcmp :
                   ~CanMatch(filter.instructions[k], filter.instructions[k].memcmp[m])
    <3>1. PICK filter \in Accused :
            \E k \in 1 .. Len(filter.instructions) :
              /\ filter \in BuiltFilters
              /\ InstructionError(filter.instructions[k]) = "MemcmpOutOfRange"
      BY <1>1, <2>1, RefusedIs
    <3>2. PICK k \in 1 .. Len(filter.instructions) :
            /\ filter \in BuiltFilters
            /\ InstructionError(filter.instructions[k]) = "MemcmpOutOfRange"
      BY <3>1
    <3>3. filter.instructions \in Seq(Instructions)
      BY <3>2 DEF BuiltFilters
    <3>4. PICK i \in Instructions : i = filter.instructions[k]
      BY <3>2, <3>3
    <3>5. PICK m \in 1 .. Len(i.memcmp) :
            /\ DataBytes(i) <= MAX_INSTRUCTION_DATA_BYTES
            /\ MemcmpError(i.memcmp[m], DataBytes(i)) = "MemcmpOutOfRange"
      BY <3>2, <3>4, InstructionErrorIs
    <3>6. PICK memcmp \in Memcmps : memcmp = i.memcmp[m] /\ m \in DOMAIN i.memcmp
      BY <3>5, InstructionTyped
    <3>7. memcmp.bytes # <<>> /\ ~InRange(memcmp, DataBytes(i))
      BY <3>5, <3>6, MemcmpErrorIs, InstructionTyped
    <3>8. ~CanMatch(i, memcmp)
      BY <3>5, <3>7, OutOfRangeCannotMatch
    <3>9. k \in DOMAIN filter.instructions
      BY <3>3
    <3>10. QED
      BY <3>4, <3>6, <3>8, <3>9
  <2>2. ASSUME IsErr("DataSizeTooLarge")
        PROVE  \E filter \in Accused : \E k \in DOMAIN filter.instructions :
                 \A data \in AllData : ~SizeFits(data, filter.instructions[k])
    <3>1. PICK filter \in Accused :
            \E k \in 1 .. Len(filter.instructions) :
              /\ filter \in BuiltFilters
              /\ InstructionError(filter.instructions[k]) = "DataSizeTooLarge"
      BY <1>1, <2>2, RefusedIs
    <3>2. PICK k \in 1 .. Len(filter.instructions) :
            /\ filter \in BuiltFilters
            /\ InstructionError(filter.instructions[k]) = "DataSizeTooLarge"
      BY <3>1
    <3>3. filter.instructions \in Seq(Instructions)
      BY <3>2 DEF BuiltFilters
    <3>4. filter.instructions[k] \in Instructions /\ k \in DOMAIN filter.instructions
      BY <3>2, <3>3
    <3>5. \A data \in AllData : ~SizeFits(data, filter.instructions[k])
      BY <3>2, <3>4, InstructionErrorIs, TooLargeFitsNone
    <3>6. QED
      BY <3>4, <3>5
  <2>3. QED
    BY <2>1, <2>2, Zenon DEF RefusedCannotMatch
<1>2. QED
  BY <1>1, FilterInvariance, PTL

-----------------------------------------------------------------------------
(* Counting.  Every name of a request stands for the last filter of that   *)
(* name, so its names and its instruction filters are no more than those   *)
(* of the set.                                                             *)

LEMMA NoMoreThan ==
    ASSUME NEW S, NEW T, IsFiniteSet(T), NEW f \in [S -> T],
           \A x, y \in S : f[x] = f[y] => x = y
    PROVE  IsFiniteSet(S) /\ Cardinality(S) <= Cardinality(T)
<1>1. f \in Injection(S, T)
  BY DEF Injection, IsInjective
<1>2. QED
  BY <1>1, FS_Injection

LEMMA ConditionsAreFinite ==
    ASSUME NEW set \in Seq(Named)
    PROVE  IsFiniteSet(UNION {{k} \X DOMAIN set[k].filter.instructions : k \in DOMAIN set})
<1>1. PICK n \in Nat : n = Len(set) /\ DOMAIN set = 1 .. n
  OBVIOUS
<1>2. ASSUME NEW k \in 1 .. n
      PROVE  DOMAIN set[k].filter.instructions = 1 .. Len(set[k].filter.instructions)
             /\ Len(set[k].filter.instructions) \in Nat
  <2>1. set[k] \in Named
    BY <1>1
  <2>2. set[k].filter \in BuiltFilters
    BY <2>1 DEF Named
  <2>3. set[k].filter.instructions \in Seq(Instructions)
    BY <2>2 DEF BuiltFilters
  <2>4. QED
    BY <2>3
<1>3. ASSUME NEW k \in 1 .. n PROVE IsFiniteSet({k} \X DOMAIN set[k].filter.instructions)
  <2>1. IsFiniteSet(DOMAIN set[k].filter.instructions)
    <3>1. PICK l \in Nat : DOMAIN set[k].filter.instructions = 1 .. l
      BY <1>2
    <3>2. IsFiniteSet(1 .. l)
      BY FS_Interval
    <3>3. QED
      BY <3>1, <3>2
  <2>2. IsFiniteSet({k})
    BY FS_Singleton
  <2>3. QED
    BY <2>1, <2>2, FS_Product
<1>4. PICK parts : parts = {{k} \X DOMAIN set[k].filter.instructions : k \in 1 .. n}
  OBVIOUS
<1>5. PICK f : f = [k \in 1 .. n |-> {k} \X DOMAIN set[k].filter.instructions]
  OBVIOUS
<1>6. f \in Surjection(1 .. n, parts)
  <2>1. f \in [1 .. n -> parts]
    BY <1>4, <1>5
  <2>2. \A T \in parts : \E k \in 1 .. n : f[k] = T
    BY <1>4, <1>5
  <2>3. QED
    BY <2>1, <2>2 DEF Surjection
<1>7. IsFiniteSet(parts)
  BY <1>6, FS_Surjection, FS_Interval
<1>8. IsFiniteSet(UNION parts)
  <2>1. \A T \in parts : IsFiniteSet(T)
    BY <1>3, <1>4
  <2>2. QED
    BY <1>7, <2>1, FS_UNION
<1>9. QED
  BY <1>1, <1>4, <1>8

LEMMA NamesAsked ==
    ASSUME NEW set \in Seq(Named), set # <<>>
    PROVE  /\ IsFiniteSet(DOMAIN Transactions(set))
           /\ Cardinality(DOMAIN Transactions(set)) >= 1
           /\ Cardinality(DOMAIN Transactions(set)) <= Len(set)
<1>1. PICK n \in Nat : n = Len(set) /\ DOMAIN set = 1 .. n /\ n # 0
  OBVIOUS
<1>2. PICK names : names = DOMAIN Transactions(set)
  OBVIOUS
<1>3. PICK f : f = [name \in names |-> Max({k \in DOMAIN set : set[k].name = name})]
  OBVIOUS
<1>4. ASSUME NEW name \in names PROVE f[name] \in 1 .. n /\ set[f[name]].name = name
  BY <1>1, <1>2, <1>3, TransactionsAre
<1>5. f \in [names -> 1 .. n] /\ \A x, y \in names : f[x] = f[y] => x = y
  <2>1. f \in [names -> 1 .. n]
    BY <1>3, <1>4
  <2>2. ASSUME NEW x \in names, NEW y \in names, f[x] = f[y] PROVE x = y
    <3>1. set[f[x]].name = x /\ set[f[y]].name = y
      BY <1>4
    <3>2. QED
      BY <2>2, <3>1
  <2>3. QED
    BY <2>1, <2>2
<1>6. IsFiniteSet(1 .. n) /\ Cardinality(1 .. n) = n
  <2>1. /\ IsFiniteSet(1 .. n)
        /\ Cardinality(1 .. n) = IF 1 > n THEN 0 ELSE n - 1 + 1
    BY FS_Interval
  <2>2. ~ (1 > n) /\ n - 1 + 1 = n
    BY <1>1
  <2>3. QED
    BY <2>1, <2>2
<1>7. IsFiniteSet(names) /\ Cardinality(names) <= n
  BY <1>5, <1>6, NoMoreThan
<1>8. names # {}
  <2>1. 1 \in DOMAIN set
    BY <1>1
  <2>2. set[1].name \in names
    BY <1>2, <2>1 DEF Transactions
  <2>3. QED
    BY <2>2
<1>9. Cardinality(names) \in Nat /\ Cardinality(names) # 0
  BY <1>7, <1>8, FS_CardinalityType, FS_EmptySet
<1>10. QED
  BY <1>1, <1>2, <1>7, <1>9

LEMMA ConditionsAsked ==
    ASSUME NEW set \in Seq(Named)
    PROVE  LET asked == Transactions(set)
               conditions ==
                 UNION {{name} \X DOMAIN asked[name].instructions : name \in DOMAIN asked}
           IN  /\ Cardinality(conditions) <= InstructionsOf(set)
               /\ Cardinality(conditions) \in Nat
               /\ InstructionsOf(set) \in Nat
<1>1. PICK asked : asked = Transactions(set)
  OBVIOUS
<1>2. PICK conditions :
        conditions = UNION {{name} \X DOMAIN asked[name].instructions : name \in DOMAIN asked}
  OBVIOUS
<1>3. PICK all : all = UNION {{k} \X DOMAIN set[k].filter.instructions : k \in DOMAIN set}
  OBVIOUS
<1>4. IsFiniteSet(all) /\ InstructionsOf(set) = Cardinality(all)
  BY <1>3, ConditionsAreFinite DEF InstructionsOf
<1>5. PICK last : last = [name \in DOMAIN asked |-> Max({k \in DOMAIN set : set[k].name = name})]
  OBVIOUS
<1>6. ASSUME NEW name \in DOMAIN asked
      PROVE  /\ last[name] \in DOMAIN set
             /\ set[last[name]].name = name
             /\ DOMAIN asked[name].instructions = DOMAIN set[last[name]].filter.instructions
  <2>1. PICK k : k = Max({j \in DOMAIN set : set[j].name = name}) /\ last[name] = k
    BY <1>5
  <2>2. /\ k \in 1 .. Len(set)
        /\ set[k].name = name
        /\ set[k].filter \in BuiltFilters
        /\ asked[name] = FilterIntoProto(set[k].filter)
    BY <1>1, <2>1, TransactionsAre
  <2>3. DOMAIN FilterIntoProto(set[k].filter).instructions = DOMAIN set[k].filter.instructions
    BY DEF FilterIntoProto
  <2>4. QED
    BY <2>1, <2>2, <2>3
<1>7. PICK f : f = [c \in conditions |-> <<last[c[1]], c[2]>>]
  OBVIOUS
<1>8. ASSUME NEW c \in conditions
      PROVE  /\ c[1] \in DOMAIN asked
             /\ c = <<c[1], c[2]>>
             /\ c[2] \in DOMAIN asked[c[1]].instructions
  BY <1>2
<1>9. ASSUME NEW c \in conditions PROVE f[c] \in all
  <2>1. f[c] = <<last[c[1]], c[2]>>
    BY <1>7
  <2>2. last[c[1]] \in DOMAIN set
        /\ c[2] \in DOMAIN set[last[c[1]]].filter.instructions
    BY <1>6, <1>8
  <2>3. QED
    BY <1>3, <2>1, <2>2
<1>10. ASSUME NEW c \in conditions, NEW d \in conditions, f[c] = f[d] PROVE c = d
  <2>1. last[c[1]] = last[d[1]] /\ c[2] = d[2]
    BY <1>7, <1>10
  <2>2. set[last[c[1]]].name = c[1] /\ set[last[d[1]]].name = d[1]
    BY <1>6, <1>8
  <2>3. c[1] = d[1]
    BY <2>1, <2>2
  <2>4. QED
    BY <1>8, <2>1, <2>3
<1>11. f \in [conditions -> all]
  BY <1>7, <1>9
<1>12. IsFiniteSet(conditions) /\ Cardinality(conditions) <= Cardinality(all)
  BY <1>4, <1>10, <1>11, NoMoreThan
<1>13. QED
  BY <1>1, <1>2, <1>4, <1>12, FS_CardinalityType

\* An instruction filter that passes its checks is one the server takes.
LEMMA InstructionServableAsked ==
    ASSUME NEW i \in Instructions, InstructionError(i) = Ok
    PROVE  InstructionServable(InstructionIntoProto(i))
<1>1. /\ ~ (Len(i.memcmp) > MAX_MEMCMPS_PER_INSTRUCTION)
      /\ DataBytes(i) <= MAX_INSTRUCTION_DATA_BYTES
      /\ \A k \in 1 .. Len(i.memcmp) : MemcmpError(i.memcmp[k], DataBytes(i)) = Ok
  BY InstructionErrorIs
<1>2. PICK asked : asked = InstructionIntoProto(i)
  OBVIOUS
<1>3. /\ asked.data_size = i.data_size
      /\ DOMAIN asked.memcmp = 1 .. Len(i.memcmp)
      /\ \A m \in 1 .. Len(i.memcmp) : asked.memcmp[m] = i.memcmp[m]
  BY <1>2, MemcmpsAsked
<1>4. PICK n \in Nat : n = Len(i.memcmp)
  BY InstructionTyped
<1>5. Len(asked.memcmp) = n
  <2>1. PICK memcmp : memcmp = asked.memcmp
    OBVIOUS
  <2>2. asked.memcmp = [m \in DOMAIN i.memcmp |->
                          [offset |-> i.memcmp[m].offset, bytes |-> i.memcmp[m].bytes]]
    BY <1>2 DEF InstructionIntoProto
  <2>3. DOMAIN i.memcmp = 1 .. n
    BY <1>4, InstructionTyped
  <2>4. \A m \in 1 .. n : i.memcmp[m] \in Memcmps
    BY <1>4, InstructionTyped
  <2>5. memcmp = [m \in 1 .. n |-> memcmp[m]] /\ \A m \in 1 .. n : memcmp[m] \in Memcmps
    BY <1>3, <1>4, <2>1, <2>2, <2>3, <2>4
  <2>6. memcmp \in [1 .. n -> Memcmps]
    BY ONLY <2>5
  <2>7. QED
    BY <2>1, <2>6
<1>6. Len(asked.memcmp) <= MAX_MEMCMPS_PER_INSTRUCTION
  BY <1>1, <1>4, <1>5, FiltersAssumption
<1>7. ASSUME NEW m \in DOMAIN asked.memcmp
      PROVE  Len(asked.memcmp[m].bytes) \in 1 .. MAX_MEMCMP_BYTES
  <2>1. PICK memcmp \in Memcmps :
          /\ memcmp = asked.memcmp[m]
          /\ MemcmpError(memcmp, DataBytes(i)) = Ok
    BY <1>1, <1>3, InstructionTyped
  <2>2. DataBytes(i) \in Nat
    BY InstructionTyped
  <2>3. QED
    BY <2>1, <2>2, MemcmpErrorIs
<1>8. asked.data_size # NoSize => asked.data_size <= MAX_INSTRUCTION_DATA_BYTES
  BY <1>1, <1>3, InstructionTyped
<1>9. QED
  BY <1>2, <1>6, <1>7, <1>8 DEF InstructionServable

\* A filter that passes its checks is one the server takes.
LEMMA ServableAsked ==
    ASSUME NEW name, NEW filter \in BuiltFilters, FilterError(name, filter) = Ok
    PROVE  FilterServable(FilterIntoProto(filter))
<1>1. /\ Selects(filter)
      /\ \A list \in AccountLists : ~ (Len(filter.accounts[list]) > MAX_ACCOUNTS_PER_LIST)
      /\ ~ (Len(filter.signatures) > MAX_SIGNATURES_PER_FILTER)
      /\ \A k \in 1 .. Len(filter.instructions) :
           InstructionError(filter.instructions[k]) = Ok
  BY FilterErrorIs
<1>2. PICK asked : asked = FilterIntoProto(filter)
  OBVIOUS
<1>3. filter.instructions \in Seq(Instructions)
  BY DEF BuiltFilters
<1>4. /\ DOMAIN asked.instructions = 1 .. Len(filter.instructions)
      /\ \A k \in 1 .. Len(filter.instructions) :
           asked.instructions[k] = InstructionIntoProto(filter.instructions[k])
  BY <1>2, InstructionsAsked
<1>5. /\ asked.account_include = filter.accounts["account_include"]
      /\ asked.account_exclude = filter.accounts["account_exclude"]
      /\ asked.account_required = filter.accounts["account_required"]
      /\ asked.signer_include = filter.accounts["signer_include"]
      /\ asked.signer_exclude = filter.accounts["signer_exclude"]
      /\ asked.signature = filter.signatures
  BY <1>2 DEF FilterIntoProto
<1>6. Selective(asked)
  <2>1. filter.instructions # <<>> => asked.instructions # <<>>
    BY <1>3, <1>4
  <2>2. QED
    BY <1>1, <1>5, <2>1 DEF Selective, Selects, Selections
<1>7. ASSUME NEW list \in AccountLists
      PROVE  Len(filter.accounts[list]) <= MAX_ACCOUNTS_PER_LIST
  <2>1. PICK n \in Nat : n = Len(filter.accounts[list])
    BY DEF BuiltFilters
  <2>2. ~ (n > MAX_ACCOUNTS_PER_LIST)
    BY <1>1, <2>1
  <2>3. QED
    BY <2>1, <2>2, FiltersAssumption
<1>8. \A list \in {asked.account_include, asked.account_exclude, asked.account_required,
                   asked.signer_include, asked.signer_exclude} :
        Len(list) <= MAX_ACCOUNTS_PER_LIST
  BY <1>5, <1>7 DEF AccountLists, Selections, Exclusions
<1>9. Len(asked.signature) <= MAX_SIGNATURES_PER_FILTER
  <2>1. PICK n \in Nat : n = Len(filter.signatures)
    BY DEF BuiltFilters
  <2>2. QED
    BY <1>1, <1>5, <2>1, FiltersAssumption
<1>10. ASSUME NEW k \in DOMAIN asked.instructions
       PROVE  InstructionServable(asked.instructions[k])
  <2>1. PICK i \in Instructions :
          asked.instructions[k] = InstructionIntoProto(i) /\ InstructionError(i) = Ok
    BY <1>1, <1>3, <1>4
  <2>2. QED
    BY <2>1, InstructionServableAsked
<1>11. QED
  BY <1>2, <1>6, <1>8, <1>9, <1>10 DEF FilterServable

\* AcceptedIsServable: every limit of the server, of a filter and of the stream, holds
\* of the request it is sent.
THEOREM AcceptedRequestsAreServable == Spec => []AcceptedIsServable
<1>1. ASSUME FilterInv PROVE AcceptedIsServable
  <2>1. SUFFICES ASSUME IsOk
                 PROVE  LET asked == result.transactions
                            conditions ==
                              UNION {{name} \X DOMAIN asked[name].instructions :
                                       name \in DOMAIN asked}
                        IN  /\ Cardinality(DOMAIN asked) \in 1 .. MAX_FILTERS
                            /\ Cardinality(conditions) <= MAX_INSTRUCTION_FILTERS
                            /\ \A name \in DOMAIN asked :
                                 name \notin LongNames /\ FilterServable(asked[name])
    BY Zenon DEF AcceptedIsServable
  <2>2. PICK set \in Seq(Named) : set = filters
    BY <1>1 DEF FilterInv
  <2>3. PICK asked : asked = result.transactions /\ asked = Transactions(set)
    BY <1>1, <2>1, <2>2, AcceptedIs
  <2>4. /\ SetError(set) = Ok
        /\ \A k \in 1 .. Len(set) : FilterError(set[k].name, set[k].filter) = Ok
    BY <1>1, <2>1, <2>2, AcceptedIs
  <2>5. /\ set # <<>>
        /\ ~ (Len(set) > MAX_FILTERS)
        /\ ~ (InstructionsOf(set) > MAX_INSTRUCTION_FILTERS)
    BY <2>4, SetErrorIs
  <2>6. Cardinality(DOMAIN asked) \in 1 .. MAX_FILTERS
    <3>1. PICK c \in Nat : c = Cardinality(DOMAIN asked) /\ c >= 1 /\ c <= Len(set)
      BY <2>3, <2>5, NamesAsked, FS_CardinalityType
    <3>2. Len(set) \in Nat /\ MAX_FILTERS \in Nat
      BY FiltersAssumption
    <3>3. QED
      BY <2>5, <3>1, <3>2
  <2>7. PICK conditions :
          conditions = UNION {{name} \X DOMAIN asked[name].instructions : name \in DOMAIN asked}
    OBVIOUS
  <2>8. Cardinality(conditions) <= MAX_INSTRUCTION_FILTERS
    <3>1. /\ Cardinality(conditions) <= InstructionsOf(set)
          /\ Cardinality(conditions) \in Nat
          /\ InstructionsOf(set) \in Nat
      BY <2>3, <2>7, ConditionsAsked
    <3>2. MAX_INSTRUCTION_FILTERS \in Nat
      BY FiltersAssumption
    <3>3. QED
      BY <2>5, <3>1, <3>2
  <2>9. ASSUME NEW name \in DOMAIN asked
        PROVE  name \notin LongNames /\ FilterServable(asked[name])
    <3>1. \E k \in 1 .. Len(set) :
            /\ set[k].name = name
            /\ set[k].filter \in BuiltFilters
            /\ asked[name] = FilterIntoProto(set[k].filter)
      <4>1. name \in DOMAIN Transactions(set)
        BY <2>3
      <4>2. \E k \in 1 .. Len(set) :
              /\ set[k].name = name
              /\ set[k].filter \in BuiltFilters
              /\ Transactions(set)[name] = FilterIntoProto(set[k].filter)
        BY <4>1, TransactionsAre, Zenon
      <4>3. QED
        BY <2>3, <4>2
    <3>2. PICK k \in 1 .. Len(set) :
            /\ set[k].name = name
            /\ set[k].filter \in BuiltFilters
            /\ asked[name] = FilterIntoProto(set[k].filter)
      BY <3>1
    <3>3. FilterError(name, set[k].filter) = Ok
      BY <2>4, <3>2
    <3>4. name \notin LongNames
      BY <3>2, <3>3, FilterErrorIs
    <3>5. PICK filter \in BuiltFilters :
            /\ asked[name] = FilterIntoProto(filter)
            /\ FilterError(name, filter) = Ok
      BY <3>2, <3>3
    <3>6. FilterServable(FilterIntoProto(filter))
      BY <3>5, ServableAsked
    <3>7. QED
      BY <3>4, <3>5, <3>6
  <2>10. QED
    BY <2>3, <2>6, <2>7, <2>8, <2>9
<1>2. QED
  BY <1>1, FilterInvariance, PTL
=============================================================================

---------------------------- MODULE ExampleProofs ----------------------------
(***************************************************************************)
(* The example program, for every command line and every succession of     *)
(* items a subscription may give: what it asks for, what it logs, and when *)
(* it leaves.                                                              *)
(***************************************************************************)
EXTENDS Example, TLAPS

(***************************************************************************)
(* The invariant: what main() holds is what the command line says; while   *)
(* it awaits an item the stream is not over, and the last line of the log  *)
(* is about the last item.                                                 *)
(***************************************************************************)
OneFilter == <<[name |-> "default", filter |-> BuiltFilter]>>

ArgsInv ==
    /\ args \in ArgsGiven
    /\ main \in {"args", "usage", "connecting", "versioning", "subscribing", "awaiting",
                 "failed"}
    /\ main \notin {"args", "usage"} => ~UsageError
    /\ main \in {"versioning", "subscribing", "awaiting"} => policy = PolicyOf
    /\ main \in {"args", "connecting", "versioning", "subscribing"} =>
         item.item = "Opened" /\ logged.line # "txn"
    /\ main = "awaiting" => request.result = "Ok" /\ request = RequestOf(OneFilter)

ItemInv ==
    /\ main = "awaiting" => ~Harmonic!Over
    /\ main = "awaiting" /\ logged.line = "txn" =>
         item.item = "Event" /\ logged = LogTransaction(item.event.body)
    /\ LeavesForCause

-----------------------------------------------------------------------------
(* What an item may be. *)

\* An item a stream that is not over may give next, under the policy chosen.
Follows(next) ==
    \/ \E e \in HarmonicEvents \union BamEvents : next = [item |-> "Event", event |-> e]
    \/ /\ policy # NoReconnect
       /\ \E attempts : next = [item |-> "Reconnected", attempts |-> attempts]
    \/ \E error : /\ next = [item |-> "Error", error |-> error]
                  /\ policy = NoReconnect \/ ~Harmonic!Retryable(error)
                       \/ policy.max_retries # NoLimit

LEMMA HarmonicGives ==
    ASSUME Harmonic!Yield, ~Harmonic!Over
    PROVE  Follows(item') /\ policy' = policy
<1>1. CASE \E e \in HarmonicEvents : Harmonic!Deliver(e)
  BY <1>1 DEF Harmonic!Deliver, Follows
<1>2. CASE \E attempts \in 0 .. U32Size - 1 : Harmonic!Resume(attempts)
  BY <1>2, Zenon DEF Harmonic!Resume, Follows
<1>3. CASE \E error \in Harmonic!StreamErrors : Harmonic!Fail(error)
  <2>1. PICK error : Harmonic!Fail(error)
    BY <1>3
  <2>2. /\ item' = [item |-> "Error", error |-> error]
        /\ policy = NoReconnect \/ ~Harmonic!Retryable(error) \/ policy.max_retries # NoLimit
        /\ policy' = policy
    BY <2>1, Zenon DEF Harmonic!Fail, Harmonic!Limited
  <2>3. QED
    BY <2>2, Zenon DEF Follows
<1>4. ~Harmonic!Finish
  BY DEF Harmonic!Finish
<1>5. QED
  BY <1>1, <1>2, <1>3, <1>4 DEF Harmonic!Yield

LEMMA BamGives ==
    ASSUME Bam!Yield, ~Harmonic!Over
    PROVE  Follows(item') /\ policy' = policy
<1>1. CASE \E e \in BamEvents : Bam!Deliver(e)
  BY <1>1 DEF Bam!Deliver, Follows
<1>2. CASE \E attempts \in 0 .. U32Size - 1 : Bam!Resume(attempts)
  BY <1>2, Zenon DEF Bam!Resume, Follows
<1>3. CASE \E error \in Bam!StreamErrors : Bam!Fail(error)
  <2>1. PICK error : Bam!Fail(error)
    BY <1>3
  <2>2. /\ item' = [item |-> "Error", error |-> error]
        /\ policy = NoReconnect \/ ~Bam!Retryable(error) \/ policy.max_retries # NoLimit
        /\ policy' = policy
    BY <2>1, Zenon DEF Bam!Fail, Bam!Limited
  <2>3. Bam!Retryable(error) <=> Harmonic!Retryable(error)
    BY DEF Bam!Retryable, Harmonic!Retryable, Bam!Closed, Harmonic!Closed,
           Bam!RetryableCodes, Harmonic!RetryableCodes
  <2>4. QED
    BY <2>2, <2>3, Zenon DEF Follows
<1>4. ~Bam!Finish
  BY DEF Bam!Finish, Bam!Over, Harmonic!Over
<1>5. QED
  BY <1>1, <1>2, <1>3, <1>4 DEF Bam!Yield

\* The names of events are not that of a line about a transaction.
LEMMA EventNames ==
    \A e \in HarmonicEvents \union BamEvents : e.event # "txn"
  BY DEF HarmonicEvents, BamEvents, TransactionEvents, Clip

-----------------------------------------------------------------------------
(* The steps. *)

LEMMA ArgsStay ==
    ASSUME [Next]_vars
    PROVE  /\ args' = args
           /\ UsageError' = UsageError
           /\ PolicyOf' = PolicyOf
           /\ OneFilter' = OneFilter
<1>1. args' = args
  BY Zenon DEF Next, vars, ParseArgs, Connect, Version, Subscribe, ReadHarmonic, ReadBam, stream
<1>2. UsageError' = UsageError
  BY <1>1, Zenon DEF UsageError
<1>3. PolicyOf' = PolicyOf
  BY <1>1 DEF PolicyOf
<1>4. OneFilter' = OneFilter
  BY <1>1, Zenon DEF OneFilter, BuiltFilter
<1>5. QED
  BY <1>1, <1>2, <1>3, <1>4

\* The first steps, before a stream is open.
LEMMA OpeningStep ==
    ASSUME ArgsInv, ItemInv, ParseArgs \/ Connect \/ Version \/ Subscribe
    PROVE  ArgsInv' /\ ItemInv'
<1>1. args' = args /\ UsageError' = UsageError /\ PolicyOf' = PolicyOf /\ OneFilter' = OneFilter
  BY ArgsStay DEF Next
<1>2. item' = item /\ item.item = "Opened" /\ logged.line # "txn" /\ logged'.line # "txn"
  <2>1. item' = item /\ item.item = "Opened" /\ logged.line # "txn"
    BY DEF ArgsInv, ParseArgs, Connect, Version, Subscribe, stream
  <2>2. logged' = logged \/ logged' = [line |-> "connected"]
    BY Zenon DEF ParseArgs, Connect, Version, Subscribe, stream
  <2>3. QED
    BY <2>1, <2>2
<1>3. ItemInv'
  <2>1. ~Harmonic!Over'
    BY <1>2 DEF Harmonic!Over
  <2>2. main' # "ended"
    BY DEF ParseArgs, Connect, Version, Subscribe
  <2>3. LeavesForCause'
    BY <1>2, <2>2 DEF LeavesForCause
  <2>4. QED
    BY <1>2, <2>1, <2>3 DEF ItemInv
<1>4. CASE ParseArgs
  BY <1>1, <1>2, <1>3, <1>4 DEF ParseArgs, ArgsInv, stream
<1>5. CASE Connect
  BY <1>1, <1>2, <1>3, <1>5 DEF Connect, ArgsInv
<1>6. CASE Version
  BY <1>1, <1>2, <1>3, <1>6 DEF Version, ArgsInv, stream
<1>7. CASE Subscribe
  <2>1. main = "subscribing" /\ main' \in {"awaiting", "failed"} /\ policy' = policy
    BY <1>7 DEF Subscribe
  <2>2. request' = RequestOf(OneFilter)
    BY <1>7, Zenon DEF Subscribe, OneFilter
  <2>3. main' = "awaiting" => request'.result = "Ok"
    BY <1>7 DEF Subscribe
  <2>4. RequestOf(OneFilter)' = RequestOf(OneFilter)
    BY <1>1
  <2>5. QED
    BY <1>1, <1>2, <1>3, <2>1, <2>2, <2>3, <2>4 DEF ArgsInv
<1>8. QED
  BY <1>3, <1>4, <1>5, <1>6, <1>7

\* An item is read and handled, whichever the feed.
LEMMA ReadStep ==
    ASSUME ArgsInv, ItemInv, ReadHarmonic \/ ReadBam
    PROVE  ArgsInv' /\ ItemInv'
<1>1. args' = args /\ UsageError' = UsageError /\ PolicyOf' = PolicyOf /\ OneFilter' = OneFilter
  BY ArgsStay DEF Next
<1>2. /\ main = "awaiting" /\ ~Harmonic!Over /\ policy = PolicyOf /\ args \in ArgsGiven
      /\ ~UsageError
      /\ request' = request
      /\ Handle(item')
  BY DEF ReadHarmonic, ReadBam, ArgsInv, ItemInv
<1>3. Follows(item') /\ policy' = policy
  BY <1>2, HarmonicGives, BamGives DEF ReadHarmonic, ReadBam
<1>4. args.no_reconnect \in BOOLEAN /\ NoReconnect # Default
  BY <1>2, ExampleAssumption
<1>5. /\ args.no_reconnect => policy = NoReconnect
      /\ ~args.no_reconnect => policy # NoReconnect /\ policy.max_retries = NoLimit
  BY <1>2, <1>4 DEF PolicyOf, Default
<1>6. main' \in {"awaiting", "failed"} /\ ArgsInv'
  <2>1. item'.item \in {"Event", "Reconnected", "Error"}
    BY <1>3 DEF Follows
  <2>2. main' \in {"awaiting", "failed"}
    BY <1>2, <2>1 DEF Handle
  <2>3. RequestOf(OneFilter)' = RequestOf(OneFilter)
    BY <1>1
  <2>4. QED
    BY <1>1, <1>2, <1>3, <2>2, <2>3 DEF ArgsInv
<1>7. CASE \E e \in HarmonicEvents \union BamEvents : item' = [item |-> "Event", event |-> e]
  <2>1. PICK e \in HarmonicEvents \union BamEvents : item' = [item |-> "Event", event |-> e]
    BY <1>7
  <2>2. item'.item = "Event" /\ item'.event = e
    BY <2>1
  <2>3. logged' = LogEvent(e)
    BY <1>2, <2>2 DEF Handle
  <2>4. logged'.line = "txn" => logged' = LogTransaction(e.body)
    <3>1. CASE e.event = "Transaction"
      BY <2>3, <3>1 DEF LogEvent
    <3>2. CASE e.event # "Transaction"
      BY <2>3, <3>2, EventNames DEF LogEvent
    <3>3. QED
      BY <3>1, <3>2
  <2>5. LogTransaction(item.event.body)' = LogTransaction(e.body)
    BY <2>2
  <2>6. ~Harmonic!Over'
    BY <2>2 DEF Harmonic!Over
  <2>7. LeavesForCause'
    BY <1>6, <2>2 DEF LeavesForCause
  <2>8. QED
    BY <1>6, <2>2, <2>4, <2>5, <2>6, <2>7 DEF ItemInv
<1>8. CASE /\ policy # NoReconnect
           /\ \E attempts : item' = [item |-> "Reconnected", attempts |-> attempts]
  <2>1. item'.item = "Reconnected"
    BY <1>8
  <2>2. logged' = [line |-> "Reconnected"]
    BY <1>2, <2>1 DEF Handle
  <2>3. ~Harmonic!Over'
    BY <2>1 DEF Harmonic!Over
  <2>4. ~args.no_reconnect
    BY <1>4, <1>5, <1>8
  <2>5. LeavesForCause'
    BY <1>1, <1>6, <2>1, <2>4 DEF LeavesForCause
  <2>6. QED
    BY <1>6, <2>2, <2>3, <2>5 DEF ItemInv
<1>9. CASE \E error :
             /\ item' = [item |-> "Error", error |-> error]
             /\ policy = NoReconnect \/ ~Harmonic!Retryable(error)
                  \/ policy.max_retries # NoLimit
  <2>1. PICK error :
          /\ item' = [item |-> "Error", error |-> error]
          /\ policy = NoReconnect \/ ~Harmonic!Retryable(error)
               \/ policy.max_retries # NoLimit
    BY <1>9
  <2>2. item'.item = "Error" /\ item'.error = error
    BY <2>1
  <2>3. main' = "failed"
    BY <1>2, <2>2 DEF Handle
  <2>4. args.no_reconnect \/ ~Harmonic!Retryable(error)
    BY <1>4, <1>5, <2>1
  <2>5. LeavesForCause'
    BY <1>1, <2>2, <2>3, <2>4 DEF LeavesForCause
  <2>6. QED
    BY <1>6, <2>3, <2>5 DEF ItemInv
<1>10. QED
  BY <1>3, <1>7, <1>8, <1>9 DEF Follows

LEMMA ExampleStep ==
    ASSUME ArgsInv, ItemInv, [Next]_vars
    PROVE  ArgsInv' /\ ItemInv'
<1>1. CASE UNCHANGED vars
  <2>1. args' = args /\ UsageError' = UsageError /\ PolicyOf' = PolicyOf /\ OneFilter' = OneFilter
    BY ArgsStay
  <2>2. UNCHANGED <<main, request, policy, item, logged>>
    BY <1>1 DEF vars
  <2>3. ArgsInv'
    BY <2>1, <2>2 DEF ArgsInv
  <2>4. Harmonic!Over' = Harmonic!Over /\ LeavesForCause' = LeavesForCause
    BY <2>1, <2>2 DEF Harmonic!Over, LeavesForCause
  <2>5. ItemInv'
    BY <2>2, <2>4 DEF ItemInv
  <2>6. QED
    BY <2>3, <2>5
<1>2. QED
  BY <1>1, OpeningStep, ReadStep DEF Next

\* What main() holds is what the command line says, from its parsers on.
THEOREM ExampleInvariance == Spec => [](ArgsInv /\ ItemInv)
<1>1. Init => ArgsInv /\ ItemInv
  BY DEF Init, ArgsInv, ItemInv, LeavesForCause, Harmonic!Over
<1>2. QED
  BY <1>1, ExampleStep, PTL DEF Spec

\* LoggedIsReported, for every payload a feed may carry.
THEOREM OutcomesAreReported == Spec => []LoggedIsReported
<1>1. ItemInv => LoggedIsReported
  <2>1. SUFFICES ASSUME ItemInv, main = "awaiting", logged.line = "txn"
                 PROVE  LET body == item.event.body
                        IN  /\ logged.result \subseteq body.result
                            /\ body.result \subseteq ExecutionResultValues =>
                                 logged.result = body.result
                            /\ logged.signature # {} => body.transaction.whole
    BY Zenon DEF LoggedIsReported
  <2>2. PICK body : body = item.event.body
    OBVIOUS
  <2>3. logged = LogTransaction(body)
    BY <2>1, <2>2 DEF ItemInv
  <2>4. logged.result = body.result \intersect ExecutionResultValues
        /\ logged.signature = OkOf(ParseSignature(body.transaction))
    BY <2>3 DEF LogTransaction, Reported
  <2>5. logged.signature # {} => body.transaction.whole
    BY <2>4 DEF OkOf, ParseSignature, Err
  <2>6. QED
    BY <2>2, <2>4, <2>5
<1>2. QED
  BY <1>1, ExampleInvariance, PTL

\* LeavesForCause, for every command line, every error and every policy the example
\* may choose.
THEOREM LeavesOnlyForCause == Spec => []LeavesForCause
<1>1. ItemInv => LeavesForCause
  BY DEF ItemInv
<1>2. QED
  BY <1>1, ExampleInvariance, PTL

-----------------------------------------------------------------------------
(* What the request means.  An instruction of the command line, once       *)
(* parsed, sized and converted, asks for what its text says.               *)

Digits == 0 .. Other

LEMMA DecodedHex ==
    ASSUME NEW hex \in Seq(Digits), IsDigits(hex), NEW bytes \in DecodeHex(hex)
    PROVE  /\ DOMAIN bytes = 1 .. Len(hex) \div 2
           /\ \A k \in 1 .. Len(hex) \div 2 : bytes[k] = 16 * hex[2 * k - 1] + hex[2 * k]
<1>1. PICK n \in Nat : n = Len(hex) \div 2 /\ 2 * n <= Len(hex)
  OBVIOUS
<1>2. PICK values : values = [k \in 1 .. Len(hex) \div 2 |->
                               PairValue(<<hex[2 * k - 1], hex[2 * k]>>)]
  OBVIOUS
<1>3. DecodeHex(hex) =
        IF Len(hex) % 2 # 0 \/ {} \in Range(values) THEN {}
        ELSE {[k \in DOMAIN values |-> CHOOSE value \in values[k] : TRUE]}
  BY <1>2 DEF DecodeHex
<1>4. bytes = [k \in 1 .. n |-> CHOOSE value \in values[k] : TRUE]
  BY <1>1, <1>2, <1>3
<1>5. ASSUME NEW k \in 1 .. n PROVE bytes[k] = 16 * hex[2 * k - 1] + hex[2 * k]
  <2>1. 2 * k - 1 \in 1 .. Len(hex) /\ 2 * k \in 1 .. Len(hex) /\ DOMAIN hex = 1 .. Len(hex)
    BY <1>1
  <2>2. PICK a \in 0 .. 15, b \in 0 .. 15 : a = hex[2 * k - 1] /\ b = hex[2 * k]
    BY <2>1 DEF IsDigits, Range
  <2>3. PairValue(<<a, b>>) = {16 * a + b}
    BY DEF PairValue
  <2>4. values[k] = {16 * a + b}
    BY <1>1, <1>2, <2>2, <2>3
  <2>5. bytes[k] = CHOOSE value \in {16 * a + b} : TRUE
    BY <1>4, <2>4
  <2>6. QED
    BY <2>2, <2>5
<1>6. QED
  BY <1>1, <1>4, <1>5

\* What the text of an instruction asks of an instruction of a transaction.
TextWants(spec, called) ==
    /\ called.program_id = spec[1]
    /\ args.data_size = NoSize \/ Len(called.data) = args.data_size
    /\ Len(spec) = 3 =>
         \A offset \in spec[2], k \in 1 .. Len(spec[3]) \div 2 :
           /\ offset + k <= Len(called.data)
           /\ called.data[offset + k] = 16 * spec[3][2 * k - 1] + spec[3][2 * k]

Asks(i, called) ==
    /\ called.program_id = i.program_id
    /\ SizeFits(called.data, i)
    /\ \A memcmp \in Range(i.memcmp) : Holds(called.data, memcmp)

SizedByArgs(i) == IF args.data_size = NoSize THEN i ELSE WithDataSize(i, args.data_size)

\* The record that is sent for an instruction without or with bytes.
LEMMA SentInstruction ==
    ASSUME NEW program, NEW offset, NEW bytes
    PROVE  /\ InstructionIntoProto(SizedByArgs(NewInstruction(program))) =
                [program_id |-> program, memcmp |-> <<>>, data_size |-> args.data_size]
           /\ InstructionIntoProto(
                SizedByArgs(WithMemcmp(NewInstruction(program), offset, bytes))) =
                [program_id |-> program, data_size |-> args.data_size,
                 memcmp |-> <<[offset |-> offset, bytes |-> bytes]>>]
<1>1. SizedByArgs(NewInstruction(program)) =
        [program_id |-> program, memcmp |-> <<>>, data_size |-> args.data_size]
  BY DEF SizedByArgs, NewInstruction, WithDataSize
<1>2. PICK memcmp : memcmp = [offset |-> offset, bytes |-> bytes]
  OBVIOUS
<1>3. WithMemcmp(NewInstruction(program), offset, bytes) =
        [program_id |-> program, memcmp |-> <<memcmp>>, data_size |-> NoSize]
  <2>1. Append(<<>>, memcmp) = <<memcmp>>
    OBVIOUS
  <2>2. QED
    BY <1>2, <2>1 DEF WithMemcmp, NewInstruction
<1>4. SizedByArgs(WithMemcmp(NewInstruction(program), offset, bytes)) =
        [program_id |-> program, memcmp |-> <<memcmp>>, data_size |-> args.data_size]
  BY <1>3 DEF SizedByArgs, WithDataSize
<1>5. [k \in DOMAIN <<>> |-> [offset |-> <<>>[k].offset, bytes |-> <<>>[k].bytes]] = <<>>
  OBVIOUS
<1>6. [k \in DOMAIN <<memcmp>> |->
         [offset |-> <<memcmp>>[k].offset, bytes |-> <<memcmp>>[k].bytes]] = <<memcmp>>
  BY <1>2
<1>7. QED
  BY <1>1, <1>2, <1>4, <1>5, <1>6 DEF InstructionIntoProto

LEMMA InstructionMeansItsText ==
    ASSUME NEW spec, ParseInstruction(spec) # {},
           Len(spec) = 3 => /\ \A a, b \in spec[2] : a = b
                            /\ spec[3] \in Seq(Digits)
                            /\ IsDigits(spec[3]),
           NEW i, i = InstructionIntoProto(
                        SizedByArgs(CHOOSE value \in ParseInstruction(spec) : TRUE)),
           NEW called
    PROVE  Asks(i, called) <=> TextWants(spec, called)
<1>1. PICK parsed \in ParseInstruction(spec) : i = InstructionIntoProto(SizedByArgs(parsed))
  OBVIOUS
<1>2. \/ Len(spec) = 1 /\ parsed = NewInstruction(spec[1])
      \/ /\ Len(spec) = 3
         /\ \E offset \in spec[2], bytes \in DecodeHex(spec[3]) :
              parsed = WithMemcmp(NewInstruction(spec[1]), offset, bytes)
  BY <1>1 DEF ParseInstruction
<1>3. CASE Len(spec) = 1 /\ parsed = NewInstruction(spec[1])
  <2>1. i = [program_id |-> spec[1], memcmp |-> <<>>, data_size |-> args.data_size]
    BY <1>1, <1>3, SentInstruction
  <2>2. i.program_id = spec[1] /\ i.data_size = args.data_size /\ i.memcmp = <<>>
    BY <2>1
  <2>3. Range(<<>>) = {}
    BY DEF Range
  <2>4. Asks(i, called) <=> /\ called.program_id = spec[1]
                            /\ args.data_size = NoSize \/ Len(called.data) = args.data_size
    BY <2>2, <2>3, Zenon DEF Asks, SizeFits
  <2>5. TextWants(spec, called) <=>
          /\ called.program_id = spec[1]
          /\ args.data_size = NoSize \/ Len(called.data) = args.data_size
    BY <1>3 DEF TextWants
  <2>6. QED
    BY <2>4, <2>5, Zenon
<1>4. CASE /\ Len(spec) = 3
           /\ \E offset \in spec[2], bytes \in DecodeHex(spec[3]) :
                parsed = WithMemcmp(NewInstruction(spec[1]), offset, bytes)
  <2>1. PICK offset \in spec[2], bytes \in DecodeHex(spec[3]) :
          parsed = WithMemcmp(NewInstruction(spec[1]), offset, bytes)
    BY <1>4
  <2>2. PICK memcmp : memcmp = [offset |-> offset, bytes |-> bytes]
    OBVIOUS
  <2>3. i = [program_id |-> spec[1], memcmp |-> <<memcmp>>, data_size |-> args.data_size]
    BY <1>1, <2>1, <2>2, SentInstruction
  <2>4. i.program_id = spec[1] /\ i.data_size = args.data_size /\ Range(i.memcmp) = {memcmp}
    <3>1. i.program_id = spec[1] /\ i.data_size = args.data_size /\ i.memcmp = <<memcmp>>
      BY ONLY <2>3
    <3>2. DOMAIN <<memcmp>> = {1} /\ <<memcmp>>[1] = memcmp
      OBVIOUS
    <3>3. Range(<<memcmp>>) = {memcmp}
      BY <3>2, Zenon DEF Range
    <3>4. QED
      BY <3>1, <3>3
  <2>5. /\ DOMAIN bytes = 1 .. Len(spec[3]) \div 2
        /\ \A k \in 1 .. Len(spec[3]) \div 2 :
             bytes[k] = 16 * spec[3][2 * k - 1] + spec[3][2 * k]
    BY <1>4, <2>1, DecodedHex
  <2>6. spec[2] = {offset}
    BY <1>4, <2>1
  <2>7. PICK n : n = Len(spec[3]) \div 2
    OBVIOUS
  <2>8. Holds(called.data, memcmp) <=>
          \A k \in 1 .. n :
            /\ offset + k <= Len(called.data)
            /\ called.data[offset + k] = 16 * spec[3][2 * k - 1] + spec[3][2 * k]
    BY <2>2, <2>5, <2>7 DEF Holds
  <2>9. TextWants(spec, called) <=>
          /\ called.program_id = spec[1]
          /\ args.data_size = NoSize \/ Len(called.data) = args.data_size
          /\ \A k \in 1 .. n :
               /\ offset + k <= Len(called.data)
               /\ called.data[offset + k] = 16 * spec[3][2 * k - 1] + spec[3][2 * k]
    BY <1>4, <2>6, <2>7 DEF TextWants
  <2>10. Asks(i, called) <=>
           /\ called.program_id = spec[1]
           /\ args.data_size = NoSize \/ Len(called.data) = args.data_size
           /\ Holds(called.data, memcmp)
    BY <2>4, Zenon DEF Asks, SizeFits
  <2>11. QED
    BY <2>8, <2>9, <2>10
<1>5. QED
  BY <1>2, <1>3, <1>4

LEMMA OneRequest ==
    ASSUME RequestOf(OneFilter).result = "Ok"
    PROVE  /\ DOMAIN RequestOf(OneFilter).transactions = {"default"}
           /\ RequestOf(OneFilter).transactions["default"] = FilterIntoProto(BuiltFilter)
<1>1. PICK set : set = OneFilter /\ set = <<[name |-> "default", filter |-> BuiltFilter]>>
  BY DEF OneFilter
<1>2. RequestOf(set) = Accepted(Transactions(set))
  <2>1. \A kind, name : Refusal(kind, name).result # "Ok"
    BY DEF Refusal
  <2>2. \/ \E kind, name : RequestOf(set) = Refusal(kind, name)
        \/ RequestOf(set) = Accepted(Transactions(set))
    BY Zenon DEF RequestOf
  <2>3. QED
    BY <1>1, <2>1, <2>2
<1>3. RequestOf(set).transactions = Transactions(set)
  BY <1>2 DEF Accepted
<1>4. DOMAIN set = {1} /\ set[1].name = "default" /\ set[1].filter = BuiltFilter
  BY <1>1
<1>5. DOMAIN Transactions(set) = {"default"}
  BY <1>4 DEF Transactions
<1>6. {k \in DOMAIN set : set[k].name = "default"} = {1}
  BY <1>4
<1>7. Max({1}) = 1
  BY DEF Max
<1>8. Transactions(set)["default"] = FilterIntoProto(BuiltFilter)
  <2>1. "default" \in {set[k].name : k \in DOMAIN set}
    BY <1>4
  <2>2. Transactions(set)["default"] =
          FilterIntoProto(set[Max({k \in DOMAIN set : set[k].name = "default"})].filter)
    BY <2>1, Zenon DEF Transactions
  <2>3. QED
    BY <1>4, <1>6, <1>7, <2>2
<1>9. QED
  BY <1>1, <1>3, <1>5, <1>8

\* The instructions that are sent ask, one by one, for what those of the
\* command line say.
LEMMA InstructionsMeanTheirTexts ==
    ASSUME args \in ArgsGiven, ~UsageError, Digital
    PROVE  LET sent == FilterIntoProto(BuiltFilter).instructions
           IN  /\ sent = <<>> <=> args.instructions = <<>>
               /\ \A called :
                    (\E i \in Range(sent) : Asks(i, called)) <=>
                      \E spec \in Range(args.instructions) : TextWants(spec, called)
<1>1. PICK specs \in Seq(Range(args.instructions)) : specs = args.instructions
  BY ExampleAssumption
<1>2. PICK n \in Nat : n = Len(specs) /\ DOMAIN specs = 1 .. n
  OBVIOUS
<1>3. PICK sent : sent = FilterIntoProto(BuiltFilter).instructions
  OBVIOUS
<1>4. PICK sized : sized = BuiltFilter.instructions
  OBVIOUS
<1>5. sized = [k \in 1 .. n |->
                 SizedByArgs(CHOOSE value \in ParseInstruction(specs[k]) : TRUE)]
  BY <1>1, <1>2, <1>4 DEF BuiltFilter, Parsed, SizedByArgs
<1>6. sent = [k \in 1 .. n |-> InstructionIntoProto(sized[k])]
  BY <1>3, <1>4, <1>5 DEF FilterIntoProto
<1>7. ASSUME NEW k \in 1 .. n, NEW called
      PROVE  Asks(sent[k], called) <=> TextWants(specs[k], called)
  <2>1. PICK spec \in Range(args.instructions) : spec = specs[k]
    BY <1>1, <1>2 DEF Range
  <2>2. ParseInstruction(spec) # {}
    BY DEF UsageError
  <2>3. Len(spec) = 3 => /\ \A a, b \in spec[2] : a = b
                         /\ spec[3] \in Seq(Digits)
                         /\ IsDigits(spec[3])
    BY ExampleAssumption DEF Digital, Digits
  <2>4. PICK i : i = sent[k]
    OBVIOUS
  <2>5. i = InstructionIntoProto(
              SizedByArgs(CHOOSE value \in ParseInstruction(spec) : TRUE))
    BY <1>5, <1>6, <2>1, <2>4
  <2>6. QED
    BY <2>1, <2>2, <2>3, <2>4, <2>5, InstructionMeansItsText
<1>8. sent = <<>> <=> specs = <<>>
  <2>1. DOMAIN sent = 1 .. n
    BY <1>6
  <2>2. sent = <<>> => n = 0
    BY <2>1
  <2>3. n = 0 => sent = <<>>
    BY <1>6
  <2>4. specs = <<>> <=> n = 0
    BY <1>2
  <2>5. QED
    BY <2>2, <2>3, <2>4
<1>9. Range(sent) = {sent[k] : k \in 1 .. n} /\ Range(specs) = {specs[k] : k \in 1 .. n}
  BY <1>2, <1>6 DEF Range
<1>10. ASSUME NEW called
       PROVE  (\E i \in Range(sent) : Asks(i, called)) <=>
                \E spec \in Range(specs) : TextWants(spec, called)
  <2>1. (\E i \in Range(sent) : Asks(i, called)) <=> \E k \in 1 .. n : Asks(sent[k], called)
    BY <1>9
  <2>2. (\E spec \in Range(specs) : TextWants(spec, called)) <=>
          \E k \in 1 .. n : TextWants(specs[k], called)
    BY <1>9
  <2>3. QED
    BY <1>7, <2>1, <2>2
<1>11. QED
  BY <1>1, <1>3, <1>8, <1>10

\* The outcomes that are sent are those the command line names.
LEMMA OutcomesMeanTheirNames ==
    ASSUME args \in ArgsGiven, ~UsageError
    PROVE  LET sent == BuiltFilter.execution_results
           IN  /\ sent = <<>> <=> args.results = <<>>
               /\ \A values :
                    Range(sent) \intersect values # {} <=>
                      \E name \in Range(args.results) :
                        ExecutionResultOf(name) \intersect values # {}
<1>1. PICK names \in Seq(Range(args.results)) : names = args.results
  BY ExampleAssumption
<1>2. PICK n \in Nat : n = Len(names) /\ DOMAIN names = 1 .. n
  OBVIOUS
<1>3. PICK sent : sent = BuiltFilter.execution_results
  OBVIOUS
<1>4. sent = [k \in 1 .. n |-> CHOOSE value \in ExecutionResultOf(names[k]) : TRUE]
  BY <1>1, <1>2, <1>3 DEF BuiltFilter, Parsed
<1>5. ASSUME NEW k \in 1 .. n PROVE ExecutionResultOf(names[k]) = {sent[k]}
  <2>1. names[k] \in Range(args.results)
    BY <1>1, <1>2 DEF Range
  <2>2. ExecutionResultOf(names[k]) # {}
    BY <2>1 DEF UsageError
  <2>3. \E value : ExecutionResultOf(names[k]) = {value}
    BY <2>2 DEF ExecutionResultOf
  <2>4. QED
    BY <1>4, <2>3
<1>6. sent = <<>> <=> names = <<>>
  <2>1. DOMAIN sent = 1 .. n
    BY <1>4
  <2>2. sent = <<>> => n = 0
    BY <2>1
  <2>3. n = 0 => sent = <<>>
    BY <1>4
  <2>4. names = <<>> <=> n = 0
    BY <1>2
  <2>5. QED
    BY <2>2, <2>3, <2>4
<1>7. Range(sent) = {sent[k] : k \in 1 .. n} /\ Range(names) = {names[k] : k \in 1 .. n}
  BY <1>2, <1>4 DEF Range
<1>8. ASSUME NEW values
      PROVE  Range(sent) \intersect values # {} <=>
               \E name \in Range(names) : ExecutionResultOf(name) \intersect values # {}
  <2>1. Range(sent) \intersect values # {} <=> \E k \in 1 .. n : sent[k] \in values
    BY <1>7
  <2>2. (\E name \in Range(names) : ExecutionResultOf(name) \intersect values # {}) <=>
          \E k \in 1 .. n : sent[k] \in values
    BY <1>5, <1>7
  <2>3. QED
    BY <2>1, <2>2
<1>9. QED
  BY <1>1, <1>3, <1>6, <1>8

\* RequestMeansTheArgs, for every command line of digits and every transaction.
THEOREM RequestsMeanTheArgs == Spec => []RequestMeansTheArgs
<1>1. ASSUME ArgsInv PROVE RequestMeansTheArgs
  <2>1. SUFFICES ASSUME main = "awaiting", Digital, NEW tx \in TxUniverse
                 PROVE  ArgsWant(tx) <=> \E name \in DOMAIN request.transactions :
                                           Matches(request.transactions[name], tx)
    BY Zenon DEF RequestMeansTheArgs
  <2>2. args \in ArgsGiven /\ ~UsageError /\ request = RequestOf(OneFilter)
        /\ request.result = "Ok"
    BY <1>1, <2>1 DEF ArgsInv
  <2>3. PICK tf : tf = FilterIntoProto(BuiltFilter)
    OBVIOUS
  <2>4. DOMAIN request.transactions = {"default"} /\ request.transactions["default"] = tf
    BY <2>2, <2>3, OneRequest
  <2>5. /\ tf.account_include = args.accounts
        /\ tf.account_exclude = args.excluded
        /\ tf.account_required = args.required
        /\ tf.signer_include = args.signers
        /\ tf.signer_exclude = args.excluded_signers
        /\ tf.signature = args.signatures
        /\ tf.execution_results = BuiltFilter.execution_results
    BY <2>3 DEF FilterIntoProto, BuiltFilter
  <2>6. /\ tf.instructions = <<>> <=> args.instructions = <<>>
        /\ \A called :
             (\E i \in Range(tf.instructions) : Asks(i, called)) <=>
               \E spec \in Range(args.instructions) : TextWants(spec, called)
    BY <2>1, <2>2, <2>3, InstructionsMeanTheirTexts
  <2>7. Invokes(tx, tf.instructions) <=>
          \E spec \in Range(args.instructions), called \in tx.instructions :
            TextWants(spec, called)
    <3>1. Invokes(tx, tf.instructions) <=>
            \E i \in Range(tf.instructions), called \in tx.instructions : Asks(i, called)
      BY Zenon DEF Invokes, Asks
    <3>2. QED
      BY <2>6, <3>1
  <2>8. /\ tf.execution_results = <<>> <=> args.results = <<>>
        /\ Range(tf.execution_results) \intersect tx.result # {} <=>
             \E name \in Range(args.results) : ExecutionResultOf(name) \intersect tx.result # {}
    BY <2>2, <2>5, OutcomesMeanTheirNames
  <2>9. Matches(tf, tx) <=>
          /\ args.accounts = <<>> \/ Range(args.accounts) \intersect tx.keys # {}
          /\ Range(args.excluded) \intersect tx.keys = {}
          /\ Range(args.required) \subseteq tx.keys
          /\ args.signatures = <<>> \/ Range(args.signatures) \intersect {tx.signature} # {}
          /\ tf.execution_results = <<>>
               \/ Range(tf.execution_results) \intersect tx.result # {}
          /\ args.signers = <<>> \/ Range(args.signers) \intersect tx.signers # {}
          /\ Range(args.excluded_signers) \intersect tx.signers = {}
          /\ tf.instructions = <<>> \/ Invokes(tx, tf.instructions)
    BY <2>5, Zenon DEF Matches
  <2>10. ArgsWant(tx) <=>
          /\ args.accounts = <<>> \/ Range(args.accounts) \intersect tx.keys # {}
          /\ Range(args.required) \subseteq tx.keys
          /\ Range(args.excluded) \intersect tx.keys = {}
          /\ args.signers = <<>> \/ Range(args.signers) \intersect tx.signers # {}
          /\ Range(args.excluded_signers) \intersect tx.signers = {}
          /\ args.instructions = <<>>
               \/ \E spec \in Range(args.instructions), called \in tx.instructions :
                    TextWants(spec, called)
          /\ args.signatures = <<>> \/ Range(args.signatures) \intersect {tx.signature} # {}
          /\ args.results = <<>> \/ \E name \in Range(args.results) :
                                      ExecutionResultOf(name) \intersect tx.result # {}
    BY Zenon DEF ArgsWant, TextWants
  <2>11. ArgsWant(tx) <=> Matches(tf, tx)
    BY <2>6, <2>7, <2>8, <2>9, <2>10, Zenon
  <2>12. QED
    BY <2>4, <2>11
<1>2. QED
  BY <1>1, ExampleInvariance, PTL
=============================================================================

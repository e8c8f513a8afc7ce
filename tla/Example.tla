------------------------------- MODULE Example -------------------------------
(***************************************************************************)
(* The example program of examples/rust: from its arguments to a filter,   *)
(* from the filter to one subscription on the feed of its region, and from *)
(* the items of that stream, as Subscription promises them, to its log.    *)
(*                                                                         *)
(* clap refuses arguments by the value parsers named in Args.  Connecting, *)
(* asking the version and subscribing may each fail.  A character of a hex *)
(* argument is the value of a digit, Plus, or Other; an Option is a set of *)
(* at most one value.                                                      *)
(***************************************************************************)
EXTENDS FilterMeaning, Regions, ExecutionResults, Parse

CONSTANTS
    NoLimit, FloatMax, I32Max, NoReconnect, U32Size,  \* of Subscription
    Programs,   \* the texts that are public keys
    ArgsGiven,  \* the command lines
    Payloads,   \* the bytes and outcomes the transactions of a feed carry
    TxUniverse  \* transactions that tell two filters apart, as of FilterMeaning

VARIABLES
    args,     \* the command line
    main,     \* where main() is
    request,  \* what the filters turned into
    policy,   \* the Option<Reconnect> of the Connector
    item,     \* the last item of the stream
    joined, tries,  \* of Subscription
    logged    \* the last line of the log

vars == <<args, main, request, policy, item, joined, tries, logged>>
stream == <<policy, item, joined, tries>>

-----------------------------------------------------------------------------
(* The streams. *)

Default ==
    [initial_interval |-> 100, multiplier |-> [num |-> 2, den |-> 1],
     max_interval |-> 10000, max_retries |-> NoLimit]

TransactionEvents(payloads) ==
    {[event |-> "Transaction", body |-> payload] : payload \in payloads}
Clip == [event |-> "Clip", body |-> [transactions |-> 1]]

HarmonicEvents ==
    TransactionEvents(Payloads) \union {Clip}
      \union {[event |-> e, body |-> [slot |-> 1]] : e \in {"SlotStart", "SlotEnd"}}

\* BAM reports success or failure only.
BamEvents ==
    TransactionEvents({payload \in Payloads : payload.result # {FeesOnly}}) \union {Clip}

Harmonic == INSTANCE Subscription
    WITH SLOT_FRAMING <- TRUE, Events <- HarmonicEvents, Policies <- {Default, NoReconnect}
Bam == INSTANCE Subscription
    WITH SLOT_FRAMING <- FALSE, Events <- BamEvents, Policies <- {Default, NoReconnect}

-----------------------------------------------------------------------------
(* The value parsers. *)

Plus == 16
Other == 17

\* A command line: texts that were split, and options with at most one value.
ASSUME ExampleAssumption ==
    /\ NoReconnect # Default
    /\ \A line \in ArgsGiven :
         /\ line.no_reconnect \in BOOLEAN
         /\ line.instructions \in Seq(Range(line.instructions))
         /\ line.results \in Seq(Range(line.results))
         /\ \A spec \in Range(line.instructions) : Len(spec) = 3 =>
              /\ \A a, b \in spec[2] : a = b
              /\ spec[3] \in Seq(0 .. Other)

\* u8::from_str_radix takes a sign before the digits.
PairValue(pair) ==
    IF pair[2] \in 0 .. 15 /\ pair[1] \in 0 .. 15 THEN {16 * pair[1] + pair[2]}
    ELSE IF pair[2] \in 0 .. 15 /\ pair[1] = Plus THEN {pair[2]}
    ELSE {}

\* Pairs of bytes of the text, all of which must have a value.
DecodeHex(hex) ==
    LET values == [k \in 1 .. Len(hex) \div 2 |->
                     PairValue(<<hex[2 * k - 1], hex[2 * k]>>)]
    IN  IF Len(hex) % 2 # 0 \/ {} \in Range(values) THEN {}
        ELSE {[k \in DOMAIN values |-> CHOOSE value \in values[k] : TRUE]}

\* The parts of a text split at its colons: PROGRAM or PROGRAM:OFFSET:HEX.
ParseInstruction(spec) ==
    CASE spec[1] \notin Programs -> {}
      [] spec[1] \in Programs /\ Len(spec) = 1 -> {NewInstruction(spec[1])}
      [] spec[1] \in Programs /\ Len(spec) = 3 ->
           {WithMemcmp(NewInstruction(spec[1]), offset, bytes) :
              offset \in spec[2], bytes \in DecodeHex(spec[3])}
      [] OTHER -> {}

\* Option values of a list of arguments, as the list of those they hold.
Parsed(list, Parser(_)) ==
    [k \in DOMAIN list |-> CHOOSE value \in Parser(list[k]) : TRUE]

UsageError ==
    \/ FromStr(args.region) \notin RegionValues
    \/ \E spec \in Range(args.instructions) : ParseInstruction(spec) = {}
    \/ \E name \in Range(args.results) : ExecutionResultOf(name) = {}
    \/ args.data_size # NoSize /\ args.instructions = <<>>

-----------------------------------------------------------------------------
(* main(). *)

BuiltFilter ==
    LET Sized(i) == IF args.data_size = NoSize THEN i ELSE WithDataSize(i, args.data_size)
        parsed == Parsed(args.instructions, ParseInstruction)
    IN  [accounts |->
           [account_include  |-> args.accounts, account_required |-> args.required,
            account_exclude  |-> args.excluded, signer_include   |-> args.signers,
            signer_exclude   |-> args.excluded_signers],
         instructions      |-> [k \in DOMAIN parsed |-> Sized(parsed[k])],
         signatures        |-> args.signatures,
         execution_results |-> Parsed(args.results, ExecutionResultOf)]

Init ==
    /\ args \in ArgsGiven
    /\ main = "args"
    /\ request = NoResult
    /\ policy = Default
    /\ item = [item |-> "Opened"]
    /\ joined = FALSE
    /\ tries = 0
    /\ logged = [line |-> "none"]

\* Args::parse, which ends the program with a usage error of its own.
ParseArgs ==
    /\ main = "args"
    /\ main' = IF UsageError THEN "usage" ELSE "connecting"
    /\ UNCHANGED <<args, request, stream, logged>>

PolicyOf_Ignored == Default
PolicyOf == IF args.no_reconnect THEN NoReconnect ELSE Default

\* Connector::connect
Connect ==
    /\ main = "connecting"
    /\ policy' = PolicyOf
    /\ main' \in {"versioning", "failed"}
    /\ UNCHANGED <<args, request, item, joined, tries, logged>>

\* Client::version
Version ==
    /\ main = "versioning"
    /\ main' \in {"subscribing", "failed"}
    /\ logged' = IF main' = "subscribing" THEN [line |-> "connected"] ELSE logged
    /\ UNCHANGED <<args, request, stream>>

Feed == FromStr(args.region).feed

\* subscribe_harmonic or subscribe_bam, by the feed of the region.
Subscribe ==
    /\ main = "subscribing"
    /\ request' = RequestOf(<<[name |-> "default", filter |-> BuiltFilter]>>)
    /\ main' \in IF request'.result = "Ok" THEN {"awaiting", "failed"} ELSE {"failed"}
    /\ joined' = (Feed = "Bam")
    /\ UNCHANGED <<args, policy, item, tries, logged>>

\* log_harmonic and log_bam.
LogTransaction(body) ==
    [line |-> "txn", result |-> Reported(body.result),
     signature |-> OkOf(ParseSignature(body.transaction))]

LogEvent(event) ==
    IF event.event = "Transaction" THEN LogTransaction(event.body)
    ELSE [line |-> event.event]

\* The body of the loop: the ? of an error leaves main, None leaves the loop.
Handle(next) ==
    CASE next.item = "Event" -> main' = "awaiting" /\ logged' = LogEvent(next.event)
      [] next.item = "Reconnected" -> main' = "awaiting" /\ logged' = [line |-> "Reconnected"]
      [] next.item = "Error" -> main' = "failed" /\ logged' = logged
      [] next.item = "None" -> main' = "ended" /\ logged' = [line |-> "stream ended"]

ReadHarmonic ==
    /\ main = "awaiting" /\ Feed = "Harmonic"
    /\ Harmonic!Yield
    /\ Handle(item')
    /\ UNCHANGED <<args, request>>

ReadBam ==
    /\ main = "awaiting" /\ Feed = "Bam"
    /\ Bam!Yield
    /\ Handle(item')
    /\ UNCHANGED <<args, request>>

Next ==
    \/ ParseArgs
    \/ Connect
    \/ Version
    \/ Subscribe
    \/ ReadHarmonic
    \/ ReadBam

Spec == Init /\ [][Next]_vars

-----------------------------------------------------------------------------
(* Properties. *)

IsDigits(hex) == Range(hex) \subseteq 0 .. 15

\* The transactions the help texts of Args describe.
ArgsWant(tx) ==
    LET AnyOf(list, values) == list = <<>> \/ Range(list) \intersect values # {}
        NoneOf(list, values) == Range(list) \intersect values = {}
        Sized(data) == args.data_size = NoSize \/ Len(data) = args.data_size
        Invoked(spec, called) ==
            /\ called.program_id = spec[1]
            /\ Sized(called.data)
            /\ Len(spec) = 3 =>
                 \A offset \in spec[2], k \in 1 .. Len(spec[3]) \div 2 :
                   /\ offset + k <= Len(called.data)
                   /\ called.data[offset + k] = 16 * spec[3][2 * k - 1] + spec[3][2 * k]
    IN  /\ AnyOf(args.accounts, tx.keys)
        /\ Range(args.required) \subseteq tx.keys
        /\ NoneOf(args.excluded, tx.keys)
        /\ AnyOf(args.signers, tx.signers)
        /\ NoneOf(args.excluded_signers, tx.signers)
        /\ args.instructions = <<>> \/ \E spec \in Range(args.instructions),
                                          called \in tx.instructions : Invoked(spec, called)
        /\ AnyOf(args.signatures, {tx.signature})
        /\ args.results = <<>> \/ \E name \in Range(args.results) :
                                    ExecutionResultOf(name) \intersect tx.result # {}

Digital == \A spec \in Range(args.instructions) : Len(spec) = 3 => IsDigits(spec[3])

\* The filter the server is sent selects exactly the transactions the command
\* line describes: through the parsers, the builders, whose lists have one
\* type, and the message, whose lists have one type again.
RequestMeansTheArgs ==
    (main = "awaiting" /\ item.item = "Opened" /\ Digital) =>
      \A tx \in TxUniverse :
        ArgsWant(tx) <=> \E name \in DOMAIN request.transactions :
                           Matches(request.transactions[name], tx)

\* A transaction is logged with the outcome its feed reported and no other: an
\* outcome the schema does not know, or none at all, never reads as a success
\* (preconfs.proto:160), and a signature is logged only if the bytes hold one.
LoggedIsReported ==
    (main = "awaiting" /\ logged.line = "txn") =>
      LET body == item.event.body
      IN  /\ logged.result \subseteq body.result
          /\ body.result \subseteq ExecutionResultValues => logged.result = body.result
          /\ logged.signature # {} => body.transaction.whole

\* The program goes on until an error that the policy cannot fix: with
\* no_reconnect it sees no Reconnected, without it no error that resubscribing
\* could fix, and it never leaves its loop as if the feed were exhausted.
LeavesForCause ==
    /\ main # "ended"
    /\ args.no_reconnect => item.item # "Reconnected"
    /\ item.item = "Error" => args.no_reconnect \/ ~Harmonic!Retryable(item.error)

\* decode_hex, main.rs:190: "Pairs of hex digits": an instruction whose hex is
\* anything else is refused.
HexIsDigits == main \notin {"args", "usage"} => Digital

\* Feed::Bam, feed.rs:17: "no execution outcome": no transaction of a BAM
\* stream is logged with one.
BamHasNoOutcome ==
    (main = "awaiting" /\ Feed = "Bam" /\ logged.line = "txn") => logged.result = {}
=============================================================================

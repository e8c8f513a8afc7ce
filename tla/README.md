# A TLA+ model of the preconfs client

This directory holds a TLA+ development of the Rust client in
`src/preconfs-client`: modules that model its components, TLC configurations
that check them on small instances, and theorems that TLAPS checks. Paths below
are relative to `src/preconfs-client/src` unless they say otherwise.

## 1. The system

A program connects to a Triton Preconfs server, builds filters, subscribes to
one feed (Harmonic or BAM) in one region, and reads a stream of events. The
crate has no task, no channel and no lock of its own: everything stateful
happens inside `EventStream::poll_next`, which the program's task drives. What is
concurrent is the outside: the timer, the HTTP/2 connection, the server, the
feed, and the program, which may drop a pending `next()` at any poll.

| Component | State | Operations | What makes it correct | Where |
|---|---|---|---|---|
| Event stream | current state of the raw stream, `attempts`, `framed`, a clone of the client, of the request and of the policy | `new`, `next`, `poll_next`, `fail`, `resubscribe`, `into_event` | no lost wakeup, framing restarts after a resubscribe, budget and backoff, one error and then `None` | `stream.rs` |
| Retry policy | none (a value) | `interval`, `exhausted`, `retryable` | a delay that grows to its cap without overflow, a budget that ends, a terminal error never retried | `reconnect.rs` |
| Filters | the set under construction | builders, `with`, `into_request`, `validate` | what is refused could never be served or match; what is accepted is within the server's limits | `filter.rs` |
| Connector, Client | settings; a shared channel | `endpoint`, `connect`, `connect_lazy`, `harmonic`, `bam`, `version`, `health`, `subscribe` | errors in a fixed order, first subscribe not retried, request reused by every resubscribe | `connect.rs`, `error.rs` |
| Feeds and regions | none | `parse`, `name`, `feed`, `into_proto`, `Display` | round trips, a region of one feed never used with the other | `feed.rs` |
| Transaction parsing | none | `parse`, `first_signature`, `parse_static_parts` | an error, never a panic, on malformed bytes | `parse.rs` |
| Protobuf helpers | none | checked enum conversions | an unknown outcome is never read as success | `src/preconfs-proto/src/lib.rs` |
| Example CLI | its command line | value parsers, `main`, logging | the request means what the arguments say; the log says what the feed reported | `src/examples/rust` |
| Server, feed, network | slots and their restarts, one queue per subscriber, coverage accounting | publish, accept, refuse, withhold, clip, ping, close | the delivery contract in `src/preconfs-proto/proto/preconfs.proto` lines 11-34 | external |

How they interact: `Client::subscribe` checks the region, turns the filters
into a request, makes the first call (not retried) and hands the raw stream,
with a clone of itself, of the request and of the policy, to `EventStream::new`.
From there the stream calls `FeedUpdate::subscribe` on its clone whenever a
sleep of the policy ends. All streams of a client share one HTTP/2 connection.

What is hard: a poll that consumes an update without yielding an event; framing
across a reconnect that lands in the middle of a slot; a slot that restarts, with
or without a gap in between; the retry budget, which only an event restores;
delays and counters at the end of their range; a server that withholds
transactions, or closes a reader that lags in the middle of a slot. The
`hazards` of `PROJECT.json` list each with its line and the properties that
cover it.

## 2. Modules

| Module | Models |
|---|---|
| `Reconnect` | the policy: which codes are retried, `exhausted`, `interval` with its saturations and its overflow |
| `Subscription` | what the program may be shown, without any machinery: the abstract specification of a stream |
| `StreamView` | a stream as the rest of a client sees it, one operator for each thing that happens to it; EXTENDS `Reconnect` |
| `EventStream` | `poll_next` with its task and waker; EXTENDS `Reconnect`, implements `Subscription` through the instance `Promise`, and steps as `StreamView` says through the instance `Outside` |
| `EventStreamHistory` | `EventStream` with a history variable counting refused calls |
| `EventStreamProofs` | the theorems about `EventStream`; EXTENDS `ReconnectProofs` |
| `ReconnectProofs` | lemmas about `Interval`: it grows with the attempt, up to its cap |
| `PathProofs` | lemmas about paths: what is under way leads from one place to another |
| `Transport` | the server's side of one stream and the updates in flight, for either feed; EXTENDS `EventStream` |
| `SlotContract` | what the Harmonic feed promises a program, with nothing between the two: the abstract specification of delivery |
| `HarmonicDelivery` | a Harmonic feed and a reading program at the two ends of `Transport`; implements `SlotContract` through the instance `Contract` |
| `BamDelivery` | a BAM feed and a reading program at the two ends of `Transport` |
| `Filters` | filters, their validation and their form in a request, as operators |
| `FilterMeaning` | what a request selects; EXTENDS `Filters` |
| `FilterBuilder` | a program that builds a filter set call by call and turns it into a request; EXTENDS `FilterMeaning` |
| `Regions` | the tables of regions, reading and showing them, and their form in a request |
| `ExecutionResults`, `Parse` | the names of outcomes and their checked conversion; what the parsers answer on the bytes of a transaction |
| `Client` | building a client, subscribing, and several streams of one client on one connection; EXTENDS `StreamView` and `Regions` |
| `Example` | the example program: value parsers, filter, connection, subscription, log; EXTENDS `FilterMeaning`, `Regions`, `ExecutionResults` and `Parse`, and reads from two instances of `Subscription` |
| `HarmonicDeliveryProofs`, `BamDeliveryProofs`, `FilterProofs`, `ClientProofs`, `ExampleProofs` | the theorems about the module each is named for |
| `MCEventStream`, `MCEventStreamHistory`, `MCHarmonicDelivery`, `MCBamDelivery`, `MCFilters`, `MCClient`, `MCExample` | the constants of the runs |

Three compositions tie them together. `HarmonicDelivery` and `BamDelivery` put the
detailed stream between a feed and a program. `Client` holds several streams, each
a view; `SeenFromOutside` shows that the detailed stream steps as such a view.
`Example` reads a stream that does what `Subscription` allows, and `KeepsPromise`
shows that the detailed stream does no more.

### EventStream

`reconnect`, `state`, `attempts` and `framed` are the fields of the struct (the
client and the request never change and are left out). The future or raw stream
inside `state` is abstracted to `source`, what it answers if polled, and `armed`,
whether it holds the task's waker. `delay` keeps the last sleep for the backoff
property, `task` is the polling task and `ret` the last item returned.

Each arm of the loop in `poll_next` is one action, so an answer may arrive
between any two iterations: `PollEnded`, `PollPending` (every `ready!`),
`Resubscribe`, `Resubscribed`, `ResubscribeFailed`, `SkipUpdate` (`into_event`
gave `None`), `HoldBack` (unframed and not a `SlotStart`), `Deliver`,
`StreamFailed`. `Fail` is `fail()`, with the increment, the test and the sleep in
the code's order. `CallNext`, `PollAgain` and `DropNext` are the program and the
runtime; `TimerFires`, `CallAnswered` and `StreamAnswers` the futures, free to
answer anything of their kind at any time.

Abstractions. A transaction is an opaque `body`. Delays are naturals and the
multiplier is a fraction of integers, less than 1 or negative included; its powers
are exact and the delay is cut to whole units, so the rounding of f64 is left out,
while its overflow is not (`FloatMax`). A sleep, a call or a raw stream that gave
its last answer is `Spent`, which no state admits: polling one again breaks
`StreamInv`. A `u32` is `0 .. U32Size - 1` and wraps, as in a release build; a
debug build panics there instead. A call may be answered as soon as the future
exists, which is a little earlier than its first poll.

Names with an underscore (`NewFraming_Kept`, `Bump_Forgotten`, ...) are
faulty variants of the definition that follows them. No specification uses one;
`PROJECT.json` says which property each of them must break.

### StreamView

A view is `state`, `attempts` and, once the raw stream broke, the error that the
next poll will take. `Failing` is `fail()`, `Slept` the end of a sleep, `CameUp` a
resubscribe that succeeded, `Heard` an event, `Broke` a raw stream that ended. Polls,
wakers and updates that yield nothing are no step of a view. `View` in `EventStream`
is the refinement mapping.

### Transport, HarmonicDelivery and SlotContract

The feed, server and connection are not in this repository. They do what the
delivery contract of `preconfs.proto` (lines 11-34, and 265-272 for clips) says,
no more: slots are framed, an ended slot may restart, a pending clip goes out
before `SlotEnd`, a stream whose queue is full is closed with `DataLoss`, and a
connection that is lost takes a suffix of what was in flight with it. Whether the
server holds back the slot that is open at a subscribe is left open: the client's
own hold-back is what is checked. Frames and transactions carry numbers that the
client never reads, for the properties to tell them apart. The program does what
the contract tells a reader to do: start over on a repeated `SlotStart`, count
clips, complete on `SlotEnd`, drop everything on `Reconnected`.

`SlotContract` is the same contract with server, wire, connection and stream taken
out: a program begins frames of the feed in order, none skipped except after a
`Reconnected`, takes transactions of the frame in order, counts notices, and
completes the frame only when it ended and every transaction of it is held or
counted. `FollowsContract` is the refinement. It needs no mapping beyond the frames
and the program of `HarmonicDelivery` themselves; everything else is a stutter.

### BamDelivery

The BAM feed has no frames, so the program cannot tell by itself what is complete.
Transactions are numbered in the order the feed publishes them, and `since` keeps
how many there were when the server last accepted a stream. The property is a
balance: what was published since then is held, on its way, counted as withheld,
or about to be. Bundles and the fields of a transaction are data.

### Filters, FilterMeaning and FilterBuilder

`Filters` has the builders of an instruction, `Refusal` with the first broken check
in the order of the code, and `FilterIntoProto` and `RequestOf`, where lists and
names change types. A filter is a record of its lists; the five account lists are
sequences of values the code only counts and copies. Memcmp bytes are sequences
over a small alphabet, so that they can be compared with the data they are meant
to match. `USizeSize` is the end of a `usize`; in the `filters` run it is the width
of an offset, as on a 32 bit target.

`FilterMeaning` is the reference the requests are held against: `Matches` says of
a filter of a request and a transaction whether the first selects the second, from
the comments of `preconfs.proto`. `FilterBuilder` has `building` and `filters`, the
builder's values, and `result`, what `into_request` returned, with one action per
method. The region of the request is left to `Regions` and `Client`.

### Regions

Operators only: the two tables, `Parse`, `FromStr`, `Name`, `Display`, `IntoProto`.
A word is its letters in lower case and how it is written (`lower`, `upper` or
`mixed`), since the code compares lower-cased words and the names of the schema
are in upper case; a text is split at its first colon. Two assumptions in
`MCClient` are evaluated with its run: `ReadsBack`, every region reads back from
what it is shown as, except the unspecified one of a feed, which is shown as a name
that is refused; and `RefusedInOrder`, which part of a text is refused first.

### ExecutionResults and Parse

Operators only. An outcome on the wire is an Option of an integer; `Reported` gives
the outcome only if the schema knows it. `ExecutionResultOf` reads the short names
in any case and the names of the schema in theirs alone. The bytes of a transaction
are whole, with a list of signatures, or malformed; decoding is the work of wincode
and external. The table of `parse_static_parts`, which the example does not call,
is an assumption of `MCExample` (`PartsNeedASignature`).

### Example

`main` is where `main()` is, `args` its command line, `request` and `policy` what
it made of it, `item` the last item of the stream, and `logged` the last line of the
log. The value parsers are operators that give a set of at most one value. Each
`?` of `main()` is a way to "failed"; connecting, asking the version and subscribing
may fail freely, since what makes them fail is the subject of `Client`. Reading is
`Yield` of `Subscription`, so the stream shows the program everything that promise
allows: a raw stream of either feed with every kind of payload. Outcomes and bytes
of transactions are chosen so that an unset outcome, one the schema does not know,
malformed bytes and a missing signature all occur. Endpoint, token and dial are
settings that only make the connection fail or not; the other fields that are
logged are copied, and left out.

### Client

`connector` is the settings that can be wrong or matter later (uri, TLS, token,
policy), `client` what `Connect` or `ConnectLazy` made of them. `streams` holds for
each subscribe its feed, region and view (`StreamView`), to which `Fails`, `Retry`,
`Answered`, `Unreachable`, `StreamBreaks` and `Event` happen. `XToken` is the
interceptor: the token goes with every call, and a connector without one sends none.
The other half is external: a network that goes down and comes back, and a server
that checks token and region, counts streams against a limit of the account, goes
on counting for a while the ones that broke (`stale`), ends a stream and
refuses the account for a while when it is over its coverage share (README of the
repository, lines 165-173, and the comment in `reconnect.rs` 122-125), and refuses
a feed for good once it is revoked (`reconnect.rs` 10-11). Outages, cooloffs and
revocations are the `troubles`, bounded together.
`received` is a history variable: everything the server was asked. `connect` looks
at the token after the connection is made and `connect_lazy` before; both are as in
the code. Dial address, timeouts and compression are left out, and so are
`version` and `health`, single calls that keep nothing.

## 3. Runs

| Run | Shows | Bounds, and why they are enough |
|---|---|---|
| `harmonic_stream` (`HarmonicStream.cfg`) | `StreamInv` and its parts, `KeepsPromise`, `SeenFromOutside`, `BackoffNeverShrinks`, `DownIsTransient`, `AnswersAreTaken` | one update of each payload, a retryable and a terminal status; policies off, 0, 2, `u32::MAX` and no limit; `U32Size` 6, so that the counter wraps; factors 1, 2, 3/2, 1/2 and -2; `FloatMax` 8 and cap 6, so that the delay is cut first by the cap and then by the overflow |
| `harmonic_slots` (`HarmonicSlots.cfg`) | `CompleteSlots`, `FollowsContract` | two frames of two transactions, three updates in flight: order and clips inside a frame matter, lag happens |
| `harmonic_gaps` (`HarmonicGaps.cfg`) | `HeldIsDefinitive`, `GapsAnnounced` | three frames over two slots: a frame seen, one missed, one seen, each possibly a restart |
| `harmonic_drain` (`HarmonicDrain.cfg`) | `WireDrains` | two frames of one transaction, two updates in flight |
| `bam_delivery` (`BamDelivery.cfg`) | `OpenStreamIsComplete`, `HeldInOrder`, `SettlesComplete`, and `KeepsPromise` without framing | five transactions, three in flight: one held, one clipped, some cut off by a lag or a lost connection, and a stream accepted in the middle of the feed, which falls silent in the end; no policy and one retry |
| `filters` (`Filters.cfg`) | `AcceptedCanMatch`, `RefusedCannotMatch`, `AcceptedIsServable` | limits of one or two, data of at most three bytes, an offset that overflows; four builder calls reach every error and break each limit, except that three filters of which none is empty take six (for their number the theorem speaks alone) |
| `client` (`Client.cfg`) | `OnlySoundRequests`, `AllComeBack`, `RevokedIsFinal` | two streams and a limit of two, so that a stream that broke keeps another out; two troubles, outages, cooloffs or revoked feeds, so that one strikes while the streams still recover from another; nine connectors, each with one setting out of the ordinary; deadlock is allowed, as a client that was not built is the end |
| `example` (`Example.cfg`) | `RequestMeansTheArgs`, `LoggedIsReported`, `LeavesForCause` | every command line of up to two options, each with values on both sides of what its parser takes (options are independent but for `--data-size` and `--instruction`, and two make a crossing of lists visible); 270 transactions that tell the filters apart; both feeds, with and without a policy |
| `reconnected_count` (`ReconnectedCount.cfg`) | violates `AttemptsAreFailedAttempts` | one policy of two retries |
| `filter_names` (`FilterNames.cfg`) | violates `EveryFilterIsAsked` | as `filters` |
| `example_hex` (`ExampleHex.cfg`) | violates `HexIsDigits` | as `example` |
| `bam_outcome` (`BamOutcome.cfg`) | violates `BamHasNoOutcome` | as `example` |

The largest run has about a million states and takes under a minute.

### Fairness

`EventStream` assumes that a program reads in a loop and that tokio polls a woken
task (`WF(ClientStep)`), that a sleep ends (`WF(TimerFires)`), and that a
subscribe call is answered or fails (`WF(CallAnswered)`). The first two are the
runtime's. The third is the weakest: the code sets no timeout on the call, only
HTTP/2 keepalive (`connect.rs` 145-147), which ends a dead connection but not a
server that keeps the connection and never answers. Nothing is assumed of
`StreamAnswers` (a raw stream may stay silent for ever) or of `DropNext`.
`HarmonicDelivery` assumes that its reader reads and that what is in flight
arrives or is lost. `BamDelivery` assumes as much, and of the outside that the end of
a connection is noticed (the HTTP/2 keepalive) and that a notice of withheld
transactions goes out (`preconfs.proto` has it once a second). `SettlesComplete` is
for policies with a limit: with none, the server may refuse for ever.

`Client` assumes of the client that sleeps end, calls are answered or fail and a
broken stream is polled; and of the rest that the network comes back, a cooloff
ends and the server notices streams that are gone, without which nothing could
bring a stream back. Nothing is assumed of a revoked feed. `AllComeBack` is for
policies without a limit: with one, a stream may use up its budget on the server's
memory of its own broken session; and not for a revoked feed, whose streams
`RevokedIsFinal` has end, under every policy.

### Findings

- `Event::Reconnected { attempts }` is documented as the "Failed attempts before
  this one succeeded" (`stream.rs` 74). `fail()` counts the drop itself, so a
  stream that comes back at the first try reports 1; and a stream that came up
  and dropped before its first event keeps its count. `reconnected_count` shows
  the shortest case. The wording of the field, not the retry logic, is off.
- `Filters::with` takes the same name twice, and the map built in `into_request`
  keeps the later filter only. The documentation says that a program holds
  everything its filters matched, and that names are echoed; transactions only
  the earlier filter matches never arrive. `filter_names` shows it.
- `decode_hex` of the example reads "Pairs of hex digits" (`src/examples/rust/src/main.rs`
  190) with `u8::from_str_radix`, which takes a sign: `+2` is the byte 2.
  `example_hex` shows it.
- `Feed::Bam` is documented with "no execution outcome" (`feed.rs` 17), while
  `BamTransaction::execution_result` (`src/preconfs-proto/src/lib.rs` 38) returns
  the one the leader reported, and the example logs it. `bam_outcome` shows it.

A thing found that is documented as intended: the budget is restored by an event
and not by a connection, so on a quiet feed each drop uses one retry however
long the stream was up in between.

## 4. Proofs

Every safety property of a passing run is proved, for every value of the
constants that the assumptions of its module allow; the liveness properties are
only model-checked (see the end of this section).

| Module | Theorem | Property |
|---|---|---|
| `EventStreamProofs` | `Invariance`, `NoWakeupIsLost` | `StreamInv` with the type invariant `TypeOK`, `NoLostWakeup` |
| | `Refinement` | `KeepsPromise`: every behaviour of the stream is one of `Subscription` |
| | `SeenAsAView` | `SeenFromOutside`: its steps are those of a `StreamView` |
| | `BackoffGrows` | `BackoffNeverShrinks` |
| `HarmonicDeliveryProofs` | `DeliveryInvariance` | `DeliveryInv`, the invariant the others follow from |
| | `SlotsAreComplete`, `HeldAreDefinitive` | `CompleteSlots`, `HeldIsDefinitive` |
| | `DropsAreAnnounced` | `GapsAnnounced` |
| | `ContractIsFollowed` | `FollowsContract`: server, wire and stream together implement `SlotContract` |
| `BamDeliveryProofs` | `BamInvariance` | `BamInv`, the invariant |
| | `HeldStayInOrder`, `OpenStreamsAreComplete` | `HeldInOrder`, `OpenStreamIsComplete` |
| | `BamKeepsPromise` | `KeepsPromise`, with a feed and a server around the stream |
| `ClientProofs` | `ClientInvariance` | `ClientInv`, the invariant |
| | `RequestsAreSound` | `OnlySoundRequests` |
| `FilterProofs` | `FilterInvariance` | `FilterInv`, the invariant |
| | `AcceptedConditionsCanMatch`, `RefusedConditionsCannotMatch`, `AcceptedRequestsAreServable` | `AcceptedCanMatch`, `RefusedCannotMatch`, `AcceptedIsServable` |
| `ExampleProofs` | `ExampleInvariance` | `ArgsInv` and `ItemInv`, the invariant |
| | `OutcomesAreReported`, `LeavesOnlyForCause`, `RequestsMeanTheArgs` | `LoggedIsReported`, `LeavesForCause`, `RequestMeansTheArgs` |

### Along which arguments

**The stream.** `StreamInv` is inductive. `TypeOK` alone is not: that an answer
carries the update or the code an action reads from it needs `SourceFitsState` and
the shapes of `Answers`. That the final error may be yielded needs `BudgetKept`,
which ties `attempts` to the state (at most `max_retries` while streaming, from 1
while waiting or connecting, one more at the end), and that nothing follows it
needs `EndedMeansError`. Preservation goes action by action; `fail()` has a lemma of
its own for each property (`FailInv`, `FailPromise`, `FailSeen`, `FailBacksOff`) as two
actions end in it. The refinement of `Subscription` maps `tries` to `attempts`, less
one while waiting, since `fail()` counts an attempt before the resubscribe it leads
to; a resubscribe is the only internal step that the promise counts.

**The backoff.** `BackoffNeverShrinks` is about two drops, so what lies between them
has to be remembered: `BackoffInv` says that `delay` is the interval of the attempts
counted so far while the stream is down, and still when it is up again and has
delivered nothing, and that no attempt is counted otherwise. Then `IntervalGrows`
compares two consecutive intervals. The growth is a fraction of two powers: if its
factor is less than 1 the powers stay in order (`PowersOrdered`) and every delay is
the first one (`CutOfLittle`); if it is at least 1 the next growth is the greater
one, so that its quotient is (`QuotientGrows`), before the cap, across the point
where the product is cut or overflows, and where the exponent saturates
(`CutGrows`). `Powers` is a recursive
function, and its values are established once (`PowersAre`) by an induction over a
set of numbers, written out by its smallest counterexample, as the induction
theorems of the library take an operator and are of no use to the provers.

**The deliveries.** What a program holds when `SlotEnd` comes was decided when the
updates were sent, so an invariant of `program` and `frames` alone is not inductive;
one must say of every update in flight what it will do. `Connects` (`PathProofs`) is
that: a sequence of updates leads from a place to another if there is a place
after each of them such that each update may lead from its place to the next. In
`HarmonicDelivery` a place is the frame that is open, the number of transactions
accounted for, the last one, the last frame, and whether the stream joined a frame
yet. `DeliveryInv` says that the answer to be taken and the wire lead from where the
program is (`Here`) to where the feed and the session are (`Current`), by updates
that each fit the frames there are. A send appends a step at the end, a poll takes
the first, a lost connection cuts a suffix, after which `Current` is not claimed; a
resubscribe starts over with an empty path, since nothing is under way while there
is no connection (`NothingUnderWay`). For a stream that has not joined a frame any
step but a `SlotStart` leads nowhere: this is `NewFraming` and the hold-back, without
which the path from the middle of a slot would not exist. `CompleteSlots` is then
what the step of a `SlotEnd` demands; `GapsAnnounced` and each step of `SlotContract`
are read off the step that the program takes along the path. In `BamDelivery` a
place is a count and a number, and the balance of `OpenStreamIsComplete` is the
difference of the counts at the two ends (`AccountedIs`, an induction along the path).

**The client.** `OnlySoundRequests` is about what was sent, and two requests of one
stream are equal only because the stream still holds what they were made of.
`ClientInv` says so: every request the server got is the one its stream would send
now, and that stream passed the checks of `subscribe`. Everything that happens to a
stream later keeps its feed, region and filters (`GoesOnInv`), outages of all the
streams at once included (`OutageGoesOn`).

**Filters.** `FilterInv` says that the set is made of what the builders make and that
the result is what `into_request` gives of it. The rest is about the operators: what
the first failing check is (`FirstIs`, `MemcmpErrorIs`, `InstructionErrorIs`,
`FilterErrorIs`, `SetErrorIs`), and what the map of names holds when names repeat
(`TransactionsAre`). `AcceptedIsServable` names the limits of the server one by one.
Those on a filter are followed from the check that passed to the field of the
message it is sent in (`ServableAsked`, `InstructionServableAsked`); the one on the
stream is a count of pairs of a name and a condition that cannot exceed the count
over all filters (`ConditionsAsked`).
`InRangeCanMatch` shows that a condition is met by data made for it,
`OutOfRangeCannotMatch` that no data within the limit meets one that was refused.

**The example.** `ArgsInv` says of each stage of `main()` what it holds of the command
line, `ItemInv` ties the log to the last item. `RequestsMeanTheArgs` follows a
condition through parser, builder and message (`DecodedHex`, `SentInstruction`,
`InstructionMeansItsText`, `OutcomesMeanTheirNames`).

### From which assumptions

They are the `ASSUME`s of the modules, which every run evaluates:

- `ReconnectAssumption`, `EventStreamAssumption`: updates of the feed the stream is
  for; `max_retries` a `u32`; delays natural numbers; the factor any fraction of
  integers. A factor that is a NaN or infinite is none: the code takes a NaN as a
  growth of 1, and with an infinite one cuts every delay but the first at the cap.
  The rounding of f64 is not covered. Under a negative factor the powers change
  their sign and the delays do shrink; `BackoffNeverShrinks` then claims only that
  the first retry waits the initial interval. `FloatMax` is at least 1.
- `TransportAssumption`, `DeliveryAssumption`, `BamDeliveryAssumption`: room for at
  least one update in flight; natural numbers for the sizes of the feed.
- `ClientAssumption`: regions among those of the tables, natural numbers for limits.
- `FiltersAssumption`: the limits are natural numbers and the largest data fits a
  `usize` (4096 bytes do, on 32 and 64 bits). It is what makes the range check safe
  when the sum with an offset wraps.
- `FilterBuilderAssumption`, `ExampleAssumption`: conditions and command lines have
  the shape of their types, and an argument splits at its colons in one way.

### Only model-checked

`DownIsTransient`, `AnswersAreTaken`, `WireDrains`, `SettlesComplete`, `AllComeBack`
and `RevokedIsFinal`, since liveness under fairness is out of the prover's reach. The round trip of
regions (`ReadsBack`, `RefusedInOrder`) and the table of `parse_static_parts` are
evaluated by TLC over all their inputs, which are finite. The four properties that
the code violates are shown violated. Each inductive invariant was also checked
by TLC before it was proved.

## 5. Not modelled

- The timing of TLS, TCP and HTTP/2 flow control: libraries; they appear as
  answers that come at any time.
- Base58, protobuf and Solana encodings: data that no property looks at.
- Dial address, timeouts and compression of a `Connector`: settings handed to tonic.
- Generated stubs, build scripts, the wording of the example's log and of errors.
- A subscribe call that the server accepts and never answers: the code has no timer
  for it, see Fairness.

## 6. Plan

1. (done) `Reconnect`, `EventStream`, `Subscription`, their proofs.
2. (done) `HarmonicDelivery`, `Filters`, `Regions`, `Client`.
3. (done) `StreamView` between `Client` and `EventStream`; `Transport`,
   `BamDelivery`; `SlotContract` and its refinement.
4. (done) `ExecutionResults`, `Parse`, `Example`.
5. (done) Proofs of the safety of every component: the stream as a view and its
   backoff, both deliveries and the refinement of `SlotContract`, requests of a
   client, filters, the example.
6. Left: that each stream of `Client` takes only steps of its view, which would close
   the composition with `SeenFromOutside` by a theorem; that `Subscription` itself
   bounds the retries between two events, and so the detailed stream; the round
   trip of `Regions` and the table of `Parse` as theorems; that `SlotContract` alone
   implies `CompleteSlots`, so that the property follows from the contract and the
   refinement. The theorems go into the proof modules there are.

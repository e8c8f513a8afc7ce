----------------------------- MODULE EventStream -----------------------------
(***************************************************************************)
(* EventStream of stream.rs: the state machine that poll_next drives, the  *)
(* task that polls it, and the inner future it is waiting for.             *)
(*                                                                         *)
(* A call of next() polls the stream: poll_next loops, asking the future   *)
(* or raw stream its state holds for an answer, until it has an item to    *)
(* return or the answer is Pending.  A poll that finds Pending leaves the  *)
(* task's waker with that future, and the task is polled again when the    *)
(* future wakes it.  Each iteration of the loop is one action here, so     *)
(* answers may arrive between any two of them.  The program may also drop  *)
(* a pending next() and call it again later.                               *)
(*                                                                         *)
(* What tokio's timer and tonic answer is left open: any answer of the     *)
(* right kind, at any time.                                                *)
(*                                                                         *)
(* A name with an underscore is a faulty variant of the definition after   *)
(* it, which a property must tell from it; no specification uses it.       *)
(***************************************************************************)
EXTENDS Reconnect

CONSTANTS
    SLOT_FRAMING,  \* FeedUpdate::SLOT_FRAMING: TRUE for Harmonic, FALSE for BAM
    Updates,       \* the feed's updates, records with fields payload and body
    Statuses,      \* the gRPC codes a call or a stream may fail with
    Policies,      \* the Option<Reconnect> values of the Connector
    NoReconnect,   \* reconnect = None
    U32Size        \* 2^32: attempts is a u32 and wraps in a release build

HarmonicPayloads == {"Transaction", "SlotStart", "SlotEnd", "Clip", "Ping", "Empty"}
BamPayloads == {"Transaction", "Clip", "Ping", "Empty"}

ASSUME EventStreamAssumption ==
    /\ SLOT_FRAMING \in BOOLEAN
    /\ \A u \in Updates :
         u.payload \in IF SLOT_FRAMING THEN HarmonicPayloads ELSE BamPayloads
    /\ Statuses \subseteq Codes
    /\ U32Size \in Nat /\ U32Size > 1
    /\ \A p \in Policies : p # NoReconnect =>
         /\ p.max_retries = NoLimit \/ p.max_retries \in 0 .. U32Size - 1
         /\ {p.initial_interval, p.max_interval} \subseteq Nat
         /\ p.multiplier.num \in Int /\ p.multiplier.den \in Nat \ {0}

VARIABLES
    reconnect,  \* the policy; never changes
    state,      \* "Streaming", "Waiting", "Connecting" or "Ended"
    delay,      \* the delay of the last sleep
    attempts,   \* consecutive failed attempts
    framed,     \* whether the current raw stream has passed a SlotStart
    source,     \* what the future or raw stream held by state answers if polled
    armed,      \* whether that future holds the task's waker
    task,       \* "idle", "polling", "parked" or "woken"
    ret         \* the last item next() returned

vars == <<reconnect, state, delay, attempts, framed, source, armed, task, ret>>

\* The fields of the struct, apart from the future inside state.
fields == <<reconnect, state, delay, attempts, framed>>

-----------------------------------------------------------------------------
(* Updates and events. *)

HasEvent_NoClips(u) == u.payload \notin {"Ping", "Empty", "Clip"}

\* Whether into_event returns Some: not for pings and empty payloads.
HasEvent(u) == u.payload \notin {"Ping", "Empty"}

IntoEvent(u) == [event |-> u.payload, body |-> u.body]

Events == {IntoEvent(u) : u \in {v \in Updates : HasEvent(v)}}

(* What an inner future or stream answers. *)

NotReady == [answer |-> "NotReady"]
Spent == [answer |-> "Spent"]
Elapsed == [answer |-> "Elapsed"]
Connected == [answer |-> "Connected"]
Refused(code) == [answer |-> "Refused", code |-> code]
Update(u) == [answer |-> "Update", update |-> u]
Status(code) == [answer |-> "Status", code |-> code]
EndOfStream == [answer |-> "End"]

WaitingAnswers == {Elapsed}
ConnectingAnswers == {Connected} \union {Refused(c) : c \in Statuses}
StreamingAnswers ==
    {Update(u) : u \in Updates} \union {Status(c) : c \in Statuses} \union {EndOfStream}

Answers == WaitingAnswers \union ConnectingAnswers \union StreamingAnswers

\* The answers the future or stream held in state s can give.
AnswersIn(s) ==
    CASE s = "Waiting" -> WaitingAnswers
      [] s = "Connecting" -> ConnectingAnswers
      [] s = "Streaming" -> StreamingAnswers
      [] OTHER -> {}

(* What next() returns. *)

Opened == [item |-> "Opened"]
EventItem(e) == [item |-> "Event", event |-> e]
Reconnected(n) == [item |-> "Reconnected", attempts |-> n]
ErrorItem(error) == [item |-> "Error", error |-> error]
NoItem == [item |-> "None"]

Items ==
    {Opened, NoItem}
      \union {EventItem(e) : e \in Events}
      \union {Reconnected(n) : n \in 0 .. U32Size - 1}
      \union {ErrorItem(error) : error \in StreamErrors}

Limited(p) ==
    /\ p # NoReconnect
    /\ p.max_retries # NoLimit
    /\ p.max_retries + 1 < U32Size

-----------------------------------------------------------------------------
\* EventStream::new, after the first subscribe succeeded.
Init ==
    /\ reconnect \in Policies
    /\ state = "Streaming"
    /\ delay = 0
    /\ attempts = 0
    /\ framed = ~SLOT_FRAMING
    /\ source = NotReady
    /\ armed = FALSE
    /\ task = "idle"
    /\ ret = Opened

(* The task and the program. *)

\* The program calls next().
CallNext ==
    /\ task = "idle"
    /\ task' = "polling"
    /\ UNCHANGED <<fields, source, armed, ret>>

\* The runtime polls a task that was woken.
PollAgain ==
    /\ task = "woken"
    /\ task' = "polling"
    /\ UNCHANGED <<fields, source, armed, ret>>

\* The program drops a pending next(), as tokio::select! does.
DropNext ==
    /\ task \in {"parked", "woken"}
    /\ task' = "idle"
    /\ UNCHANGED <<fields, source, armed, ret>>

(* Ways to leave an iteration of the loop. *)

Return(item) == ret' = item /\ task' = "idle"
Continue == UNCHANGED <<ret, task>>

\* continue: the loop goes on to the next update of the raw stream.
NextUpdate_Parks == task' = "parked" /\ UNCHANGED ret
NextUpdate == Continue

\* An answer is taken.  The raw stream goes on after an update, and a new state
\* holds a new future; anything else is over and has no other answer to give.
Renew ==
    /\ source' = IF source.answer = "Update" \/ state' # state THEN NotReady ELSE Spent
    /\ armed' = FALSE

(* fail(): retry while the policy allows it, else the error to yield. *)

Bump_Forgotten(n) == n
Bump(n) == (n + 1) % U32Size

MayRetry(error, n) ==
    /\ reconnect # NoReconnect
    /\ Retryable(error)
    /\ ~Exhausted(reconnect, n)

Fail(error) ==
    /\ attempts' = IF reconnect = NoReconnect THEN attempts ELSE Bump(attempts)
    /\ \/ /\ MayRetry(error, attempts')
          /\ state' = "Waiting"
          /\ delay' = Interval(reconnect, attempts')
          /\ Continue
       \/ /\ ~MayRetry(error, attempts')
          /\ state' = "Ended"
          /\ UNCHANGED delay
          /\ Return(ErrorItem(error))
    /\ Renew
    /\ UNCHANGED <<reconnect, framed>>

-----------------------------------------------------------------------------
(* poll_next, one action per way an iteration of its loop can go. *)

Polling(s) == task = "polling" /\ state = s

PollEnded ==
    /\ Polling("Ended")
    /\ Return(NoItem)
    /\ UNCHANGED <<fields, source, armed>>

PollPending ==
    /\ task = "polling"
    /\ state # "Ended"
    /\ source.answer = "NotReady"
    /\ armed' = TRUE
    /\ task' = "parked"
    /\ UNCHANGED <<fields, source, ret>>

\* The sleep is over: resubscribe() with a fresh call, polled next.
Resubscribe ==
    /\ Polling("Waiting")
    /\ source.answer = "Elapsed"
    /\ state' = "Connecting"
    /\ Renew
    /\ Continue
    /\ UNCHANGED <<reconnect, delay, attempts, framed>>

\* The call succeeded: the new raw stream starts unframed, the attempts stay
\* counted until an event comes, and the program is told.
NewFraming_Kept == framed
NewFraming == ~SLOT_FRAMING

AttemptsKept_Reset == 0
AttemptsKept == attempts

Announce_Silent == Continue
Announce == Return(Reconnected(attempts))

Resubscribed ==
    /\ Polling("Connecting")
    /\ source.answer = "Connected"
    /\ state' = "Streaming"
    /\ framed' = NewFraming
    /\ attempts' = AttemptsKept
    /\ Renew
    /\ Announce
    /\ UNCHANGED <<reconnect, delay>>

\* The call failed: one more attempt used up.
ResubscribeFailed ==
    /\ Polling("Connecting")
    /\ source.answer = "Refused"
    /\ Fail(source.code)

\* A ping or an empty payload.
SkipUpdate ==
    /\ Polling("Streaming")
    /\ source.answer = "Update"
    /\ ~HasEvent(source.update)
    /\ Renew
    /\ NextUpdate
    /\ UNCHANGED fields

\* An event of a slot whose start this raw stream did not see.
HoldBack ==
    /\ Polling("Streaming")
    /\ source.answer = "Update"
    /\ HasEvent(source.update)
    /\ ~framed
    /\ IntoEvent(source.update).event # "SlotStart"
    /\ Renew
    /\ NextUpdate
    /\ UNCHANGED fields

\* An event for the program: it restores the budget.
Deliver ==
    /\ Polling("Streaming")
    /\ source.answer = "Update"
    /\ HasEvent(source.update)
    /\ framed \/ IntoEvent(source.update).event = "SlotStart"
    /\ framed' = TRUE
    /\ attempts' = 0
    /\ Renew
    /\ Return(EventItem(IntoEvent(source.update)))
    /\ UNCHANGED <<reconnect, state, delay>>

\* The raw stream ended, with a status or without.
StreamFailed ==
    /\ Polling("Streaming")
    /\ \/ source.answer = "Status" /\ Fail(source.code)
       \/ source.answer = "End" /\ Fail(Closed)

PollNext ==
    \/ PollEnded
    \/ PollPending
    \/ Resubscribe
    \/ Resubscribed
    \/ ResubscribeFailed
    \/ SkipUpdate
    \/ HoldBack
    \/ Deliver
    \/ StreamFailed

-----------------------------------------------------------------------------
(* The timer and the transport. *)

\* The future or stream held by state has an answer, and wakes the task if it
\* holds its waker.
Answer(a) ==
    /\ source.answer = "NotReady"
    /\ a \in AnswersIn(state)
    /\ source' = a
    /\ armed' = FALSE
    /\ task' = IF armed /\ task = "parked" THEN "woken" ELSE task
    /\ UNCHANGED <<fields, ret>>

TimerFires == \E a \in WaitingAnswers : Answer(a)
CallAnswered == \E a \in ConnectingAnswers : Answer(a)
StreamAnswers == \E a \in StreamingAnswers : Answer(a)

-----------------------------------------------------------------------------
\* What the program and the runtime do by themselves; DropNext is a choice.
ClientStep == CallNext \/ PollAgain \/ PollNext

Next == ClientStep \/ DropNext \/ TimerFires \/ CallAnswered \/ StreamAnswers

(***************************************************************************)
(* The program reads in a loop (while let Some(event) = next().await) and  *)
(* tokio polls a task that was woken; a sleep ends; and a subscribe call   *)
(* on a connection with HTTP/2 keepalive is answered or fails.  Nothing    *)
(* makes a raw stream ever say anything, or a program drop a next().       *)
(***************************************************************************)
Fairness ==
    /\ WF_vars(ClientStep)
    /\ WF_vars(TimerFires)
    /\ WF_vars(CallAnswered)

Spec == Init /\ [][Next]_vars /\ Fairness

-----------------------------------------------------------------------------
(* Properties. *)

\* Every variable holds a value of its type; attempts stays a u32.
TypeOK ==
    /\ reconnect \in Policies
    /\ state \in {"Streaming", "Waiting", "Connecting", "Ended"}
    /\ delay \in Nat
    /\ attempts \in 0 .. U32Size - 1
    /\ framed \in BOOLEAN
    /\ source \in Answers \union {NotReady}
    /\ armed \in BOOLEAN
    /\ task \in {"idle", "polling", "parked", "woken"}
    /\ ret \in Items

\* While the program awaits next(), the future the stream now holds has the
\* task's waker and has not answered yet: poll_next returned Pending only from
\* a poll of that very future (ready!), never after taking an answer.
NoLostWakeup ==
    task = "parked" => armed /\ source.answer = "NotReady" /\ state # "Ended"

\* The future or raw stream in state answers only what its kind can, and none
\* that gave its only answer is left there to be polled again.
SourceFitsState ==
    source.answer # "NotReady" => source \in AnswersIn(state)

\* The stream is over exactly when the program was given the error: None never
\* comes before it, and nothing but None after it.
EndedMeansError == state = "Ended" <=> ret.item \in {"Error", "None"}

\* Where attempts stands in each state when the policy bounds the retries, and
\* that without a policy nothing is ever retried.
BudgetKept ==
    /\ reconnect = NoReconnect =>
         state \in {"Streaming", "Ended"} /\ attempts = 0
    /\ Limited(reconnect) =>
         /\ state = "Streaming" => attempts <= reconnect.max_retries
         /\ state \in {"Waiting", "Connecting"} =>
              attempts \in 1 .. reconnect.max_retries
         /\ state = "Ended" => attempts \in 1 .. reconnect.max_retries + 1

\* The inductive invariant.
StreamInv ==
    /\ TypeOK
    /\ NoLostWakeup
    /\ SourceFitsState
    /\ EndedMeansError
    /\ BudgetKept

\* Resubscribes since the last event, as far as the policy bounds them: a
\* failure counts one attempt before the resubscribe it leads to.
Tries ==
    IF ~Limited(reconnect) THEN 0
    ELSE IF state \in {"Waiting", "Ended"} THEN attempts - 1 ELSE attempts

Promise == INSTANCE Subscription
    WITH policy <- reconnect, item <- ret, joined <- framed, tries <- Tries

\* The stream keeps the promise of Subscription: framing restarts after every
\* Reconnected, one error then None, and an error the policy could still retry
\* is never yielded, nor retried past max_retries.
KeepsPromise == Promise!Spec

Outside == INSTANCE StreamView

\* What is seen of the stream from outside poll_next.
View ==
    LET broken == state = "Streaming" /\ source.answer \in {"Status", "End"}
    IN  [state    |-> IF broken THEN "Broken"
                      ELSE IF state = "Connecting" THEN "Resubscribing" ELSE state,
         attempts |-> attempts,
         error    |-> IF ~broken THEN "none"
                      ELSE IF source.answer = "End" THEN Closed ELSE source.code]

\* From outside the stream does only what Client takes it to do: it breaks, it
\* sleeps and tries again or is over, and its attempts start over only when an
\* event comes, not when it comes up; polls and wake-ups in between are unseen.
SeenFromOutside ==
    View = Outside!NewView /\ [][Outside!Step(reconnect, View, View')]_View

\* Unless its factor is negative, when the delays do go up and down, a stream
\* that fails again before it delivered an event waits at least as long as
\* before; and under any factor the first failure after an event waits the
\* initial interval.  (attempts' = 0 is a u32 that wrapped.)
BackoffNeverShrinks ==
    [][ (state' = "Waiting" /\ state # "Waiting" /\ attempts' # 0) =>
          IF state = "Connecting" \/ ret.item = "Reconnected"
          THEN reconnect.multiplier.num >= 0 => delay' >= delay
          ELSE delay' = Lesser(reconnect.initial_interval, reconnect.max_interval)
      ]_vars

\* A stream that is down and may retry a bounded number of times comes back or
\* ends: it cannot cycle between waiting and connecting for ever.
DownIsTransient ==
    (Limited(reconnect) /\ state \in {"Waiting", "Connecting"})
      ~> (state \in {"Streaming", "Ended"})

\* Whatever the raw stream, the timer or the call answers is taken, however
\* often the program drops and repeats its next().
AnswersAreTaken == (source.answer # "NotReady") ~> (source.answer = "NotReady")
=============================================================================

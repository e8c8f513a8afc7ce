-------------------------- MODULE EventStreamProofs --------------------------
(***************************************************************************)
(* Proofs about EventStream, for every feed, every set of updates and      *)
(* statuses, every policy and every width of the attempts counter.         *)
(***************************************************************************)
EXTENDS EventStream, ReconnectProofs

-----------------------------------------------------------------------------
(* What a taken answer carries. *)

\* An answer that is an update carries one of the feed's updates.
LEMMA UpdateAnswers ==
    ASSUME TypeOK, source.answer = "Update"
    PROVE  source.update \in Updates
  BY DEF TypeOK, Answers, WaitingAnswers, ConnectingAnswers, StreamingAnswers,
         NotReady, Elapsed, Connected, Refused, Update, Status, EndOfStream

\* An answer that is a failure carries a gRPC code.
LEMMA FailureAnswers ==
    ASSUME TypeOK, source.answer \in {"Refused", "Status"}
    PROVE  source.code \in StreamErrors
<1>1. source.code \in Statuses
  BY DEF TypeOK, Answers, WaitingAnswers, ConnectingAnswers, StreamingAnswers,
         NotReady, Elapsed, Connected, Refused, Update, Status, EndOfStream
<1>2. QED
  BY <1>1, EventStreamAssumption DEF EventStreamAssumption, StreamErrors

\* NotReady and the answers of a state are answers.
LEMMA AnswersTyped ==
    ASSUME NEW s, NEW a \in AnswersIn(s)
    PROVE  a \in Answers /\ a.answer # "NotReady"
  BY DEF AnswersIn, Answers, WaitingAnswers, ConnectingAnswers, StreamingAnswers,
         Elapsed, Connected, Refused, Update, Status, EndOfStream

\* Closed is an error a stream may yield.
LEMMA ClosedTyped == Closed \in StreamErrors
  BY DEF Closed, StreamErrors

\* The attempts counter stays a u32.
LEMMA BumpTyped ==
    ASSUME NEW n \in 0 .. U32Size - 1
    PROVE  /\ Bump(n) \in 0 .. U32Size - 1
           /\ n + 1 < U32Size => Bump(n) = n + 1
  BY EventStreamAssumption DEF EventStreamAssumption, Bump

-----------------------------------------------------------------------------
(* fail() preserves the invariant. *)

LEMMA FailInv ==
    ASSUME StreamInv, task = "polling", state \in {"Streaming", "Connecting"},
           NEW error \in StreamErrors, Fail(error)
    PROVE  StreamInv'
<1> USE EventStreamAssumption
<1>1. TypeOK'
  <2>1. attempts' \in 0 .. U32Size - 1
    BY BumpTyped DEF StreamInv, TypeOK, Fail
  <2>2. delay' \in Nat
    <3>1. CASE MayRetry(error, attempts') /\ delay' = Interval(reconnect, attempts')
      <4>1. IsPolicy(reconnect)
        BY <3>1 DEF EventStreamAssumption, MayRetry, StreamInv, TypeOK, IsPolicy
      <4>2. PICK n \in Nat, max \in Nat : n = attempts' /\ max = reconnect.max_interval
        BY <2>1, <4>1, EventStreamAssumption DEF IsPolicy
      <4>3. Interval(reconnect, n) \in 0 .. max
        BY <4>1, <4>2, IntervalBounded
      <4>4. QED
        BY <3>1, <4>2, <4>3
    <3>2. CASE UNCHANGED delay
      BY <3>2 DEF StreamInv, TypeOK
    <3>3. QED
      BY <3>1, <3>2 DEF Fail
  <2>3. ret' \in Items
    BY DEF StreamInv, TypeOK, Fail, Continue, Return, Items
  <2>4. QED
    BY <2>1, <2>2, <2>3 DEF StreamInv, TypeOK, Fail, Continue, Return, Renew
<1>2. NoLostWakeup'
  BY DEF NoLostWakeup, Fail, Continue, Return
<1>3. SourceFitsState'
  BY DEF SourceFitsState, Fail, Renew, NotReady
<1>4. EndedMeansError'
  BY DEF StreamInv, EndedMeansError, Fail, Continue, Return, ErrorItem
<1>5. BudgetKept'
  <2>1. CASE reconnect = NoReconnect
    BY <2>1 DEF StreamInv, BudgetKept, Fail, MayRetry, Limited
  <2>2. CASE Limited(reconnect)
    <3>1. /\ attempts <= reconnect.max_retries
          /\ reconnect.max_retries \in 0 .. U32Size - 1
          /\ reconnect.max_retries + 1 < U32Size
          /\ reconnect # NoReconnect
      BY <2>2 DEF StreamInv, TypeOK, BudgetKept, Limited, EventStreamAssumption
    <3>2. attempts' = attempts + 1
      BY <3>1, BumpTyped DEF StreamInv, TypeOK, Fail, EventStreamAssumption
    <3>3. state' = "Waiting" => attempts' <= reconnect.max_retries
      BY <2>2, <3>1, <3>2 DEF Fail, MayRetry, Exhausted, Limited, StreamInv, TypeOK
    <3>4. QED
      BY <2>2, <3>1, <3>2, <3>3 DEF BudgetKept, Fail, Limited, StreamInv, TypeOK
  <2>3. CASE reconnect # NoReconnect /\ ~Limited(reconnect)
    BY <2>3 DEF BudgetKept, Fail, Limited
  <2>4. QED
    BY <2>1, <2>2, <2>3
<1>6. QED
  BY <1>1, <1>2, <1>3, <1>4, <1>5 DEF StreamInv

-----------------------------------------------------------------------------
(* The invariant holds initially and every step preserves it. *)

\* EventStream::new establishes the invariant.
LEMMA InitInv == Init => StreamInv
<1> SUFFICES ASSUME Init PROVE StreamInv
  OBVIOUS
<1> USE EventStreamAssumption DEF Init
<1>1. TypeOK
  <2>1. framed \in BOOLEAN /\ armed \in BOOLEAN
    OBVIOUS
  <2>2. attempts \in 0 .. U32Size - 1 /\ delay \in Nat
    BY DEF EventStreamAssumption
  <2>3. ret \in Items
    BY DEF Items
  <2>4. QED
    BY <2>1, <2>2, <2>3 DEF TypeOK
<1>2. NoLostWakeup /\ SourceFitsState
  BY DEF NoLostWakeup, SourceFitsState, NotReady
<1>3. EndedMeansError
  BY DEF EndedMeansError, Opened
<1>4. BudgetKept
  <2>1. Limited(reconnect) => reconnect.max_retries \in Nat
    BY DEF Limited, EventStreamAssumption
  <2>2. QED
    BY <2>1 DEF BudgetKept
<1>5. QED
  BY <1>1, <1>2, <1>3, <1>4 DEF StreamInv

\* Every iteration of poll_next, every call and every answer preserves it.
LEMMA StepInv == StreamInv /\ [Next]_vars => StreamInv'
<1> SUFFICES ASSUME StreamInv, [Next]_vars PROVE StreamInv'
  OBVIOUS
<1> USE EventStreamAssumption DEF StreamInv
<1>1. CASE CallNext \/ PollAgain \/ DropNext
  BY <1>1 DEF CallNext, PollAgain, DropNext, fields, TypeOK, NoLostWakeup,
     SourceFitsState, EndedMeansError, BudgetKept
<1>2. CASE PollEnded
  BY <1>2 DEF PollEnded, Polling, Return, NoItem, fields, TypeOK, Items,
     NoLostWakeup, SourceFitsState, EndedMeansError, BudgetKept
<1>3. CASE PollPending
  BY <1>3 DEF PollPending, fields, TypeOK, NoLostWakeup, SourceFitsState,
     EndedMeansError, BudgetKept
<1>4. CASE Resubscribe
  BY <1>4 DEF Resubscribe, Polling, Renew, Continue, NotReady, TypeOK,
     NoLostWakeup, SourceFitsState, EndedMeansError, BudgetKept
<1>5. CASE Resubscribed
  <2>1. TypeOK'
    BY <1>5 DEF Resubscribed, NewFraming, AttemptsKept, Announce, Polling,
       Renew, Return, Reconnected, Items, TypeOK, EventStreamAssumption
  <2>2. NoLostWakeup' /\ SourceFitsState' /\ EndedMeansError'
    BY <1>5 DEF Resubscribed, NewFraming, AttemptsKept, Announce, Polling,
       Renew, Return, Reconnected, NotReady, NoLostWakeup, SourceFitsState,
       EndedMeansError
  <2>3. BudgetKept'
    <3>1. Limited(reconnect) => reconnect.max_retries \in Nat
      BY DEF Limited, EventStreamAssumption, TypeOK
    <3>2. QED
      BY <1>5, <3>1 DEF Resubscribed, NewFraming, AttemptsKept, Announce,
         Polling, Return, BudgetKept
  <2>4. QED
    BY <2>1, <2>2, <2>3
<1>6. CASE ResubscribeFailed
  BY <1>6, FailInv, FailureAnswers DEF ResubscribeFailed, Polling
<1>7. CASE SkipUpdate \/ HoldBack
  <2>1. /\ Polling("Streaming") /\ Renew /\ source.answer = "Update" /\ Continue
        /\ UNCHANGED fields
    BY <1>7 DEF SkipUpdate, HoldBack, NextUpdate
  <2>2. TypeOK'
    BY <2>1 DEF Renew, Continue, fields, TypeOK
  <2>3. NoLostWakeup' /\ SourceFitsState' /\ EndedMeansError' /\ BudgetKept'
    BY <2>1 DEF Polling, Renew, Continue, fields, NotReady, NoLostWakeup,
       SourceFitsState, EndedMeansError, BudgetKept
  <2>4. QED
    BY <2>2, <2>3
<1>8. CASE Deliver
  <2>1. IntoEvent(source.update) \in Events
    BY <1>8, UpdateAnswers DEF Deliver, Events
  <2>2. TypeOK'
    <3>1. ret' \in Items
      BY <1>8, <2>1 DEF Deliver, Return, Items
    <3>2. attempts' \in 0 .. U32Size - 1
      BY <1>8 DEF Deliver, EventStreamAssumption
    <3>3. QED
      BY <1>8, <3>1, <3>2 DEF Deliver, Renew, Return, TypeOK
  <2>3. NoLostWakeup' /\ SourceFitsState' /\ EndedMeansError'
    BY <1>8 DEF Deliver, Polling, Renew, Return, EventItem, NotReady,
       NoLostWakeup, SourceFitsState, EndedMeansError
  <2>4. BudgetKept'
    <3>1. Limited(reconnect) => reconnect.max_retries \in Nat
      BY DEF Limited, EventStreamAssumption, TypeOK
    <3>2. QED
      BY <1>8, <3>1 DEF Deliver, Polling, Return, BudgetKept
  <2>5. QED
    BY <2>2, <2>3, <2>4
<1>9. CASE StreamFailed
  <2>1. CASE source.answer = "Status" /\ Fail(source.code)
    BY <1>9, <2>1, FailInv, FailureAnswers DEF StreamFailed, Polling
  <2>2. CASE source.answer = "End" /\ Fail(Closed)
    BY <1>9, <2>2, FailInv, ClosedTyped DEF StreamFailed, Polling
  <2>3. QED
    BY <1>9, <2>1, <2>2 DEF StreamFailed
<1>10. CASE TimerFires \/ CallAnswered \/ StreamAnswers
  <2>1. PICK a : Answer(a)
    BY <1>10 DEF TimerFires, CallAnswered, StreamAnswers
  <2>2. a \in Answers /\ a \in AnswersIn(state')
    BY <2>1, AnswersTyped DEF Answer, fields
  <2>3. QED
    BY <2>1, <2>2 DEF Answer, fields, TypeOK, NoLostWakeup, SourceFitsState,
       EndedMeansError, BudgetKept
<1>11. CASE UNCHANGED vars
  BY <1>11 DEF vars, TypeOK, NoLostWakeup, SourceFitsState, EndedMeansError,
     BudgetKept
<1>12. QED
  BY <1>1, <1>2, <1>3, <1>4, <1>5, <1>6, <1>7, <1>8, <1>9, <1>10, <1>11
  DEF Next, ClientStep, PollNext

-----------------------------------------------------------------------------
\* In every reachable state of the stream the variables are typed, no wakeup
\* is lost, an answer is one its future can give, the stream is over exactly
\* when its error was yielded, and attempts stands within the budget.
THEOREM Invariance == Spec => []StreamInv
<1>1. QED
  BY InitInv, StepInv, PTL DEF Spec

\* Every variable keeps its type; in particular attempts stays a u32.
THEOREM TypeCorrect == Spec => []TypeOK
<1>1. StreamInv => TypeOK
  BY DEF StreamInv
<1>2. QED
  BY <1>1, Invariance, PTL

\* A task that awaits next() is always registered with the very future that
\* will answer next, whatever was skipped, held back, dropped or retried.
THEOREM NoWakeupIsLost == Spec => []NoLostWakeup
<1>1. StreamInv => NoLostWakeup
  BY DEF StreamInv
<1>2. QED
  BY <1>1, Invariance, PTL

-----------------------------------------------------------------------------
(* The stream implements Subscription. *)

\* A failure taken in a state that may still resubscribe is invisible to the
\* program, or is the error the promise allows.
LEMMA FailPromise ==
    ASSUME StreamInv, task = "polling", state \in {"Streaming", "Connecting"},
           NEW error \in StreamErrors, Fail(error)
    PROVE  [Promise!Next]_(Promise!vars)
<1> USE EventStreamAssumption DEF StreamInv
<1>1. ~Promise!Over
  BY DEF Promise!Over, EndedMeansError
<1>2. ASSUME Limited(reconnect)
      PROVE  /\ attempts \in 0 .. reconnect.max_retries
             /\ reconnect.max_retries \in Nat
             /\ attempts' = attempts + 1
             /\ Tries = attempts /\ Tries' = attempts
  <2>1. /\ attempts \in 0 .. reconnect.max_retries
        /\ reconnect.max_retries \in 0 .. U32Size - 1
        /\ reconnect.max_retries + 1 < U32Size
        /\ reconnect # NoReconnect
    BY <1>2 DEF TypeOK, BudgetKept, Limited, EventStreamAssumption
  <2>2. attempts' = attempts + 1
    BY <2>1, BumpTyped DEF TypeOK, Fail, EventStreamAssumption
  <2>3. Limited(reconnect)' /\ state' \in {"Waiting", "Ended"}
    BY <1>2 DEF Fail, Limited
  <2>4. QED
    BY <1>2, <2>1, <2>2, <2>3 DEF Tries
<1>3. Tries' = Tries
  BY <1>2 DEF Tries, Fail, Limited
<1>4. CASE UNCHANGED ret
  BY <1>3, <1>4 DEF Fail, Promise!vars
<1>5. CASE ~MayRetry(error, attempts') /\ ret' = ErrorItem(error)
  <2>1. CASE reconnect = NoReconnect \/ ~Retryable(error)
    <3>1. Promise!Fail(error)
      BY <1>1, <1>3, <1>5, <2>1 DEF Promise!Fail, Promise!Retryable, Retryable,
         Promise!Closed, Closed, Promise!RetryableCodes, RetryableCodes, Fail,
         ErrorItem
    <3>2. QED
      BY <3>1 DEF Promise!Next, Promise!Yield, Promise!StreamErrors, StreamErrors, Promise!Codes,
         Codes, Promise!RetryableCodes, RetryableCodes, Promise!TerminalCodes,
         TerminalCodes, Promise!Closed, Closed
  <2>2. CASE reconnect # NoReconnect /\ Exhausted(reconnect, attempts')
    <3>1. Limited(reconnect)
      BY <2>2, BumpTyped DEF TypeOK, Fail, Exhausted, Limited, EventStreamAssumption
    <3>2. Tries = reconnect.max_retries
      BY <1>2, <2>2, <3>1 DEF Exhausted
    <3>3. Promise!Fail(error)
      BY <1>1, <1>3, <1>5, <3>1, <3>2 DEF Promise!Fail, Promise!Limited, Limited,
         Fail, ErrorItem
    <3>4. QED
      BY <3>3 DEF Promise!Next, Promise!Yield, Promise!StreamErrors, StreamErrors, Promise!Codes,
         Codes, Promise!RetryableCodes, RetryableCodes, Promise!TerminalCodes,
         TerminalCodes, Promise!Closed, Closed
  <2>3. QED
    BY <1>5, <2>1, <2>2 DEF MayRetry
<1>6. QED
  BY <1>4, <1>5 DEF Fail, Continue, Return

\* Every step of the stream is a step of the promise or changes nothing that
\* the promise speaks of.
LEMMA StepPromise == StreamInv /\ [Next]_vars => [Promise!Next]_(Promise!vars)
<1> SUFFICES ASSUME StreamInv, [Next]_vars PROVE [Promise!Next]_(Promise!vars)
  OBVIOUS
<1> USE EventStreamAssumption DEF StreamInv
<1>a. Promise!Limited(reconnect) <=> Limited(reconnect)
  BY DEF Promise!Limited, Limited
<1>b. state # "Ended" => ~Promise!Over
  BY DEF Promise!Over, EndedMeansError
<1>1. ASSUME UNCHANGED <<fields, ret>>
      PROVE  [Promise!Next]_(Promise!vars)
  BY <1>1 DEF fields, Promise!vars, Tries, Limited
<1>2. CASE PollEnded
  <2>1. Promise!Over
    BY <1>2 DEF PollEnded, Polling, Promise!Over, EndedMeansError
  <2>2. Promise!Finish
    BY <1>2, <2>1 DEF PollEnded, Return, NoItem, fields, Promise!Finish, Tries,
       Limited
  <2>3. QED
    BY <2>2 DEF Promise!Next, Promise!Yield
<1>3. CASE Resubscribe
  <2>1. reconnect # NoReconnect /\ UNCHANGED <<reconnect, ret, framed, attempts>>
    BY <1>3 DEF Resubscribe, Polling, Continue, BudgetKept
  <2>2. CASE Limited(reconnect)
    <3>1. attempts \in 1 .. reconnect.max_retries /\ reconnect.max_retries \in Nat
      BY <1>3, <2>2 DEF Resubscribe, Polling, BudgetKept, TypeOK, Limited,
         EventStreamAssumption
    <3>2. Tries = attempts - 1 /\ Tries' = attempts
      BY <1>3, <2>1, <2>2 DEF Resubscribe, Polling, Tries, Limited
    <3>3. Promise!Resubscribe
      BY <1>3, <1>a, <1>b, <2>1, <2>2, <3>1, <3>2
      DEF Resubscribe, Polling, Promise!Resubscribe
    <3>4. QED
      BY <3>3 DEF Promise!Next, Promise!Yield
  <2>3. CASE ~Limited(reconnect)
    <3>1. Tries = 0 /\ Tries' = 0
      BY <2>1, <2>3 DEF Tries, Limited
    <3>2. QED
      BY <2>1, <3>1 DEF Promise!vars
  <2>4. QED
    BY <2>2, <2>3
<1>4. CASE Resubscribed
  <2>1. /\ state = "Connecting" /\ state' = "Streaming"
        /\ ret' = Reconnected(attempts) /\ framed' = ~SLOT_FRAMING
        /\ UNCHANGED <<reconnect, attempts>>
    BY <1>4 DEF Resubscribed, NewFraming, AttemptsKept, Announce, Polling, Return
  <2>2. reconnect # NoReconnect
    BY <2>1 DEF BudgetKept
  <2>3. Limited(reconnect) => attempts > 0 /\ Tries = attempts
    BY <2>1 DEF BudgetKept, TypeOK, Tries, Limited, EventStreamAssumption
  <2>4. Tries' = Tries
    BY <2>1 DEF Tries, Limited
  <2>5. Promise!Resume(attempts)
    BY <1>a, <1>b, <2>1, <2>2, <2>3, <2>4 DEF Promise!Resume, Reconnected
  <2>6. QED
    BY <2>5 DEF Promise!Next, Promise!Yield, TypeOK
<1>5. CASE ResubscribeFailed
  BY <1>5, FailPromise, FailureAnswers DEF ResubscribeFailed, Polling
<1>6. CASE Deliver
  <2>1. IntoEvent(source.update) \in Events
    BY <1>6, UpdateAnswers DEF Deliver, Events
  <2>2. Tries' = 0
    BY <1>6 DEF Deliver, Polling, Tries
  <2>3. Promise!Deliver(IntoEvent(source.update))
    BY <1>6, <1>b, <2>2 DEF Deliver, Polling, Return, EventItem, Promise!Deliver
  <2>4. QED
    BY <2>1, <2>3 DEF Promise!Next, Promise!Yield
<1>7. CASE StreamFailed
  <2>1. CASE source.answer = "Status" /\ Fail(source.code)
    BY <1>7, <2>1, FailPromise, FailureAnswers DEF StreamFailed, Polling
  <2>2. CASE source.answer = "End" /\ Fail(Closed)
    BY <1>7, <2>2, FailPromise, ClosedTyped DEF StreamFailed, Polling
  <2>3. QED
    BY <1>7, <2>1, <2>2 DEF StreamFailed
<1>8. CASE SkipUpdate \/ HoldBack \/ PollPending
  BY <1>1, <1>8 DEF SkipUpdate, HoldBack, NextUpdate, PollPending, Continue
<1>9. CASE \/ CallNext \/ PollAgain \/ DropNext
           \/ TimerFires \/ CallAnswered \/ StreamAnswers
  BY <1>1, <1>9 DEF CallNext, PollAgain, DropNext, TimerFires, CallAnswered,
     StreamAnswers, Answer
<1>10. CASE UNCHANGED vars
  BY <1>1, <1>10 DEF vars, fields
<1>11. QED
  BY <1>2, <1>3, <1>4, <1>5, <1>6, <1>7, <1>8, <1>9, <1>10
  DEF Next, ClientStep, PollNext

\* Through every drop, retry, held back event and dropped next(), what the
\* program sees is what Subscription promises: framing that starts over after
\* each Reconnected, retries within the budget, one error and then None.
THEOREM Refinement == Spec => KeepsPromise
<1>1. Init => Promise!Init
  BY DEF Init, Opened, Promise!Init, Tries
<1>2. QED
  BY <1>1, InitInv, StepInv, StepPromise, PTL DEF Spec, KeepsPromise, Promise!Spec

-----------------------------------------------------------------------------
(* From outside, the stream is a view of StreamView. *)

\* What fail() does to the stream is what Failing does to its view.
LEMMA FailSeen ==
    ASSUME StreamInv, state \in {"Streaming", "Connecting"}, NEW error, Fail(error)
    PROVE  View' = Outside!Failing(reconnect, View, error)
<1> USE DEF StreamInv
<1>1. /\ source'.answer = "NotReady"
      /\ state' \in {"Waiting", "Ended"}
      /\ state' = "Waiting" <=> MayRetry(error, attempts')
      /\ attempts' = IF reconnect = NoReconnect THEN attempts ELSE Bump(attempts)
  BY DEF Fail, Renew, NotReady
<1>2. MayRetry(error, attempts') <=>
        /\ reconnect # NoReconnect /\ Outside!Retryable(error)
        /\ ~Outside!Exhausted(reconnect, attempts')
  BY DEF Fail, MayRetry, Retryable, Outside!Retryable, Exhausted, Outside!Exhausted,
         Closed, Outside!Closed, RetryableCodes, Outside!RetryableCodes
<1>3. View' = [state |-> state', attempts |-> attempts', error |-> "none"]
  BY <1>1 DEF View
<1>4. View = [state |-> View.state, attempts |-> attempts, error |-> View.error]
  BY DEF View
<1>5. attempts' =
        IF reconnect = NoReconnect THEN View.attempts ELSE (View.attempts + 1) % U32Size
  BY <1>1, <1>4 DEF Bump
<1>6. Outside!Failing(reconnect, View, error) =
        [View EXCEPT !.state = IF /\ reconnect # NoReconnect
                                  /\ Outside!Retryable(error)
                                  /\ ~Outside!Exhausted(reconnect, attempts')
                               THEN "Waiting" ELSE "Ended",
                     !.attempts = attempts', !.error = "none"]
  BY <1>5, Zenon DEF Outside!Failing
<1>7. QED
  BY <1>1, <1>2, <1>3, <1>4, <1>6

\* Every step of the stream is a step of its view or is unseen.
LEMMA StepSeen ==
    StreamInv /\ [Next]_vars => [Outside!Step(reconnect, View, View')]_View
<1> SUFFICES ASSUME StreamInv, [Next]_vars
             PROVE  [Outside!Step(reconnect, View, View')]_View
  OBVIOUS
<1> USE DEF StreamInv
<1>1. ASSUME UNCHANGED <<state, attempts>>,
             source.answer \notin {"Status", "End"} \/ state # "Streaming",
             source'.answer \notin {"Status", "End"} \/ state # "Streaming"
      PROVE  UNCHANGED View
  BY <1>1 DEF View
<1>2. CASE Resubscribe
  BY <1>2 DEF Resubscribe, Polling, Renew, NotReady, View, Outside!Step, Outside!Slept
<1>3. CASE Resubscribed
  BY <1>3 DEF Resubscribed, Polling, Renew, NotReady, AttemptsKept, View,
     Outside!Step, Outside!CameUp
<1>4. CASE ResubscribeFailed
  <2>1. View.state = "Resubscribing" /\ source.code \in Outside!Codes
    <3>1. source.code \in Statuses
      BY <1>4 DEF ResubscribeFailed, TypeOK, Answers, WaitingAnswers,
         ConnectingAnswers, StreamingAnswers, NotReady, Elapsed, Connected, Refused,
         Update, Status, EndOfStream
    <3>2. QED
      BY <1>4, <3>1, EventStreamAssumption DEF EventStreamAssumption,
         ResubscribeFailed, Polling, View, Codes, RetryableCodes, TerminalCodes,
         Outside!Codes, Outside!RetryableCodes, Outside!TerminalCodes
  <2>2. View' = Outside!Failing(reconnect, View, source.code)
    BY <1>4, FailSeen DEF ResubscribeFailed, Polling
  <2>3. QED
    BY <2>1, <2>2 DEF Outside!Step
<1>5. CASE Deliver
  BY <1>5 DEF Deliver, Polling, Renew, NotReady, View, Outside!Step, Outside!Heard
<1>6. CASE StreamFailed
  <2>1. PICK error : /\ Fail(error)
                     /\ View = [state |-> "Broken", attempts |-> attempts,
                                error |-> error]
    BY <1>6 DEF StreamFailed, Polling, View
  <2>2. View' = Outside!Failing(reconnect, View, error)
    BY <1>6, <2>1, FailSeen DEF StreamFailed, Polling
  <2>3. QED
    BY <2>1, <2>2 DEF Outside!Step
<1>7. CASE TimerFires \/ CallAnswered \/ StreamAnswers
  <2>1. PICK a \in Answers : Answer(a)
    BY <1>7, AnswersTyped DEF TimerFires, CallAnswered, StreamAnswers, Answer, Answers
  <2>2. UNCHANGED <<state, attempts>> /\ source' = a /\ source.answer = "NotReady"
    BY <2>1 DEF Answer, fields
  <2>3. CASE state = "Streaming" /\ a.answer \in {"Status", "End"}
    <3>1. PICK error \in Outside!StreamErrors :
            error = IF a.answer = "End" THEN Closed ELSE a.code
      <4>1. CASE a.answer = "End"
        BY <4>1 DEF Outside!StreamErrors, Closed, Outside!Closed
      <4>2. CASE a.answer = "Status"
        <5>1. a.code \in Statuses
          BY <2>1, <4>2 DEF Answers, WaitingAnswers, ConnectingAnswers,
             StreamingAnswers, Elapsed, Connected, Refused, Update, Status, EndOfStream
        <5>2. QED
          BY <4>2, <5>1, EventStreamAssumption DEF EventStreamAssumption,
             Codes, RetryableCodes, TerminalCodes, Outside!StreamErrors,
             Outside!Codes, Outside!RetryableCodes, Outside!TerminalCodes
      <4>3. QED
        BY <2>3, <4>1, <4>2
    <3>2. View = [state |-> "Streaming", attempts |-> attempts, error |-> "none"]
      BY <2>2, <2>3 DEF View
    <3>3. View' = [state |-> "Broken", attempts |-> attempts, error |-> error]
      BY <2>2, <2>3, <3>1 DEF View
    <3>4. View.state = "Streaming"
      BY <3>2
    <3>5. Outside!Broke(View, error) =
            [state |-> "Broken", attempts |-> attempts, error |-> error]
      <4>1. Outside!Broke(View, error) = [View EXCEPT !.state = "Broken", !.error = error]
        BY DEF Outside!Broke
      <4>2. QED
        BY <3>2, <4>1
    <3>6. QED
      BY <3>3, <3>4, <3>5 DEF Outside!Step
  <2>4. CASE state # "Streaming" \/ a.answer \notin {"Status", "End"}
    BY <1>1, <2>2, <2>4
  <2>5. QED
    BY <2>3, <2>4
<1>8. CASE SkipUpdate \/ HoldBack
  BY <1>1, <1>8 DEF SkipUpdate, HoldBack, Polling, Renew, NotReady, fields
<1>9. CASE \/ CallNext \/ PollAgain \/ DropNext \/ PollEnded \/ PollPending
           \/ UNCHANGED vars
  BY <1>9 DEF CallNext, PollAgain, DropNext, PollEnded, PollPending, vars, fields, View
<1>10. QED
  BY <1>2, <1>3, <1>4, <1>5, <1>6, <1>7, <1>8, <1>9 DEF Next, ClientStep, PollNext

\* Whatever happens inside poll_next, the stream breaks, sleeps, tries again and
\* ends from outside as StreamView says; attempts starts over with an event only.
THEOREM SeenAsAView == Spec => SeenFromOutside
<1>1. Init => View = Outside!NewView
  BY DEF Init, NotReady, View, Outside!NewView
<1>2. QED
  BY <1>1, InitInv, StepInv, StepSeen, PTL DEF Spec, SeenFromOutside

-----------------------------------------------------------------------------
(* The delays.  While the stream is down, or up again with nothing         *)
(* delivered, delay is the interval of the attempts counted so far; when   *)
(* an event came, or none was ever needed, no attempt is counted.          *)

BackoffInv ==
    /\ state \in {"Waiting", "Connecting"} => delay = Interval(reconnect, attempts)
    /\ state = "Streaming" =>
         IF ret.item = "Reconnected" THEN delay = Interval(reconnect, attempts)
         ELSE attempts = 0

BackoffStep ==
    (state' = "Waiting" /\ state # "Waiting" /\ attempts' # 0) =>
      IF state = "Connecting" \/ ret.item = "Reconnected"
      THEN reconnect.multiplier.num >= 0 => delay' >= delay
      ELSE delay' = Lesser(reconnect.initial_interval, reconnect.max_interval)

LEMMA FailBacksOff ==
    ASSUME StreamInv, BackoffInv, state \in {"Streaming", "Connecting"},
           NEW error, Fail(error)
    PROVE  BackoffInv' /\ BackoffStep
<1>1. CASE MayRetry(error, attempts') /\ state' = "Waiting"
           /\ delay' = Interval(reconnect, attempts')
  <2>1. reconnect # NoReconnect /\ reconnect' = reconnect
    BY <1>1 DEF Fail, MayRetry
  <2>2. PICK policy : policy = reconnect /\ IsPolicy(policy)
    BY <2>1, EventStreamAssumption DEF StreamInv, TypeOK, IsPolicy
  <2>3. attempts' = Bump(attempts) /\ attempts \in 0 .. U32Size - 1 /\ U32Size \in Nat
        /\ U32Size > 1
    BY <2>1, EventStreamAssumption DEF Fail, StreamInv, TypeOK
  <2>4. attempts' # 0 => attempts' = attempts + 1
    <3>1. attempts + 1 < U32Size \/ attempts + 1 = U32Size
      BY <2>3
    <3>2. attempts + 1 = U32Size => attempts' = 0
      BY <2>3 DEF Bump
    <3>3. QED
      BY <2>3, <3>1, <3>2, BumpTyped
  <2>5. BackoffInv'
    <3>1. delay' = Interval(reconnect', attempts')
      BY <1>1, <2>1
    <3>2. QED
      BY <1>1, <3>1 DEF BackoffInv
  <2>6. ASSUME attempts' # 0, state = "Connecting" \/ ret.item = "Reconnected",
               reconnect.multiplier.num >= 0
        PROVE  delay' >= delay
    <3>1. PICK n \in Nat, max \in Nat : n = attempts /\ max = policy.max_interval
      BY <2>2, <2>3 DEF IsPolicy
    <3>2. delay = Interval(policy, n) /\ delay' = Interval(policy, n + 1)
      BY <1>1, <2>2, <2>4, <2>6, <3>1 DEF BackoffInv
    <3>3. Interval(policy, n) \in 0 .. max /\ Interval(policy, n + 1) \in 0 .. max
      BY <2>2, <3>1, IntervalBounded
    <3>4. PICK a \in Nat, b \in Nat : a = delay /\ b = delay'
      BY <3>2, <3>3
    <3>5. a <= b
      BY <2>2, <2>6, <3>2, <3>4, IntervalGrows
    <3>6. QED
      BY <3>4, <3>5
  <2>7. ASSUME attempts' # 0, ~ (state = "Connecting" \/ ret.item = "Reconnected")
        PROVE  delay' = Lesser(reconnect.initial_interval, reconnect.max_interval)
    <3>1. attempts' = 1
      BY <2>4, <2>7 DEF BackoffInv
    <3>2. QED
      BY <1>1, <2>2, <3>1, FirstInterval
  <2>8. QED
    BY <2>5, <2>6, <2>7 DEF BackoffStep
<1>2. CASE state' = "Ended"
  BY <1>2 DEF BackoffInv, BackoffStep
<1>3. QED
  BY <1>1, <1>2 DEF Fail

LEMMA StepBacksOff ==
    ASSUME StreamInv, BackoffInv, [Next]_vars
    PROVE  BackoffInv' /\ [BackoffStep]_vars
<1>1. ASSUME UNCHANGED fields, ret' = ret \/ state = "Ended"
      PROVE  BackoffInv' /\ [BackoffStep]_vars
  <2>1. UNCHANGED <<reconnect, state, delay, attempts>>
    BY <1>1 DEF fields
  <2>2. Interval(reconnect, attempts)' = Interval(reconnect, attempts)
    BY <2>1
  <2>3. QED
    BY <1>1, <2>1, <2>2 DEF BackoffInv, BackoffStep
<1>2. CASE CallNext \/ PollAgain \/ DropNext \/ PollPending
  BY <1>1, <1>2 DEF CallNext, PollAgain, DropNext, PollPending
<1>3. CASE PollEnded
  BY <1>1, <1>3 DEF PollEnded, Polling
<1>4. CASE Resubscribe
  <2>1. state = "Waiting" /\ state' = "Connecting" /\ UNCHANGED <<reconnect, delay, attempts>>
    BY <1>4 DEF Resubscribe, Polling
  <2>2. Interval(reconnect, attempts)' = Interval(reconnect, attempts)
    BY <2>1
  <2>3. QED
    BY <2>1, <2>2 DEF BackoffInv, BackoffStep
<1>5. CASE Resubscribed
  <2>1. /\ state = "Connecting" /\ state' = "Streaming"
        /\ UNCHANGED <<reconnect, delay, attempts>>
        /\ ret' = Reconnected(attempts)
    BY <1>5 DEF Resubscribed, Polling, AttemptsKept, Announce, Return
  <2>2. Interval(reconnect, attempts)' = Interval(reconnect, attempts)
    BY <2>1
  <2>3. QED
    BY <2>1, <2>2 DEF BackoffInv, BackoffStep, Reconnected
<1>6. CASE ResubscribeFailed
  BY <1>6, FailBacksOff DEF ResubscribeFailed, Polling
<1>7. CASE SkipUpdate \/ HoldBack
  BY <1>1, <1>7 DEF SkipUpdate, HoldBack, NextUpdate, Continue
<1>8. CASE Deliver
  <2>1. state' = "Streaming" /\ attempts' = 0 /\ ret'.item = "Event"
    BY <1>8 DEF Deliver, Polling, Return, EventItem
  <2>2. QED
    BY <2>1 DEF BackoffInv, BackoffStep
<1>9. CASE StreamFailed
  BY <1>9, FailBacksOff DEF StreamFailed, Polling
<1>10. CASE TimerFires \/ CallAnswered \/ StreamAnswers
  BY <1>1, <1>10 DEF TimerFires, CallAnswered, StreamAnswers, Answer
<1>11. CASE UNCHANGED vars
  BY <1>1, <1>11 DEF vars, fields
<1>12. QED
  BY <1>2, <1>3, <1>4, <1>5, <1>6, <1>7, <1>8, <1>9, <1>10, <1>11
  DEF Next, ClientStep, PollNext

\* BackoffNeverShrinks, for every policy: whatever fraction the factor is, the
\* first retry after an event waits the initial interval, and unless the factor
\* is negative the delays never shrink, however far the attempts go.
THEOREM BackoffGrows == Spec => BackoffNeverShrinks
<1>1. Init => BackoffInv
  BY DEF Init, BackoffInv, Opened
<1>2. StreamInv /\ BackoffInv /\ [Next]_vars => BackoffInv' /\ [BackoffStep]_vars
  BY StepBacksOff
<1>3. BackoffNeverShrinks <=> [][BackoffStep]_vars
  BY PTL DEF BackoffNeverShrinks, BackoffStep
<1>4. QED
  BY <1>1, <1>2, <1>3, Invariance, PTL DEF Spec
=============================================================================

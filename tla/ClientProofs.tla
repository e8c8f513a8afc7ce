----------------------------- MODULE ClientProofs -----------------------------
(***************************************************************************)
(* Proofs about Client, for every set of streams, connectors and regions,  *)
(* every limit of the server and any number of troubles.                   *)
(***************************************************************************)
EXTENDS Client, TLAPS

States ==
    {"Subscribing", "Failed", "Streaming", "Broken", "Waiting", "Resubscribing", "Ended"}

\* A stream subscribe was called for.
Calls ==
    [state : States, attempts : Nat,
     error : StreamErrors \union {"none", "Region", "Filter"},
     feed : Feeds, region : RegionValues, filtersOk : BOOLEAN]

\* The server never sees a call that subscribe refused itself.
Sound(stream) == stream.region.feed = stream.feed /\ stream.filtersOk

\* The one request a stream ever sends.
RequestOf(s) ==
    [stream |-> s, service |-> streams[s].feed, token |-> XToken(connector),
     region |-> IntoProto(streams[s].region), filtersOk |-> streams[s].filtersOk]

ClientTypeOK == streams \in [Streams -> Calls \union {Idle}]

\* The inductive invariant.  A token that cannot be sent leaves no client, so
\* no stream; a stream that is not over is sound; and what the server was sent
\* is the request of a sound stream, which is what it still would send.
ClientInv ==
    /\ ClientTypeOK
    /\ client = "built" => connector.token # "not ascii"
    /\ client # "built" => \A s \in Streams : streams[s].state = "Idle"
    /\ \A s \in Streams : streams[s].state \notin {"Idle", "Failed"} => Sound(streams[s])
    /\ \A r \in received :
         /\ r.stream \in Streams
         /\ r = RequestOf(r.stream)
         /\ streams[r.stream].state # "Idle"
         /\ Sound(streams[r.stream])

-----------------------------------------------------------------------------
LEMMA CallFields ==
    ASSUME NEW c \in Calls
    PROVE  /\ c.state \in States /\ c.attempts \in Nat /\ c.feed \in Feeds
           /\ c.error \in StreamErrors \union {"none", "Region", "Filter"}
           /\ c.region \in RegionValues /\ c.filtersOk \in BOOLEAN
  BY DEF Calls

\* A stream that was called for is told from one that was not by its state.
LEMMA CalledFor ==
    ASSUME ClientTypeOK, NEW s \in Streams
    PROVE  /\ streams[s].state # "Idle" => streams[s] \in Calls
           /\ streams[s].state = "Idle" => streams[s] = Idle
<1>1. Idle.state = "Idle" /\ "Idle" \notin States
  BY DEF Idle, States
<1>2. streams[s] \in Calls \union {Idle}
  BY DEF ClientTypeOK
<1>3. QED
  BY <1>1, <1>2, CallFields

\* What may become of a call: its request stays what it was.
Continues(old, new) ==
    /\ new \in Calls
    /\ new.feed = old.feed /\ new.region = old.region /\ new.filtersOk = old.filtersOk

LEMMA FailingContinues ==
    ASSUME NEW c \in Calls, NEW policy, NEW e
    PROVE  /\ Continues(c, Failing(policy, c, e))
           /\ Failing(policy, c, e).state \in {"Waiting", "Ended"}
<1>1. PICK n \in Nat, st \in {"Waiting", "Ended"} :
        Failing(policy, c, e) =
          [c EXCEPT !.state = st, !.attempts = n, !.error = "none"]
  <2>1. PICK n : n = IF policy = NoReconnect THEN c.attempts
                     ELSE (c.attempts + 1) % U32Size
    OBVIOUS
  <2>2. n \in Nat
    BY <2>1, CallFields, ClientAssumption DEF ClientAssumption
  <2>3. Failing(policy, c, e) =
          [c EXCEPT !.state = IF policy # NoReconnect /\ Retryable(e)
                                 /\ ~Exhausted(policy, n)
                              THEN "Waiting" ELSE "Ended",
                    !.attempts = n, !.error = "none"]
    BY <2>1, Zenon DEF Failing
  <2>4. QED
    BY <2>2, <2>3
<1>2. QED
  BY <1>1 DEF Continues, Calls, States

LEMMA ViewsContinue ==
    ASSUME NEW c \in Calls, NEW e \in StreamErrors
    PROVE  /\ Continues(c, Slept(c)) /\ Slept(c).state = "Resubscribing"
           /\ Continues(c, CameUp(c)) /\ CameUp(c).state = "Streaming"
           /\ Continues(c, Heard(c)) /\ Heard(c).state = c.state
           /\ Continues(c, [c EXCEPT !.state = "Failed", !.error = e])
           /\ [c EXCEPT !.state = "Failed", !.error = e].state = "Failed"
<1>1. /\ Continues(c, Slept(c)) /\ Slept(c).state = "Resubscribing"
      /\ Continues(c, CameUp(c)) /\ CameUp(c).state = "Streaming"
  BY DEF Slept, CameUp, Continues, Calls, States
<1>2. Continues(c, Heard(c)) /\ Heard(c).state = c.state
  BY DEF Heard, Continues, Calls, States
<1>3. /\ Continues(c, [c EXCEPT !.state = "Failed", !.error = e])
      /\ [c EXCEPT !.state = "Failed", !.error = e].state = "Failed"
  BY DEF Continues, Calls, States
<1>4. QED
  BY <1>1, <1>2, <1>3

LEMMA BrokeContinues ==
    ASSUME NEW c \in Calls, NEW e \in StreamErrors
    PROVE  Continues(c, Broke(c, e)) /\ Broke(c, e).state = "Broken"
  BY DEF Broke, Continues, Calls, States

LEMMA SomeError == "Unavailable" \in StreamErrors /\ "ResourceExhausted" \in StreamErrors
  BY DEF StreamErrors, Codes, RetryableCodes

\* What the server says is a gRPC code.
LEMMA VerdictTyped ==
    ASSUME NEW s
    PROVE  Verdict(s) \in StreamErrors
  BY DEF Verdict, StreamErrors, Codes, RetryableCodes, TerminalCodes

\* A refused call is over, or the stream it was made in has failed.
LEMMA RefusedContinues ==
    ASSUME ClientTypeOK, NEW s \in Streams, streams[s].state # "Idle",
           NEW code \in StreamErrors, Refused(s, code)
    PROVE  \E new \in Calls :
             /\ streams' = [streams EXCEPT ![s] = new]
             /\ Continues(streams[s], new)
             /\ new.state # "Idle"
<1>1. streams[s] \in Calls
  BY CalledFor
<1>2. CASE streams[s].state = "Subscribing"
  <2>1. Become(s, [streams[s] EXCEPT !.state = "Failed", !.error = code])
    BY <1>2 DEF Refused
  <2>2. PICK new : new = [streams[s] EXCEPT !.state = "Failed", !.error = code]
    OBVIOUS
  <2>3. Continues(streams[s], new) /\ new.state = "Failed"
    BY <1>1, <2>2, ViewsContinue
  <2>4. streams' = [streams EXCEPT ![s] = new] /\ new \in Calls
    BY <2>1, <2>2, <2>3 DEF Become, Continues
  <2>5. QED
    BY <1>2, <2>3, <2>4
<1>3. CASE streams[s].state # "Subscribing"
  <2>1. Become(s, Failing(connector.reconnect, streams[s], code))
    BY <1>3 DEF Refused, Fails
  <2>2. QED
    BY <1>1, <1>3, <2>1, FailingContinues DEF Become, Continues
<1>4. QED
  BY <1>2, <1>3

-----------------------------------------------------------------------------
(* What a step does to the streams. *)

\* Nothing, or a call that was made goes on as the same call.
GoesOn(s) ==
    \/ streams'[s] = streams[s]
    \/ /\ streams[s].state \notin {"Idle", "Failed"}
       /\ Continues(streams[s], streams'[s])
       /\ streams'[s].state # "Idle"

\* A step that leaves client and connector alone, lets every call go on, and
\* sends at most the requests of calls that are not over.
LEMMA GoesOnInv ==
    ASSUME ClientInv, UNCHANGED <<connector, client>>,
           streams' \in [Streams -> Calls \union {Idle}], \A s \in Streams : GoesOn(s),
           \A r \in received' : r \in received \/ \E s \in Streams :
             r = RequestOf(s) /\ streams[s].state \notin {"Idle", "Failed"}
    PROVE  ClientInv'
<1>1. ASSUME NEW s \in Streams
      PROVE  /\ streams[s].state = "Idle" => streams'[s].state = "Idle"
             /\ streams[s].state # "Idle" => streams'[s].state # "Idle"
             /\ Sound(streams[s]) /\ streams[s].state # "Idle" => Sound(streams'[s])
             /\ streams[s].state # "Idle" => RequestOf(s)' = RequestOf(s)
  BY DEF GoesOn, Continues, Sound, RequestOf
<1>2. ASSUME NEW s \in Streams, streams'[s].state \notin {"Idle", "Failed"}
      PROVE  Sound(streams'[s])
  <2>1. streams[s].state \notin {"Idle", "Failed"}
    BY <1>2 DEF GoesOn
  <2>2. QED
    BY <1>1, <2>1 DEF ClientInv
<1>3. ASSUME NEW r \in received'
      PROVE  /\ r.stream \in Streams
             /\ r = RequestOf(r.stream)'
             /\ streams'[r.stream].state # "Idle"
             /\ Sound(streams'[r.stream])
  <2>1. /\ r.stream \in Streams
        /\ r = RequestOf(r.stream)
        /\ streams[r.stream].state # "Idle"
        /\ Sound(streams[r.stream])
    <3>1. ASSUME NEW s \in Streams, r = RequestOf(s),
                 streams[s].state \notin {"Idle", "Failed"}
          PROVE  r.stream = s /\ Sound(streams[s])
      BY <3>1 DEF RequestOf, ClientInv
    <3>2. QED
      BY <3>1 DEF ClientInv
  <2>2. QED
    BY <1>1, <2>1
<1>4. QED
  BY <1>1, <1>2, <1>3 DEF ClientInv, ClientTypeOK

\* One stream's call goes on.
LEMMA OneGoesOn ==
    ASSUME ClientTypeOK, NEW s \in Streams, streams[s].state \notin {"Idle", "Failed"},
           NEW new \in Calls, Continues(streams[s], new), new.state # "Idle",
           streams' = [streams EXCEPT ![s] = new]
    PROVE  /\ streams' \in [Streams -> Calls \union {Idle}]
           /\ \A t \in Streams : GoesOn(t)
<1>1. streams \in [Streams -> Calls \union {Idle}]
  BY DEF ClientTypeOK
<1>2. ASSUME NEW t \in Streams PROVE streams'[t] = IF t = s THEN new ELSE streams[t]
  BY <1>1
<1>3. QED
  BY <1>1, <1>2 DEF GoesOn

\* Every call, answer, sleep and break of a stream but its subscribe.
StreamStep(s) ==
    Retry(s) \/ Answered(s) \/ Unreachable(s) \/ Event(s) \/ OverShare(s) \/ StreamBreaks(s)

LEMMA StreamGoesOn ==
    ASSUME ClientInv, NEW s \in Streams, StreamStep(s)
    PROVE  /\ streams' \in [Streams -> Calls \union {Idle}]
           /\ \A t \in Streams : GoesOn(t)
           /\ streams[s].state \notin {"Idle", "Failed"}
           /\ streams'[s].state # "Idle"
<1> USE DEF ClientInv
<1>1. streams[s].state \notin {"Idle", "Failed"}
  BY DEF StreamStep, Retry, Answered, Unreachable, InFlight, Event, OverShare, StreamBreaks
<1>2. streams[s] \in Calls
  BY <1>1, CalledFor
<1>3. ASSUME NEW new \in Calls, Continues(streams[s], new), new.state # "Idle",
             Become(s, new)
      PROVE  /\ streams' \in [Streams -> Calls \union {Idle}]
             /\ \A t \in Streams : GoesOn(t)
             /\ streams'[s].state # "Idle"
  BY <1>1, <1>3, OneGoesOn DEF Become, ClientTypeOK
<1>4. CASE Retry(s)
  <2>1. Become(s, Slept(streams[s])) /\ streams[s].state = "Waiting"
    BY <1>4 DEF Retry
  <2>2. QED
    BY <1>1, <1>2, <1>3, <2>1, ViewsContinue, SomeError DEF Continues
<1>5. ASSUME NEW code \in StreamErrors, Refused(s, code)
      PROVE  /\ streams' \in [Streams -> Calls \union {Idle}]
             /\ \A t \in Streams : GoesOn(t)
             /\ streams'[s].state # "Idle"
  <2>1. PICK new \in Calls :
             /\ streams' = [streams EXCEPT ![s] = new]
             /\ Continues(streams[s], new)
             /\ new.state # "Idle"
    BY <1>1, <1>5, RefusedContinues
  <2>2. QED
    BY <1>3, <2>1 DEF Become
<1>6. CASE Answered(s)
  <2>1. CASE Become(s, CameUp(streams[s]))
    BY <1>1, <1>2, <1>3, <2>1, ViewsContinue, SomeError DEF Continues
  <2>2. CASE Refused(s, Verdict(s))
    BY <1>1, <1>5, <2>2, VerdictTyped
  <2>3. Become(s, CameUp(streams[s])) \/ Refused(s, Verdict(s))
    BY <1>6, Zenon DEF Answered
  <2>4. QED
    BY <2>1, <2>2, <2>3
<1>7. CASE Unreachable(s)
  <2>1. Refused(s, "Unavailable") /\ "Unavailable" \in StreamErrors
    BY <1>7, SomeError DEF Unreachable
  <2>2. QED
    BY <1>1, <1>5, <2>1
<1>8. CASE Event(s)
  <2>1. Become(s, Heard(streams[s])) /\ streams[s].state = "Streaming"
    BY <1>8 DEF Event
  <2>2. QED
    BY <1>1, <1>2, <1>3, <2>1, ViewsContinue, SomeError DEF Continues
<1>9. CASE OverShare(s)
  <2>1. /\ Become(s, Broke(streams[s], "ResourceExhausted"))
        /\ streams[s].state = "Streaming"
    BY <1>9, SomeError DEF OverShare
  <2>2. QED
    BY <1>1, <1>2, <1>3, <2>1, BrokeContinues, SomeError DEF Continues
<1>10. CASE StreamBreaks(s)
  <2>1. /\ Become(s, Failing(connector.reconnect, streams[s], streams[s].error))
        /\ streams[s].state = "Broken"
    BY <1>10 DEF StreamBreaks, Fails
  <2>2. PICK new : new = Failing(connector.reconnect, streams[s], streams[s].error)
    OBVIOUS
  <2>3. Continues(streams[s], new) /\ new.state \in {"Waiting", "Ended"}
    BY <1>2, <2>2, FailingContinues
  <2>4. QED
    BY <1>1, <1>3, <2>1, <2>2, <2>3 DEF Continues
<1>11. QED
  BY <1>1, <1>4, <1>6, <1>7, <1>8, <1>9, <1>10 DEF StreamStep

-----------------------------------------------------------------------------
(* Every step preserves the invariant. *)

\* A step of one stream sends its request or none.
LEMMA StreamStepInv ==
    ASSUME ClientInv, NEW s \in Streams, StreamStep(s)
    PROVE  ClientInv'
<1>1. UNCHANGED <<connector, client>>
  BY DEF StreamStep, Retry, Answered, Unreachable, Event, OverShare, StreamBreaks
<1>2. ASSUME NEW r \in received', r \notin received
      PROVE  r = RequestOf(s)
  BY <1>2 DEF StreamStep, Retry, Answered, Unreachable, Event, OverShare, StreamBreaks,
     RequestOf
<1>3. QED
  BY <1>1, <1>2, StreamGoesOn, GoesOnInv

\* The connection breaks under every stream that is up.
LEMMA OutageGoesOn ==
    ASSUME ClientTypeOK, Outage
    PROVE  /\ streams' \in [Streams -> Calls \union {Idle}]
           /\ \A s \in Streams : GoesOn(s)
<1>1. ASSUME NEW s \in Streams
      PROVE  /\ streams'[s] = IF streams[s].state = "Streaming"
                              THEN Broke(streams[s], "Unavailable") ELSE streams[s]
             /\ streams'[s] \in Calls \union {Idle}
             /\ GoesOn(s)
  <2>1. streams'[s] = IF streams[s].state = "Streaming"
                      THEN Broke(streams[s], "Unavailable") ELSE streams[s]
    BY DEF Outage, Live
  <2>2. CASE streams[s].state = "Streaming"
    <3>1. streams[s] \in Calls
      BY <2>2, CalledFor
    <3>2. /\ Continues(streams[s], streams'[s])
          /\ streams'[s].state = "Broken"
      BY <2>1, <2>2, <3>1, BrokeContinues, SomeError
    <3>3. QED
      BY <2>1, <2>2, <3>2 DEF GoesOn, Continues
  <2>3. CASE streams[s].state # "Streaming"
    BY <2>1, <2>3 DEF GoesOn, ClientTypeOK
  <2>4. QED
    BY <2>1, <2>2, <2>3
<1>2. streams' = [s \in Streams |-> streams'[s]]
  BY DEF Outage
<1>3. QED
  BY <1>1, <1>2

\* subscribe checks the request before a stream exists.
LEMMA SubscribeInv ==
    ASSUME ClientInv, NEW s \in Streams, Subscribe(s)
    PROVE  ClientInv'
<1>1. PICK feed \in Feeds, region \in Asked, filtersOk \in BOOLEAN :
      \E error, new :
        /\ error = SubscribeError(feed, region, filtersOk)
        /\ new = [state |-> IF error = "none" THEN "Subscribing" ELSE "Failed",
                  attempts |-> 0, error |-> error,
                  feed |-> feed, region |-> region, filtersOk |-> filtersOk]
        /\ Become(s, new)
  BY Zenon DEF Subscribe
<1>2. PICK error, new :
        /\ error = SubscribeError(feed, region, filtersOk)
        /\ new = [state |-> IF error = "none" THEN "Subscribing" ELSE "Failed",
                  attempts |-> 0, error |-> error,
                  feed |-> feed, region |-> region, filtersOk |-> filtersOk]
        /\ Become(s, new)
  BY <1>1, Zenon
<1>3. /\ client = "built" /\ streams[s].state = "Idle"
      /\ UNCHANGED <<connector, client, received>>
  BY DEF Subscribe
<1>4. error \in {"none", "Region", "Filter"} /\ region \in RegionValues
  BY <1>2, ClientAssumption DEF ClientAssumption, SubscribeError
<1>5. new \in Calls
  BY <1>2, <1>4 DEF Calls, States
<1>6. new.state # "Failed" => Sound(new)
  BY <1>2 DEF Sound, SubscribeError
<1>7. /\ streams' \in [Streams -> Calls \union {Idle}]
      /\ \A t \in Streams : streams'[t] = IF t = s THEN new ELSE streams[t]
  BY <1>2, <1>5 DEF Become, ClientInv, ClientTypeOK
<1>8. \A t \in Streams : streams'[t].state \notin {"Idle", "Failed"} => Sound(streams'[t])
  BY <1>6, <1>7 DEF ClientInv
<1>9. ASSUME NEW r \in received
      PROVE  /\ r.stream \in Streams
             /\ r = RequestOf(r.stream)'
             /\ streams'[r.stream].state # "Idle"
             /\ Sound(streams'[r.stream])
  <2>1. r.stream \in Streams /\ r.stream # s /\ r = RequestOf(r.stream)
    BY <1>3 DEF ClientInv
  <2>2. streams'[r.stream] = streams[r.stream]
    BY <1>7, <2>1
  <2>3. RequestOf(r.stream)' = RequestOf(r.stream)
    BY <1>3, <2>2 DEF RequestOf
  <2>4. QED
    BY <2>1, <2>2, <2>3 DEF ClientInv
<1>10. QED
  BY <1>3, <1>7, <1>8, <1>9 DEF ClientInv, ClientTypeOK

\* A client is built of a token that can be sent, whichever way it connects.
LEMMA ConnectInv ==
    ASSUME ClientInv, Connect \/ ConnectLazy
    PROVE  ClientInv'
<1>1. UNCHANGED <<connector, streams, received>> /\ client = "none"
  BY DEF Connect, ConnectLazy
<1>2. client' = "built" => connector.token # "not ascii"
  <2>1. \A e : EndpointError(connector) # "none" => EndpointError(connector) # "built"
    BY DEF EndpointError
  <2>2. Built(TokenError(connector)) = "built" => connector.token # "not ascii"
    BY DEF Built, TokenError
  <2>3. QED
    BY <2>1, <2>2 DEF Connect, ConnectLazy, ConnectResult, ConnectLazyResult
<1>3. \A s \in Streams : streams[s].state = "Idle"
  BY <1>1 DEF ClientInv
<1>4. \A r \in received : RequestOf(r.stream)' = RequestOf(r.stream)
  BY <1>1 DEF RequestOf
<1>5. QED
  BY <1>1, <1>2, <1>3, <1>4 DEF ClientInv, ClientTypeOK

LEMMA ClientInitInv == Init => ClientInv
<1> SUFFICES ASSUME Init PROVE ClientInv
  OBVIOUS
<1>1. \A s \in Streams : streams[s] = Idle /\ streams[s].state = "Idle"
  BY DEF Init, Idle
<1>2. ClientTypeOK
  BY DEF Init, ClientTypeOK
<1>3. QED
  BY <1>1, <1>2 DEF Init, ClientInv

LEMMA ClientStepInv ==
    ASSUME ClientInv, [Next]_vars
    PROVE  ClientInv'
<1>1. CASE Connect \/ ConnectLazy
  BY <1>1, ConnectInv
<1>2. CASE Outage
  <2>1. /\ streams' \in [Streams -> Calls \union {Idle}]
        /\ \A s \in Streams : GoesOn(s)
    BY <1>2, OutageGoesOn DEF ClientInv
  <2>2. UNCHANGED <<connector, client, received>>
    BY <1>2 DEF Outage
  <2>3. QED
    BY <2>1, <2>2, GoesOnInv
<1>3. CASE Recovers \/ CooloffEnds \/ SessionExpires
           \/ (\E feed \in Feeds : Revoke(feed)) \/ UNCHANGED vars
  <2>1. UNCHANGED <<connector, client, streams, received>>
    BY <1>3 DEF Recovers, CooloffEnds, SessionExpires, Revoke, vars
  <2>2. /\ streams' \in [Streams -> Calls \union {Idle}]
        /\ \A s \in Streams : GoesOn(s)
    BY <2>1 DEF GoesOn, ClientInv, ClientTypeOK
  <2>3. QED
    BY <2>1, <2>2, GoesOnInv
<1>4. ASSUME NEW s \in Streams, Subscribe(s) \/ StreamStep(s)
      PROVE  ClientInv'
  BY <1>4, SubscribeInv, StreamStepInv
<1>5. QED
  BY <1>1, <1>2, <1>3, <1>4 DEF Next, StreamStep

\* In every reachable state the server was sent only what the sound streams
\* there are would send again.
THEOREM ClientInvariance == Spec => []ClientInv
<1>1. ClientInv /\ [Next]_vars => ClientInv'
  BY ClientStepInv
<1>2. QED
  BY <1>1, ClientInitInv, PTL DEF Spec

\* Whatever is asked of a client, and however often its streams are cut off and
\* resubscribe, the server gets only checked requests, of each stream the same.
THEOREM RequestsAreSound == Spec => []OnlySoundRequests
<1>1. ClientInv => OnlySoundRequests
  <2> SUFFICES ASSUME ClientInv PROVE OnlySoundRequests
    OBVIOUS
  <2>1. ASSUME NEW r \in received
        PROVE  /\ r = RequestOf(r.stream)
               /\ DOMAIN r.region = {IF r.service = "Harmonic" THEN "harmonic_region"
                                     ELSE "bam_region"}
               /\ r.filtersOk
               /\ "not ascii" \notin r.token
    <3>1. PICK s \in Streams :
            /\ s = r.stream /\ r = RequestOf(s)
            /\ streams[s].state # "Idle" /\ Sound(streams[s])
      BY DEF ClientInv
    <3>2. connector.token # "not ascii"
      BY <3>1 DEF ClientInv
    <3>3. /\ r.service = streams[s].feed /\ r.filtersOk = streams[s].filtersOk
          /\ r.region = IntoProto(streams[s].region) /\ r.token = XToken(connector)
      BY <3>1 DEF RequestOf
    <3>4. DOMAIN r.region = {IF r.service = "Harmonic" THEN "harmonic_region"
                             ELSE "bam_region"}
      BY <3>1, <3>3 DEF IntoProto, Sound
    <3>5. QED
      BY <3>1, <3>2, <3>3, <3>4 DEF Sound, XToken
  <2>2. QED
    BY <2>1 DEF OnlySoundRequests
<1>2. QED
  BY <1>1, ClientInvariance, PTL
=============================================================================

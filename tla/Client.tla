-------------------------------- MODULE Client --------------------------------
(***************************************************************************)
(* Connector and Client of connect.rs: how a client is built, and what the *)
(* streams of one client do to each other.                                 *)
(*                                                                         *)
(* A program builds a Connector, gets a Client, and calls subscribe for    *)
(* some streams.  All calls and streams share one HTTP/2 connection, which *)
(* tonic makes again when it is gone and a call needs it.  The server, as  *)
(* preconfs.proto and the comments of reconnect.rs and error.rs have it,   *)
(* checks token, feed and region, and limits an account's streams;         *)
(* a stream whose connection broke counts until the server notices.  An    *)
(* account over its coverage share loses a stream and is refused for a     *)
(* cooloff period.  A feed may be revoked, and is then refused for good.   *)
(*                                                                         *)
(* A stream that came up is seen from outside, as a view of StreamView.    *)
(***************************************************************************)
EXTENDS StreamView, Regions, FiniteSets

CONSTANTS
    Streams,      \* subscribe calls of the program, each made once
    Connectors,   \* the settings a program may choose
    Asked,        \* the regions a program passes to subscribe
    Served,       \* the regions the server serves
    StreamLimit,  \* concurrent streams of one account
    MaxTroubles   \* how often the network goes down, an account is over its share
                  \* or a feed is revoked

ASSUME ClientAssumption ==
    /\ Asked \subseteq RegionValues /\ Served \subseteq RegionValues
    /\ StreamLimit \in Nat /\ MaxTroubles \in Nat
    /\ U32Size \in Nat \ {0}

VARIABLES
    connector,  \* its settings: uri, tls, token and policy
    client,     \* "none", "built", or the ConnectError
    streams,    \* for each stream its state, feed, region, attempts and error
    network,    \* whether the server can be reached
    troubles,   \* troubles so far
    stale,      \* streams that are gone and the server still counts
    cooloff,    \* whether the server refuses the account, over its share
    revoked,    \* the feeds that the token is no longer entitled to
    received    \* every subscribe the server was sent: stream, service, region

\* What is not the program's: the network and the server.
world == <<network, troubles, stale, cooloff, revoked>>

vars == <<connector, client, streams, world, received>>

-----------------------------------------------------------------------------
(* Building the client. *)

\* endpoint(): the settings it refuses, before anything is sent.
EndpointError(c) ==
    CASE c.uri = "invalid" -> "Uri"
      [] c.uri = "https" /\ c.tls = "bad" -> "Tls"
      [] OTHER -> "none"

\* client(): the token must be ascii.
TokenError(c) == IF c.token = "not ascii" THEN "Token" ELSE "none"

\* The interceptor: the token goes with every call, if there is one.
XToken(c) == IF c.token = "none" THEN {} ELSE {c.token}

Built(error) == IF error = "none" THEN "built" ELSE error

\* connect(): the token is looked at only after the connection was made.
ConnectResult(c, reachable) ==
    CASE EndpointError(c) # "none" -> EndpointError(c)
      [] ~reachable -> "Transport"
      [] OTHER -> Built(TokenError(c))

ConnectLazyResult(c) ==
    IF EndpointError(c) # "none" THEN EndpointError(c) ELSE Built(TokenError(c))

Connect ==
    /\ client = "none"
    /\ client' = ConnectResult(connector, network)
    /\ UNCHANGED <<connector, streams, world, received>>

ConnectLazy ==
    /\ client = "none"
    /\ client' = ConnectLazyResult(connector)
    /\ UNCHANGED <<connector, streams, world, received>>

-----------------------------------------------------------------------------
(* Subscribing. *)

Idle == [state |-> "Idle", attempts |-> 0, error |-> "none"]

Init ==
    /\ connector \in Connectors
    /\ client = "none"
    /\ streams = [s \in Streams |-> Idle]
    /\ network = TRUE
    /\ troubles = 0
    /\ stale = 0
    /\ cooloff = FALSE
    /\ revoked = {}
    /\ received = {}

Become(s, stream) == streams' = [streams EXCEPT ![s] = stream]

\* The checks of subscribe, in order; the filters' is into_request of Filters.
SubscribeError_AnyFeed(feed, region, filtersOk) ==
    IF ~filtersOk THEN "Filter" ELSE "none"

SubscribeError(feed, region, filtersOk) ==
    IF region.feed # feed THEN "Region"
    ELSE IF ~filtersOk THEN "Filter"
    ELSE "none"

\* subscribe_harmonic or subscribe_bam: refused here, or a call is in flight.
Subscribe(s) ==
    /\ client = "built"
    /\ streams[s].state = "Idle"
    /\ \E feed \in Feeds, region \in Asked, filtersOk \in BOOLEAN :
         LET error == SubscribeError(feed, region, filtersOk)
         IN  Become(s, [state |-> IF error = "none" THEN "Subscribing" ELSE "Failed",
                        attempts |-> 0, error |-> error,
                        feed |-> feed, region |-> region, filtersOk |-> filtersOk])
    /\ UNCHANGED <<connector, client, world, received>>

\* fail() of EventStream.
Fails(s, code) == Become(s, Failing(connector.reconnect, streams[s], code))

\* A refused call ends the first subscribe; inside a stream it is a failure.
Refused(s, code) ==
    IF streams[s].state = "Subscribing"
    THEN Become(s, [streams[s] EXCEPT !.state = "Failed", !.error = code])
    ELSE Fails(s, code)

\* The sleep ends: the stream subscribes again with the request it was made of.
Retry(s) ==
    /\ streams[s].state = "Waiting"
    /\ Become(s, Slept(streams[s]))
    /\ UNCHANGED <<connector, client, world, received>>

InFlight(s) == streams[s].state \in {"Subscribing", "Resubscribing"}

Live == {s \in Streams : streams[s].state = "Streaming"}

\* What the server says to the call of stream s.
Verdict(s) ==
    CASE XToken(connector) # {"good"} -> "Unauthenticated"
      [] streams[s].feed \in revoked -> "PermissionDenied"
      [] streams[s].region \notin Served \/ streams[s].region.feed # streams[s].feed ->
           "InvalidArgument"
      [] cooloff \/ Cardinality(Live) + stale >= StreamLimit -> "ResourceExhausted"
      [] OTHER -> "Ok"

Answered(s) ==
    /\ InFlight(s)
    /\ network
    /\ received' = received \union
         {[stream |-> s, service |-> streams[s].feed, token |-> XToken(connector),
           region |-> IntoProto(streams[s].region), filtersOk |-> streams[s].filtersOk]}
    /\ IF Verdict(s) = "Ok"
       THEN Become(s, CameUp(streams[s]))
       ELSE Refused(s, Verdict(s))
    /\ UNCHANGED <<connector, client, world>>

Unreachable(s) ==
    /\ InFlight(s)
    /\ ~network
    /\ Refused(s, "Unavailable")
    /\ UNCHANGED <<connector, client, world, received>>

\* An event arrives: the budget starts over.
Event(s) ==
    /\ network /\ streams[s].state = "Streaming"
    /\ Become(s, Heard(streams[s]))
    /\ UNCHANGED <<connector, client, world, received>>

-----------------------------------------------------------------------------
(* The network and the server. *)

\* The connection breaks, and with it every stream of the client, each at the
\* next poll of its raw stream; the server does not know yet.
Outage ==
    /\ network /\ troubles < MaxTroubles
    /\ network' = FALSE
    /\ troubles' = troubles + 1
    /\ streams' = [s \in Streams |->
         IF s \in Live
         THEN Broke(streams[s], "Unavailable")
         ELSE streams[s]]
    /\ stale' = stale + Cardinality(Live)
    /\ UNCHANGED <<connector, client, cooloff, revoked, received>>

Recovers ==
    /\ ~network
    /\ network' = TRUE
    /\ UNCHANGED <<connector, client, streams, troubles, stale, cooloff, revoked, received>>

\* The account stays over its coverage share: the server ends the stream, and
\* refuses the account for a while.
OverShare(s) ==
    /\ network /\ troubles < MaxTroubles
    /\ streams[s].state = "Streaming"
    /\ troubles' = troubles + 1
    /\ Become(s, Broke(streams[s], "ResourceExhausted"))
    /\ cooloff' = TRUE
    /\ UNCHANGED <<connector, client, network, stale, revoked, received>>

CooloffEnds ==
    /\ cooloff
    /\ cooloff' = FALSE
    /\ UNCHANGED <<connector, client, streams, network, troubles, stale, revoked, received>>

\* The token loses its right to a feed; a stream that is up is left alone.
Revoke(feed) ==
    /\ troubles < MaxTroubles
    /\ feed \notin revoked
    /\ troubles' = troubles + 1
    /\ revoked' = revoked \union {feed}
    /\ UNCHANGED <<connector, client, streams, network, stale, cooloff, received>>

\* The raw stream of s is polled and fails.
StreamBreaks(s) ==
    /\ streams[s].state = "Broken"
    /\ Fails(s, streams[s].error)
    /\ UNCHANGED <<connector, client, world, received>>

\* The server notices that a stream is gone.
SessionExpires ==
    /\ stale > 0
    /\ stale' = stale - 1
    /\ UNCHANGED <<connector, client, streams, network, troubles, cooloff, revoked, received>>

-----------------------------------------------------------------------------
Next ==
    \/ Connect
    \/ ConnectLazy
    \/ Outage
    \/ Recovers
    \/ CooloffEnds
    \/ SessionExpires
    \/ \E feed \in Feeds : Revoke(feed)
    \/ \E s \in Streams :
         \/ Subscribe(s)
         \/ Retry(s)
         \/ Answered(s)
         \/ Unreachable(s)
         \/ Event(s)
         \/ OverShare(s)
         \/ StreamBreaks(s)

\* Sleeps end, calls are answered or fail, a broken stream is polled; the
\* network comes back, a cooloff ends, and the server notices a session that is gone.
Fairness ==
    /\ WF_vars(Recovers)
    /\ WF_vars(CooloffEnds)
    /\ WF_vars(SessionExpires)
    /\ \A s \in Streams :
         /\ WF_vars(Retry(s))
         /\ WF_vars(Answered(s) \/ Unreachable(s))
         /\ WF_vars(StreamBreaks(s))

Spec == Init /\ [][Next]_vars /\ Fairness

-----------------------------------------------------------------------------
(* Properties. *)

\* The service of each feed is asked only for regions of that feed, under a
\* token that can be sent, with filters that passed validation; and whatever
\* happens to a stream it asks every time for the same.
OnlySoundRequests ==
    /\ \A r \in received :
         /\ DOMAIN r.region = {IF r.service = "Harmonic" THEN "harmonic_region"
                               ELSE "bam_region"}
         /\ r.filtersOk
         /\ "not ascii" \notin r.token
    /\ \A r, q \in received : r.stream = q.stream => r = q

Unlimited == connector.reconnect # NoReconnect /\ connector.reconnect.max_retries = NoLimit

\* Stream s is of a feed that was revoked.
Barred(s) == streams[s].state # "Idle" /\ streams[s].feed \in revoked

Down(s) == streams[s].state \in {"Broken", "Waiting", "Resubscribing"}

\* Without a limit on retries every stream of a client comes back after the
\* connection they shared broke, although for a while the server still counts
\* the streams that are gone against its limit, or refuses the account; all but
\* those of a feed that was revoked.
AllComeBack ==
    \A s \in Streams :
        (Unlimited /\ Down(s)) ~> (streams[s].state = "Streaming" \/ Barred(s))

\* An error that no retry can fix ends the stream, whatever the policy: one
\* whose feed was revoked while it was down, or before it broke, does not go on
\* asking for ever, and is not left waiting by an outage or a cooloff either.
RevokedIsFinal ==
    \A s \in Streams : (Down(s) /\ Barred(s)) ~> (streams[s].state = "Ended")
=============================================================================

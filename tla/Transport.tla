------------------------------ MODULE Transport ------------------------------
(***************************************************************************)
(* The way of one stream's updates from the server to the EventStream: the *)
(* server's side of the stream, and the updates in flight.                 *)
(*                                                                         *)
(* The server and the network are not in this repository; they do what     *)
(* preconfs.proto says of them.  The server may refuse a subscription,     *)
(* withhold transactions over the coverage share and announce how many,    *)
(* and close a stream whose reader lags; the connection may be lost with   *)
(* whatever is in flight.                                                  *)
(***************************************************************************)
EXTENDS EventStream, SequencesExt

CONSTANT WireCap  \* updates in flight before the reader counts as lagging

ASSUME TransportAssumption == WireCap \in Nat \ {0}

VARIABLES
    session,  \* the server's side of the stream
    wire      \* the updates in flight, oldest first

-----------------------------------------------------------------------------
ClipOf(n) == [payload |-> "Clip", body |-> [transactions |-> n]]
PingUpdate == [payload |-> "Ping", body |-> [slot |-> 0]]

\* over: "no" while the stream is up, else how it ended; serving: whether the
\* transactions published now are for it; withheld: those not announced yet.
NoSession == [over |-> "none", serving |-> FALSE, withheld |-> 0]
NewSession(serving) == [over |-> "no", serving |-> serving, withheld |-> 0]

Up == session.over = "no"

\* Queue updates for the subscriber, or close its stream as lagging.
Send(updates, s) ==
    IF Len(wire) + Len(updates) <= WireCap
    THEN wire' = wire \o updates /\ session' = s
    ELSE wire' = wire /\ session' = [s EXCEPT !.over = "DataLoss"]

NotSent == UNCHANGED <<wire, session>>

\* A transaction that matches; the coverage share may withhold it.
SendTransaction(update) ==
    IF Up /\ session.serving
    THEN \/ Send(<<update>>, session)
         \/ session' = [session EXCEPT !.withheld = @ + 1] /\ wire' = wire
    ELSE NotSent

\* The notice that sums up a second.
SendClip ==
    /\ Up /\ session.withheld > 0
    /\ Send(<<ClipOf(session.withheld)>>, [session EXCEPT !.withheld = 0])
    /\ UNCHANGED vars

\* The keepalive of an idle stream.
SendPing ==
    /\ Up /\ wire = <<>> /\ source.answer = "NotReady"
    /\ Send(<<PingUpdate>>, session)
    /\ UNCHANGED vars

\* The connection goes, with some suffix of what was in flight.
LoseConnection ==
    /\ Up
    /\ \E n \in 0 .. Len(wire), how \in Statuses \union {"End"} :
         /\ wire' = SubSeq(wire, 1, n)
         /\ session' = [session EXCEPT !.over = how]
    /\ UNCHANGED vars

(* What the client's call and raw stream answer. *)

Accept(serving) ==
    /\ state = "Connecting"
    /\ Answer(Connected)
    /\ session' = NewSession(serving)
    /\ wire' = <<>>

Refuse ==
    /\ state = "Connecting"
    /\ \E code \in Statuses : Answer(Refused(code))
    /\ NotSent

Arrive ==
    /\ state = "Streaming" /\ wire # <<>>
    /\ Answer(Update(Head(wire)))
    /\ wire' = Tail(wire)
    /\ UNCHANGED session

StreamEnds ==
    /\ state = "Streaming" /\ wire = <<>> /\ ~Up /\ session.over # "none"
    /\ Answer(IF session.over = "End" THEN EndOfStream ELSE Status(session.over))
    /\ session' = NoSession
    /\ UNCHANGED wire

Sleeping == (TimerFires \/ DropNext) /\ NotSent

\* What passes between the client and the server, but for Accept.
Passage ==
    \/ Sleeping
    \/ SendClip
    \/ SendPing
    \/ LoseConnection
    \/ Refuse
    \/ Arrive
    \/ StreamEnds

Returned == task = "polling" /\ task' = "idle"
=============================================================================

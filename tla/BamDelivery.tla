----------------------------- MODULE BamDelivery -----------------------------
(***************************************************************************)
(* One BAM subscription end to end.  The feed has no frames: it publishes  *)
(* transactions one after the other, numbered here to tell them apart, and *)
(* a stream is for those published while it is up.                         *)
(***************************************************************************)
EXTENDS Transport

CONSTANT MaxPublished  \* transactions the feed publishes before it falls silent

ASSUME BamDeliveryAssumption == ~SLOT_FRAMING /\ MaxPublished \in Nat

VARIABLES
    published,  \* how many transactions that match the filters there were
    since,      \* how many of them when the server last accepted a stream
    program     \* what the program holds since the last Reconnected

bamVars == <<vars, published, since, session, wire, program>>

-----------------------------------------------------------------------------
TransactionOf(n) == [payload |-> "Transaction", body |-> [sequence |-> n]]

BamDeliveryUpdates ==
    {TransactionOf(n) : n \in 1 .. MaxPublished}
      \union {ClipOf(n) : n \in 1 .. MaxPublished}
      \union {PingUpdate}

NewProgram == [held |-> <<>>, notice |-> 0]

Reads(p, event) ==
    CASE event.event = "Transaction" -> [p EXCEPT !.held = Append(@, event.body.sequence)]
      [] event.event = "Clip" -> [p EXCEPT !.notice = @ + event.body.transactions]

ProgramReads ==
    program' =
      IF ~Returned THEN program
      ELSE IF ret'.item = "Event" THEN Reads(program, ret'.event)
      ELSE IF ret'.item = "Reconnected" THEN NewProgram
      ELSE program

-----------------------------------------------------------------------------
BamInit ==
    /\ Init
    /\ published = 0
    /\ since = 0
    /\ session = NewSession(TRUE)
    /\ wire = <<>>
    /\ program = NewProgram

\* The feed publishes a transaction that matches the filters.
Publish ==
    /\ published < MaxPublished
    /\ published' = published + 1
    /\ SendTransaction(TransactionOf(published + 1))
    /\ UNCHANGED <<vars, since, program>>

Reader ==
    /\ ClientStep
    /\ ProgramReads
    /\ UNCHANGED <<published, since, session, wire>>

Joins ==
    /\ Accept(TRUE)
    /\ since' = published
    /\ UNCHANGED <<published, program>>

Alone(A) == A /\ UNCHANGED <<published, since, program>>

Passes == Alone(Passage)

BamNext == Reader \/ Publish \/ Joins \/ Passes

\* As for EventStream; what is in flight arrives, the end of a connection is
\* noticed (keepalive), and a notice goes out every second.
BamFairness ==
    /\ WF_bamVars(Reader)
    /\ WF_bamVars(Alone(TimerFires /\ NotSent))
    /\ WF_bamVars(Joins \/ Alone(Refuse))
    /\ WF_bamVars(Alone(Arrive))
    /\ WF_bamVars(Alone(StreamEnds))
    /\ WF_bamVars(Alone(SendClip))

BamSpec == BamInit /\ [][BamNext]_bamVars /\ BamFairness

-----------------------------------------------------------------------------
(* Properties. *)

\* The updates on their way: those in flight, after the one the raw stream has
\* ready.
OnTheWay ==
    (IF source.answer = "Update" THEN <<source.update>> ELSE <<>>) \o wire

\* The transactions an update is or announces.
Accounts(u) ==
    CASE u.payload = "Transaction" -> 1
      [] u.payload = "Clip" -> u.body.transactions
      [] OTHER -> 0

Accounted ==
    LET sum[i \in 0 .. Len(OnTheWay)] ==
          IF i = 0 THEN 0 ELSE sum[i - 1] + Accounts(OnTheWay[i])
    IN  sum[Len(OnTheWay)]

\* An open stream is complete (preconfs.proto:12): every transaction published
\* since the stream was accepted is held by the program, on its way to it,
\* announced as withheld or about to be, once; through polls that stop halfway,
\* dropped next() calls, skipped pings and streams before it that were cut off.
OpenStreamIsComplete ==
    (state = "Streaming" /\ Up) =>
      published - since =
        Len(program.held) + program.notice + Accounted + session.withheld

\* What the program holds is in the order of the feed, nothing twice, and from
\* one stream: none of it was published before that stream was accepted.
HeldInOrder ==
    /\ \A i \in DOMAIN program.held :
         i > 1 => program.held[i - 1] < program.held[i]
    /\ (state = "Streaming" /\ program.held # <<>>) => Head(program.held) > since

\* Under a policy with a bound, when the feed falls silent, the program comes to
\* have been told everything since its last Reconnected, or that the stream is
\* over: what was published is not left behind a ping, a dropped next() or a
\* connection that broke.
SettlesComplete ==
    <>[](\/ state = "Ended"
         \/ state = "Streaming"
              /\ Len(program.held) + program.notice = published - since)
=============================================================================

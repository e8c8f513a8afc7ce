-------------------------- MODULE BamDeliveryProofs ---------------------------
(***************************************************************************)
(* Proofs about BamDelivery, for every number of transactions, every       *)
(* capacity of the wire, every policy and every set of statuses.           *)
(*                                                                         *)
(* As for HarmonicDelivery the inductive invariant follows what is under   *)
(* way, but a place in this feed is only a count and a number: how many    *)
(* transactions the program accounts for, and the newest of them.          *)
(***************************************************************************)
EXTENDS BamDelivery, EventStreamProofs, PathProofs

Places == [count : Nat, seq : Nat]

Messages ==
    {TransactionOf(n) : n \in Nat} \union {ClipOf(n) : n \in Nat} \union {PingUpdate}

ReadsTransaction(p, u, q) ==
    \E n \in Nat :
      u = TransactionOf(n) /\ p.seq < n /\ q = [count |-> p.count + 1, seq |-> n]

ReadsClip(p, u, q) ==
    \E n \in Nat : u = ClipOf(n) /\ q = [count |-> p.count + n, seq |-> p.seq]

Leads(p, u, q) ==
    \/ ReadsTransaction(p, u, q)
    \/ ReadsClip(p, u, q)
    \/ u = PingUpdate /\ q = p

Steps == {t \in Places \X Messages \X Places : Leads(t[1], t[2], t[3])}

-----------------------------------------------------------------------------
(* The inductive invariant. *)

\* Where the program is: a stream that was just accepted starts at since.
Here ==
    IF state = "Streaming"
    THEN [count |-> Len(program.held) + program.notice,
          seq |-> IF program.held = <<>> THEN since
                  ELSE program.held[Len(program.held)]]
    ELSE [count |-> 0, seq |-> since]

\* Where the feed and the session are.
Current(p) ==
    /\ p.count + session.withheld = published - since
    /\ p.seq <= published
    /\ session.serving

UnderWay ==
    \E end \in Places :
      Connects(Steps, Places, Here, OnTheWay, end) /\ (Up => Current(end))

Disconnected ==
    \/ state \in {"Waiting", "Ended"}
    \/ state = "Connecting" /\ source.answer # "Connected"
    \/ state = "Streaming" /\ source.answer \in {"Status", "End"}

NothingUnderWay == Disconnected => session.over = "none" /\ wire = <<>>

SessionTypes ==
    [over : Statuses \union {"none", "no", "End", "DataLoss"},
     serving : BOOLEAN, withheld : Nat]

ProgramTypes == [held : Seq(Nat), notice : Nat]

BamTypeOK ==
    /\ published \in Nat
    /\ since \in Nat
    /\ session \in SessionTypes
    /\ wire \in Seq(Messages)
    /\ program \in ProgramTypes

\* What is held is in order, and from this stream.
Ordered ==
    /\ \A i, j \in 1 .. Len(program.held) : i < j => program.held[i] < program.held[j]
    /\ state = "Streaming" =>
         \A i \in 1 .. Len(program.held) : since < program.held[i]

BamInv ==
    /\ StreamInv
    /\ BamTypeOK
    /\ framed
    /\ since <= published
    /\ Ordered
    /\ NothingUnderWay
    /\ UnderWay

-----------------------------------------------------------------------------
LEMMA ProgramTyped ==
    ASSUME program \in ProgramTypes
    PROVE  /\ program.held \in Seq(Nat) /\ Len(program.held) \in Nat
           /\ program.notice \in Nat
           /\ \A i \in 1 .. Len(program.held) : program.held[i] \in Nat
<1>1. program.held \in Seq(Nat) /\ program.notice \in Nat
  BY DEF ProgramTypes
<1>2. QED
  BY <1>1

LEMMA SessionTyped ==
    ASSUME session \in SessionTypes
    PROVE  session.serving \in BOOLEAN /\ session.withheld \in Nat
  BY DEF SessionTypes

LEMMA HereTyped ==
    ASSUME BamTypeOK
    PROVE  Here \in Places
<1>1. program.held # <<>> => program.held[Len(program.held)] \in Nat
  <2>1. program.held # <<>> => Len(program.held) \in 1 .. Len(program.held)
    BY ProgramTyped DEF BamTypeOK
  <2>2. QED
    BY <2>1, ProgramTyped DEF BamTypeOK
<1>2. Len(program.held) + program.notice \in Nat
  BY ProgramTyped DEF BamTypeOK
<1>3. QED
  BY <1>1, <1>2 DEF Here, Places, BamTypeOK

\* What is on its way is a sequence of updates of the feed.
LEMMA OnTheWayTyped ==
    ASSUME BamInv
    PROVE  /\ OnTheWay \in Seq(Messages)
           /\ source.answer # "Update" => OnTheWay = wire
           /\ source.answer = "Update" =>
                /\ source.update \in Messages
                /\ OnTheWay = <<source.update>> \o wire
                /\ OnTheWay # <<>> /\ Head(OnTheWay) = source.update
                /\ Tail(OnTheWay) = wire

<1>1. wire \in Seq(Messages)
  BY DEF BamInv, BamTypeOK
<1>2. source.answer # "Update" => OnTheWay = wire
  BY <1>1 DEF OnTheWay
<1>3. CASE source.answer = "Update"
  <2> DEFINE u == source.update
             Sent == Messages \union {u}
  <2>1. /\ wire \in Seq(Sent) /\ <<u>> \in Seq(Sent) /\ Len(<<u>>) = 1 /\ <<u>>[1] = u
        /\ OnTheWay = <<u>> \o wire
    BY <1>1, <1>3 DEF OnTheWay
  <2> HIDE DEF u, Sent
  <2>2. /\ OnTheWay \in Seq(Sent) /\ OnTheWay # <<>> /\ Head(OnTheWay) = u
        /\ Tail(OnTheWay) = wire
    BY <2>1
  <2>3. PICK end \in Places : Connects(Steps, Places, Here, OnTheWay, end)
    BY DEF BamInv, UnderWay
  <2>4. PICK r \in Places : <<Here, Head(OnTheWay), r>> \in Steps
    BY <2>2, <2>3, ConnectsTail
  <2>5. u \in Messages
    BY <2>2, <2>4 DEF Steps
  <2>6. <<u>> \o wire \in Seq(Messages)
    <3>1. <<u>> \in Seq(Messages)
      BY <2>5
    <3>2. QED
      BY <1>1, <3>1
  <2>7. QED
    BY <1>3, <2>1, <2>2, <2>5, <2>6 DEF u
<1>4. QED
  BY <1>1, <1>2, <1>3

\* What leads on from a place, and where to.
LEMMA StepsLead ==
    ASSUME NEW p \in Places, NEW u \in Messages, NEW q \in Places
    PROVE  <<p, u, q>> \in Steps <=> Leads(p, u, q)
  BY DEF Steps

\* Which update it is that leads on.
LEMMA LeadsPayload ==
    ASSUME NEW p, NEW u, NEW q
    PROVE  /\ ReadsTransaction(p, u, q) => u.payload = "Transaction"
           /\ ReadsClip(p, u, q) => u.payload = "Clip"
<1>1. ReadsTransaction(p, u, q) => u.payload = "Transaction"
  BY DEF ReadsTransaction, TransactionOf
<1>2. ReadsClip(p, u, q) => u.payload = "Clip"
  BY DEF ReadsClip, ClipOf
<1>3. QED
  BY <1>1, <1>2

\* While the stream is up it has a connection.
LEMMA UpConnected ==
    ASSUME BamInv, Up
    PROVE  ~Disconnected
  BY DEF BamInv, NothingUnderWay, Up

-----------------------------------------------------------------------------
(* The stream's own steps. *)

\* What a step must do for the invariant, apart from StreamInv and the types of
\* session and wire.
Moves ==
    /\ published' \in Nat /\ since' \in Nat /\ since' <= published'
    /\ program' \in ProgramTypes
    /\ framed'
    /\ Ordered'
    /\ NothingUnderWay'
    /\ UnderWay'

LEMMA TransactionDelivered ==
    ASSUME BamTypeOK, Ordered, state = "Streaming", state' = "Streaming", since' = since,
           NEW n \in Nat, Here.seq < n,
           program' = [program EXCEPT !.held = Append(program.held, n)]
    PROVE  /\ program' \in ProgramTypes
           /\ Ordered'
           /\ Here' = [count |-> Here.count + 1, seq |-> n]
<1>k. PICK k \in Nat : k = Len(program.held)
  BY ProgramTyped DEF BamTypeOK
<1>1. /\ program.held \in Seq(Nat) /\ k \in Nat /\ program.notice \in Nat
      /\ \A i \in 1 .. k : program.held[i] \in Nat
      /\ since \in Nat
  BY <1>k, ProgramTyped DEF BamTypeOK
<1>2. /\ program'.held = Append(program.held, n) /\ program'.notice = program.notice
      /\ program' \in ProgramTypes
  <2>1. program \in ProgramTypes
    BY DEF BamTypeOK
  <2>2. Append(program.held, n) \in Seq(Nat)
    BY <1>1
  <2>3. QED
    BY <2>1, <2>2 DEF ProgramTypes
<1>3. /\ Len(program'.held) = k + 1 /\ program'.held # <<>>
      /\ program'.held[k + 1] = n
      /\ \A i \in 1 .. k : program'.held[i] = program.held[i]
  BY <1>k, <1>1, <1>2
<1>4. Here = [count |-> k + program.notice,
              seq |-> IF program.held = <<>> THEN since ELSE program.held[k]]
  BY <1>k DEF Here
<1>5. \A i \in 1 .. k : program.held[i] < n
  <2>1. ASSUME NEW i \in 1 .. k PROVE program.held[i] < n
    <3>1. program.held # <<>> /\ k \in 1 .. k
      BY <1>k, <1>1
    <3>2. program.held[k] < n
      BY <1>4, <3>1
    <3>3. i = k \/ program.held[i] < program.held[k]
      BY <1>k, <3>1 DEF Ordered
    <3>4. QED
      BY <1>1, <3>1, <3>2, <3>3
  <2>2. QED
    BY <2>1
<1>6. since < n
  <2>1. CASE program.held = <<>>
    BY <1>4, <2>1
  <2>2. CASE program.held # <<>>
    <3>1. k \in 1 .. k
      BY <1>k, <1>1, <2>2
    <3>2. since < program.held[k]
      BY <1>k, <3>1 DEF Ordered
    <3>3. QED
      BY <1>1, <1>5, <3>1, <3>2
  <2>3. QED
    BY <2>1, <2>2
<1>7. Ordered'
  <2>1. ASSUME NEW i \in 1 .. k + 1, NEW j \in 1 .. k + 1, i < j
        PROVE  program'.held[i] < program'.held[j]
    <3>1. i \in 1 .. k
      BY <1>1, <2>1
    <3>2. j = k + 1 \/ j \in 1 .. k
      BY <1>1
    <3>3. CASE j = k + 1
      BY <1>3, <1>5, <3>1, <3>3
    <3>4. CASE j \in 1 .. k
      <4>1. program.held[i] < program.held[j]
        BY <1>k, <2>1, <3>1, <3>4 DEF Ordered
      <4>2. QED
        BY <1>3, <3>1, <3>4, <4>1
    <3>5. QED
      BY <3>2, <3>3, <3>4
  <2>2. ASSUME NEW i \in 1 .. k + 1 PROVE since' < program'.held[i]
    <3>1. CASE i = k + 1
      BY <1>3, <1>6, <3>1
    <3>2. CASE i \in 1 .. k
      <4>1. since < program.held[i]
        BY <1>k, <3>2 DEF Ordered
      <4>2. QED
        BY <1>3, <3>2, <4>1
    <3>3. QED
      BY <1>k, <3>1, <3>2
  <2>3. QED
    BY <1>3, <2>1, <2>2 DEF Ordered
<1>8. Here' = [count |-> Here.count + 1, seq |-> n]
  <2>1. Here' = [count |-> (k + 1) + program.notice, seq |-> n]
    BY <1>2, <1>3 DEF Here
  <2>2. (k + 1) + program.notice = (k + program.notice) + 1
    BY <1>k, <1>1
  <2>3. QED
    BY <1>4, <2>1, <2>2
<1>9. QED
  BY <1>2, <1>7, <1>8

LEMMA ClipDelivered ==
    ASSUME BamTypeOK, Ordered, state = "Streaming", state' = "Streaming", since' = since,
           NEW n \in Nat, program' = [program EXCEPT !.notice = program.notice + n]
    PROVE  /\ program' \in ProgramTypes
           /\ Ordered'
           /\ Here' = [count |-> Here.count + n, seq |-> Here.seq]
<1>1. /\ program.held \in Seq(Nat) /\ Len(program.held) \in Nat /\ program.notice \in Nat
      /\ program \in ProgramTypes
  BY ProgramTyped DEF BamTypeOK
<1>2. program'.held = program.held /\ program'.notice = program.notice + n
  BY <1>1 DEF ProgramTypes
<1>3. program' \in ProgramTypes
  <2>1. program.notice + n \in Nat
    BY <1>1
  <2>2. QED
    BY <1>1, <2>1 DEF ProgramTypes
<1>4. Ordered'
  BY <1>2 DEF Ordered
<1>5. Here' = [count |-> Len(program.held) + (program.notice + n), seq |-> Here.seq]
  BY <1>2 DEF Here
<1>6. Here.count = Len(program.held) + program.notice
  BY DEF Here
<1>7. Len(program.held) + (program.notice + n) = (Len(program.held) + program.notice) + n
  BY <1>1
<1>8. QED
  BY <1>3, <1>4, <1>5, <1>6, <1>7

\* An event is given to the program: the step that led on from the place the
\* program was in.
LEMMA DeliverMoves ==
    ASSUME BamInv, Deliver, ProgramReads, UNCHANGED <<published, since, session, wire>>
    PROVE  Moves
<1> DEFINE u == source.update
<1>1. PICK end \in Places :
        Connects(Steps, Places, Here, OnTheWay, end) /\ (Up => Current(end))
  BY DEF BamInv, UnderWay
<1>2. /\ u \in Messages /\ OnTheWay \in Seq(Messages) /\ OnTheWay # <<>>
      /\ Head(OnTheWay) = u /\ Tail(OnTheWay) = wire /\ wire \in Seq(Messages)
  BY OnTheWayTyped DEF Deliver, BamInv, BamTypeOK
<1>3. PICK r \in Places : <<Here, u, r>> \in Steps /\ Connects(Steps, Places, r, wire, end)
  BY <1>1, <1>2, ConnectsTail
<1>4. Leads(Here, u, r) /\ u.payload \notin {"Ping", "Empty"}
  BY <1>3 DEF Steps, Deliver, HasEvent
<1>5. program' = Reads(program, [event |-> u.payload, body |-> u.body])
  BY DEF Deliver, Polling, ProgramReads, Returned, Return, EventItem, IntoEvent
<1>6. /\ state = "Streaming" /\ state' = "Streaming" /\ framed' /\ since' = since
      /\ source'.answer = "NotReady"
  BY DEF Deliver, Polling, Renew, NotReady
<1>7. program' \in ProgramTypes /\ Ordered' /\ Here' = r
  <2>1. CASE ReadsTransaction(Here, u, r)
    <3>1. PICK n \in Nat : /\ u = TransactionOf(n) /\ Here.seq < n
                           /\ r = [count |-> Here.count + 1, seq |-> n]
      BY <2>1 DEF ReadsTransaction
    <3>2. u.payload = "Transaction" /\ u.body.sequence = n
      BY <3>1 DEF TransactionOf
    <3>3. program' = [program EXCEPT !.held = Append(program.held, n)]
      BY <1>5, <3>2 DEF Reads
    <3>4. QED
      BY <1>6, <3>1, <3>3, TransactionDelivered DEF BamInv
  <2>2. CASE ReadsClip(Here, u, r)
    <3>1. PICK n \in Nat : /\ u = ClipOf(n)
                           /\ r = [count |-> Here.count + n, seq |-> Here.seq]
      BY <2>2 DEF ReadsClip
    <3>2. u.payload = "Clip" /\ u.body.transactions = n
      BY <3>1 DEF ClipOf
    <3>3. program' = [program EXCEPT !.notice = program.notice + n]
      BY <1>5, <3>2 DEF Reads
    <3>4. QED
      BY <1>6, <3>1, <3>3, ClipDelivered DEF BamInv
  <2>3. u # PingUpdate
    BY <1>4 DEF PingUpdate
  <2>4. QED
    BY <1>4, <2>1, <2>2, <2>3 DEF Leads
<1>8. OnTheWay' = wire
  BY <1>2, <1>6 DEF OnTheWay
<1>9. UnderWay'
  <2>1. Up' => Current(end)'
    BY <1>1 DEF Up, Current
  <2>2. QED
    BY <1>3, <1>7, <1>8, <2>1 DEF UnderWay
<1>10. NothingUnderWay'
  BY <1>6 DEF NothingUnderWay, Disconnected
<1>11. QED
  BY <1>6, <1>7, <1>9, <1>10 DEF Moves, BamInv, BamTypeOK

\* Nothing that matters moved.
LEMMA Carries ==
    ASSUME BamInv, UNCHANGED <<published, since, session, program>>, framed',
           OnTheWay' = OnTheWay, state' = "Streaming" <=> state = "Streaming",
           Disconnected' => Disconnected /\ wire' = wire
    PROVE  Moves
<1>1. Here' = Here /\ Ordered'
  BY DEF Here, Ordered, BamInv
<1>2. UnderWay'
  <2>1. PICK end \in Places :
          Connects(Steps, Places, Here, OnTheWay, end) /\ (Up => Current(end))
    BY DEF BamInv, UnderWay
  <2>2. Up' => Current(end)'
    BY <2>1 DEF Up, Current
  <2>3. QED
    BY <1>1, <2>1, <2>2 DEF UnderWay
<1>3. NothingUnderWay'
  BY DEF NothingUnderWay, BamInv
<1>4. QED
  BY <1>1, <1>2, <1>3 DEF Moves, BamInv, BamTypeOK

\* A ping is passed over.
LEMMA SkipMoves ==
    ASSUME BamInv, SkipUpdate, ProgramReads, UNCHANGED <<published, since, session, wire>>
    PROVE  Moves
<1> DEFINE u == source.update
<1>1. PICK end \in Places :
        Connects(Steps, Places, Here, OnTheWay, end) /\ (Up => Current(end))
  BY DEF BamInv, UnderWay
<1>2. /\ u \in Messages /\ OnTheWay \in Seq(Messages) /\ OnTheWay # <<>>
      /\ Head(OnTheWay) = u /\ Tail(OnTheWay) = wire /\ wire \in Seq(Messages)
  BY OnTheWayTyped DEF SkipUpdate, BamInv, BamTypeOK
<1>3. PICK r \in Places : <<Here, u, r>> \in Steps /\ Connects(Steps, Places, r, wire, end)
  BY <1>1, <1>2, ConnectsTail
<1>4. Leads(Here, u, r) /\ u.payload \in {"Ping", "Empty"}
  BY <1>3 DEF Steps, SkipUpdate, HasEvent
<1>5. r = Here
  BY <1>4, LeadsPayload DEF Leads
<1>6. /\ UNCHANGED <<state, framed, program>> /\ state = "Streaming"
      /\ source'.answer = "NotReady"
  BY DEF SkipUpdate, Polling, Renew, NotReady, NextUpdate, Continue, fields,
     ProgramReads, Returned
<1>7. OnTheWay' = wire /\ Here' = Here
  BY <1>2, <1>6 DEF OnTheWay, Here
<1>8. UnderWay'
  <2>1. Up' => Current(end)'
    BY <1>1 DEF Up, Current
  <2>2. QED
    BY <1>3, <1>5, <1>7, <2>1 DEF UnderWay
<1>9. NothingUnderWay' /\ Ordered'
  BY <1>6 DEF NothingUnderWay, Disconnected, BamInv, Ordered
<1>10. QED
  BY <1>6, <1>8, <1>9 DEF Moves, BamInv, BamTypeOK

\* With nothing under way and the stream down, wherever the program is will do.
LEMMA DownMoves ==
    ASSUME BamInv, UNCHANGED <<published, since, program>>, framed', Ordered',
           wire' = <<>>, session'.over = "none", source'.answer # "Update"
    PROVE  Moves
<1>1. OnTheWay' = <<>> /\ ~Up'
  BY DEF OnTheWay, Up
<1>2. Here' \in Places
  <2>1. program' \in ProgramTypes
    BY DEF BamInv, BamTypeOK
  <2>2. /\ program'.held \in Seq(Nat) /\ program'.notice \in Nat
        /\ Len(program'.held) \in Nat /\ since' \in Nat
    BY <2>1 DEF ProgramTypes, BamInv, BamTypeOK
  <2>3. program'.held # <<>> => program'.held[Len(program'.held)] \in Nat
    BY <2>2
  <2>4. Len(program'.held) + program'.notice \in Nat
    BY <2>2
  <2>5. QED
    BY <2>2, <2>3, <2>4 DEF Here, Places
<1>3. UnderWay'
  BY <1>1, <1>2, ConnectsEmpty DEF UnderWay
<1>4. NothingUnderWay'
  BY DEF NothingUnderWay
<1>5. QED
  BY <1>3, <1>4 DEF Moves, BamInv, BamTypeOK

\* A failure is taken after everything that was under way.
LEMMA FailMoves ==
    ASSUME BamInv, StreamFailed \/ ResubscribeFailed, ProgramReads,
           UNCHANGED <<published, since, session, wire>>
    PROVE  Moves
<1>1. PICK error : Fail(error)
  BY DEF StreamFailed, ResubscribeFailed
<1>2. Disconnected
  BY DEF StreamFailed, ResubscribeFailed, Polling, Disconnected
<1>3. /\ state' \in {"Waiting", "Ended"} /\ framed' /\ program' = program
      /\ source'.answer = "NotReady"
  <2>1. state \in {"Streaming", "Connecting"}
    BY DEF StreamFailed, ResubscribeFailed, Polling
  <2>2. QED
    BY <1>1, <2>1 DEF Fail, Renew, NotReady, Continue, Return, ErrorItem, ProgramReads,
       Returned, BamInv
<1>4. Ordered'
  BY <1>3 DEF BamInv, Ordered
<1>5. wire' = <<>> /\ session'.over = "none"
  BY <1>2 DEF BamInv, NothingUnderWay
<1>6. QED
  BY <1>3, <1>4, <1>5, DownMoves

\* The program begins anew, where the new stream was accepted.
LEMMA ResubscribedMoves ==
    ASSUME BamInv, Resubscribed, ProgramReads, UNCHANGED <<published, since, session, wire>>
    PROVE  Moves
<1>1. /\ state = "Connecting" /\ state' = "Streaming" /\ program' = NewProgram
      /\ source.answer = "Connected" /\ source'.answer = "NotReady"
  BY DEF Resubscribed, Polling, Renew, NotReady, Announce, Return, Reconnected,
     ProgramReads, Returned
<1>2. framed'
  BY BamDeliveryAssumption DEF Resubscribed, NewFraming
<1>3. OnTheWay = wire /\ OnTheWay' = wire
  <2>1. wire \in Seq(Messages)
    BY DEF BamInv, BamTypeOK
  <2>2. QED
    BY <1>1, <2>1 DEF OnTheWay
<1>4. /\ program'.held = <<>> /\ Len(program'.held) = 0 /\ program'.notice = 0
      /\ program' \in ProgramTypes
  <2>1. <<>> \in Seq(Nat)
    OBVIOUS
  <2>2. QED
    BY <1>1, <2>1 DEF NewProgram, ProgramTypes
<1>5. Here' = Here
  BY <1>1, <1>4 DEF Here
<1>6. Ordered'
  BY <1>4 DEF Ordered
<1>7. UnderWay'
  <2>1. PICK end \in Places :
          Connects(Steps, Places, Here, OnTheWay, end) /\ (Up => Current(end))
    BY DEF BamInv, UnderWay
  <2>2. Up' => Current(end)'
    BY <2>1 DEF Up, Current
  <2>3. QED
    BY <1>3, <1>5, <2>1, <2>2 DEF UnderWay
<1>8. NothingUnderWay'
  BY <1>1 DEF NothingUnderWay, Disconnected
<1>9. QED
  BY <1>2, <1>4, <1>6, <1>7, <1>8 DEF Moves, BamInv, BamTypeOK

LEMMA ReaderMoves == ASSUME BamInv, Reader PROVE Moves
<1>1. ProgramReads /\ UNCHANGED <<published, since, session, wire>>
  BY DEF Reader
<1>2. CASE Deliver
  BY <1>1, <1>2, DeliverMoves
<1>3. CASE SkipUpdate
  BY <1>1, <1>3, SkipMoves
<1>4. CASE StreamFailed \/ ResubscribeFailed
  BY <1>1, <1>4, FailMoves
<1>5. CASE Resubscribed
  BY <1>1, <1>5, ResubscribedMoves
<1>6. ~HoldBack
  BY DEF HoldBack, BamInv
<1>7. CASE CallNext \/ PollAgain \/ PollEnded \/ PollPending
  <2>1. UNCHANGED <<state, framed, source>> /\ program' = program
    BY <1>1, <1>7 DEF CallNext, PollAgain, PollEnded, PollPending, fields, Return,
       NoItem, ProgramReads, Returned
  <2>2. OnTheWay' = OnTheWay /\ (Disconnected' => Disconnected)
    BY <1>1, <2>1 DEF OnTheWay, Disconnected
  <2>3. QED
    BY <1>1, <2>1, <2>2, Carries DEF BamInv
<1>8. CASE Resubscribe
  <2>1. /\ state = "Waiting" /\ state' = "Connecting" /\ UNCHANGED <<framed, program>>
        /\ source.answer = "Elapsed" /\ source'.answer = "NotReady"
    BY <1>1, <1>8 DEF Resubscribe, Polling, Renew, NotReady, Continue, ProgramReads,
       Returned
  <2>2. OnTheWay' = OnTheWay /\ Disconnected
    BY <1>1, <2>1 DEF OnTheWay, Disconnected
  <2>3. QED
    BY <1>1, <2>1, <2>2, Carries DEF BamInv
<1>9. QED
  BY <1>2, <1>3, <1>4, <1>5, <1>6, <1>7, <1>8 DEF Reader, ClientStep, PollNext

-----------------------------------------------------------------------------
(* The feed, the server and the network. *)

\* What is sent comes last of what is on its way.
LEMMA OnTheWaySent ==
    ASSUME BamInv, source' = source, NEW u \in Messages, wire' = Append(wire, u)
    PROVE  OnTheWay' = Append(OnTheWay, u)
<1>1. wire \in Seq(Messages)
  BY DEF BamInv, BamTypeOK
<1>2. CASE source.answer = "Update"
  <2>1. <<source.update>> \in Seq(Messages)
    BY <1>2, OnTheWayTyped
  <2>2. <<source.update>> \o Append(wire, u) = Append(<<source.update>> \o wire, u)
    BY <1>1, <2>1
  <2>3. QED
    BY <1>2, <2>2 DEF OnTheWay
<1>3. CASE source.answer # "Update"
  <2>1. OnTheWay = wire /\ OnTheWay' = <<>> \o wire'
    BY <1>3, OnTheWayTyped DEF OnTheWay
  <2>2. Append(wire, u) \in Seq(Messages)
    BY <1>1
  <2>3. QED
    BY <2>1, <2>2
<1>4. QED
  BY <1>2, <1>3

\* One update is queued, or the stream is closed as lagging.
LEMMA SendOne ==
    ASSUME BamInv, NEW u \in Messages, NEW s, Send(<<u>>, s)
    PROVE  \/ wire' = Append(wire, u) /\ session' = s
           \/ wire' = wire /\ session' = [s EXCEPT !.over = "DataLoss"]
<1>1. wire \o <<u>> = Append(wire, u)
  BY DEF BamInv, BamTypeOK
<1>2. QED
  BY <1>1 DEF Send

\* The feed or the server moved; the stream and the program did not.
LEMMA ServerMoves ==
    ASSUME BamInv, UNCHANGED <<vars, since, program>>,
           published' \in Nat, published <= published',
           ~Up => session' = session /\ wire' = wire,
           \E end \in Places :
             Connects(Steps, Places, Here, OnTheWay', end) /\ (Up' => Current(end)')
    PROVE  Moves
<1>1. UNCHANGED <<state, source, framed>>
  BY DEF vars
<1>2. Here' = Here /\ Ordered' /\ (Disconnected' => Disconnected)
  BY <1>1 DEF Here, Ordered, BamInv, Disconnected
<1>3. UnderWay'
  BY <1>2 DEF UnderWay
<1>4. NothingUnderWay'
  BY <1>2, UpConnected DEF BamInv, NothingUnderWay
<1>5. since' <= published'
  BY DEF BamInv, BamTypeOK
<1>6. QED
  BY <1>1, <1>2, <1>3, <1>4, <1>5 DEF Moves, BamInv, BamTypeOK

\* An update is sent that leads on from where the stream is to where it then is.
LEMMA SentMoves ==
    ASSUME BamInv, Up, UNCHANGED <<vars, since, program>>,
           published' \in Nat, published <= published',
           NEW u \in Messages, NEW s \in SessionTypes, Send(<<u>>, s),
           NEW end \in Places, Connects(Steps, Places, Here, OnTheWay, end),
           NEW r \in Places, Leads(end, u, r), session' = s => Current(r)'
    PROVE  Moves
<1>1. source' = source
  BY DEF vars
<1>2. CASE wire' = Append(wire, u) /\ session' = s
  <2>1. Connects(Steps, Places, Here, Append(OnTheWay, u), r)
    BY StepsLead, OnTheWayTyped, ConnectsAppend
  <2>2. OnTheWay' = Append(OnTheWay, u)
    BY <1>1, <1>2, OnTheWaySent
  <2>3. QED
    BY <1>2, <2>1, <2>2, ServerMoves
<1>3. CASE wire' = wire /\ session' = [s EXCEPT !.over = "DataLoss"]
  <2>1. OnTheWay' = OnTheWay /\ ~Up'
    BY <1>1, <1>3 DEF OnTheWay, Up, SessionTypes
  <2>2. QED
    BY <2>1, ServerMoves
<1>4. QED
  BY <1>2, <1>3, SendOne

\* A transaction is published: sent, withheld, or for no stream.
LEMMA PublishMoves == ASSUME BamInv, Publish PROVE Moves
<1>1. /\ published \in Nat /\ since \in Nat /\ since <= published /\ session \in SessionTypes
      /\ session.withheld \in Nat
  BY SessionTyped DEF BamInv, BamTypeOK
<1>2. published' = published + 1 /\ published' \in Nat /\ published <= published'
  BY <1>1 DEF Publish
<1>3. UNCHANGED <<vars, since, program>> /\ SendTransaction(TransactionOf(published + 1))
  BY DEF Publish
<1>4. PICK end \in Places :
        Connects(Steps, Places, Here, OnTheWay, end) /\ (Up => Current(end))
  BY DEF BamInv, UnderWay
<1>5. end.count \in Nat /\ end.seq \in Nat
  BY DEF Places
<1>6. CASE ~Up
  <2>1. UNCHANGED <<wire, session, source>>
    BY <1>3, <1>6 DEF SendTransaction, NotSent, vars
  <2>2. OnTheWay' = OnTheWay /\ ~Up'
    BY <1>6, <2>1 DEF OnTheWay, Up
  <2>3. QED
    BY <1>2, <1>3, <1>4, <2>1, <2>2, ServerMoves
<1>7. ASSUME Up
      PROVE  /\ session.serving /\ end.seq <= published
             /\ end.count + session.withheld = published - since
  BY <1>4, <1>7 DEF Current
<1>8. CASE Up /\ session' = [session EXCEPT !.withheld = session.withheld + 1] /\ wire' = wire
  <2>1. session'.withheld = session.withheld + 1 /\ session'.serving = session.serving
    BY <1>1, <1>8 DEF SessionTypes
  <2>2. end.count + (session.withheld + 1) = (published + 1) - since
    BY <1>1, <1>5, <1>7, <1>8
  <2>3. end.seq <= published + 1
    BY <1>1, <1>5, <1>7, <1>8
  <2>4. Current(end)'
    BY <1>2, <1>3, <1>7, <1>8, <2>1, <2>2, <2>3 DEF Current
  <2>5. OnTheWay' = OnTheWay
    BY <1>3, <1>8 DEF OnTheWay, vars
  <2>6. QED
    BY <1>2, <1>3, <1>4, <1>8, <2>4, <2>5, ServerMoves
<1>9. CASE Up /\ Send(<<TransactionOf(published + 1)>>, session)
  <2>1. PICK r \in Places : r = [count |-> end.count + 1, seq |-> published + 1]
    <3>1. end.count + 1 \in Nat /\ published + 1 \in Nat
      BY <1>1, <1>5
    <3>2. QED
      BY <3>1 DEF Places
  <2>2. Leads(end, TransactionOf(published + 1), r)
    <3>1. end.seq < published + 1 /\ published + 1 \in Nat
      BY <1>1, <1>5, <1>7, <1>9
    <3>2. QED
      BY <2>1, <3>1, Zenon DEF Leads, ReadsTransaction
  <2>3. TransactionOf(published + 1) \in Messages
    <3>1. published + 1 \in Nat
      BY <1>1
    <3>2. QED
      BY <3>1 DEF Messages
  <2>4. (end.count + 1) + session.withheld = (published + 1) - since
    BY <1>1, <1>5, <1>7, <1>9
  <2>5. session' = session => Current(r)'
    <3>1. r.count = end.count + 1 /\ r.seq = published + 1 /\ published' <= published'
      BY <1>2, <2>1
    <3>2. QED
      BY <1>2, <1>3, <1>7, <1>9, <2>4, <3>1 DEF Current
  <2>6. QED
    BY <1>1, <1>2, <1>3, <1>4, <1>9, <2>1, <2>2, <2>3, <2>5, SentMoves
<1>10. QED
  BY <1>3, <1>6, <1>7, <1>8, <1>9 DEF SendTransaction

\* The notice of a second, and the ping of an idle stream.
LEMMA NoticeMoves ==
    ASSUME BamInv, SendClip \/ SendPing, UNCHANGED <<published, since, program>>
    PROVE  Moves
<1>1. /\ published \in Nat /\ since \in Nat /\ session \in SessionTypes
      /\ session.withheld \in Nat /\ Up /\ UNCHANGED <<vars, since, program>>
      /\ published' \in Nat /\ published <= published'
  BY SessionTyped DEF BamInv, BamTypeOK, SendClip, SendPing
<1>2. PICK end \in Places :
        Connects(Steps, Places, Here, OnTheWay, end) /\ Current(end)
  BY <1>1 DEF BamInv, UnderWay
<1>3. end.count \in Nat /\ end.seq \in Nat
  BY DEF Places
<1>4. CASE SendClip
  <2> DEFINE s == [session EXCEPT !.withheld = 0]
  <2>1. s \in SessionTypes /\ s.withheld = 0 /\ s.serving = session.serving
    BY <1>1 DEF SessionTypes
  <2>2. Send(<<ClipOf(session.withheld)>>, s)
    BY <1>4 DEF SendClip
  <2>3. PICK r \in Places : r = [count |-> end.count + session.withheld, seq |-> end.seq]
    <3>1. end.count + session.withheld \in Nat
      BY <1>1, <1>3
    <3>2. QED
      BY <1>3, <3>1 DEF Places
  <2>4. Leads(end, ClipOf(session.withheld), r)
    BY <1>1, <2>3, Zenon DEF Leads, ReadsClip
  <2>5. ClipOf(session.withheld) \in Messages
    BY <1>1 DEF Messages
  <2> HIDE DEF s
  <2>6. session' = s => Current(r)'
    <3>1. r.count = end.count + session.withheld /\ r.seq = end.seq /\ r.count \in Nat
      BY <2>3 DEF Places
    <3>2. r.count + 0 = published - since
      BY <1>2, <3>1 DEF Current
    <3>3. QED
      BY <1>2, <2>1, <3>1, <3>2 DEF Current
  <2>7. QED
    BY <1>1, <1>2, <2>1, <2>2, <2>3, <2>4, <2>5, <2>6, SentMoves
<1>5. CASE SendPing
  <2>1. Send(<<PingUpdate>>, session)
    BY <1>5 DEF SendPing
  <2>2. Leads(end, PingUpdate, end) /\ PingUpdate \in Messages
    BY DEF Leads, Messages
  <2>3. session' = session => Current(end)'
    BY <1>2 DEF Current
  <2>4. QED
    BY <1>1, <1>2, <2>1, <2>2, <2>3, SentMoves
<1>6. QED
  BY <1>4, <1>5

\* What was not read when the connection went is lost; the rest still leads on.
LEMMA LossMoves ==
    ASSUME BamInv, LoseConnection, UNCHANGED <<published, since, program>>
    PROVE  Moves
<1>1. PICK n \in 0 .. Len(wire), how \in Statuses \union {"End"} :
        wire' = SubSeq(wire, 1, n) /\ session' = [session EXCEPT !.over = how]
  BY DEF LoseConnection
<1>2. Up /\ UNCHANGED <<vars, since, program>> /\ published \in Nat
  BY DEF LoseConnection, BamInv, BamTypeOK
<1>3. ~Up'
  <2>1. "no" \notin Statuses
    BY EventStreamAssumption DEF EventStreamAssumption, Codes, RetryableCodes, TerminalCodes
  <2>2. session'.over = how
    BY <1>1 DEF BamInv, BamTypeOK, SessionTypes
  <2>3. QED
    BY <1>1, <2>1, <2>2 DEF Up
<1>4. wire \in Seq(Messages) /\ OnTheWay \in Seq(Messages) /\ Len(wire) \in Nat
  BY OnTheWayTyped DEF BamInv, BamTypeOK
<1>5. \E m \in 0 .. Len(OnTheWay) : OnTheWay' = SubSeq(OnTheWay, 1, m)
  <2>1. CASE source.answer = "Update"
    <3>1. /\ <<source.update>> \in Seq(Messages) /\ Len(<<source.update>>) = 1
          /\ OnTheWay = <<source.update>> \o wire
      BY <2>1, OnTheWayTyped
    <3>2. OnTheWay' = <<source.update>> \o SubSeq(wire, 1, n)
      BY <1>1, <1>2, <2>1 DEF OnTheWay, vars
    <3>3. Len(OnTheWay) = 1 + Len(wire) /\ n + 1 \in 0 .. Len(OnTheWay)
      BY <1>4, <3>1
    <3>4. <<source.update>> \o SubSeq(wire, 1, n) = SubSeq(<<source.update>> \o wire, 1, n + 1)
      BY <1>4, <3>1
    <3>5. QED
      BY <3>1, <3>2, <3>3, <3>4
  <2>2. CASE source.answer # "Update"
    <3>1. OnTheWay = wire /\ OnTheWay' = <<>> \o wire' /\ wire' \in Seq(Messages)
      BY <1>1, <1>2, <1>4, <2>2, OnTheWayTyped DEF OnTheWay, vars
    <3>2. QED
      BY <1>1, <3>1
  <2>3. QED
    BY <2>1, <2>2
<1>6. PICK end \in Places : Connects(Steps, Places, Here, OnTheWay, end)
  BY DEF BamInv, UnderWay
<1>7. \E r \in Places : Connects(Steps, Places, Here, OnTheWay', r)
  BY <1>4, <1>5, <1>6, ConnectsPrefix
<1>8. published' \in Nat /\ published <= published'
  BY <1>2
<1>9. QED
  BY <1>2, <1>3, <1>7, <1>8, ServerMoves

\* The server accepts a stream: it is for what is published from now on.
LEMMA AcceptMoves ==
    ASSUME BamInv, Joins
    PROVE  Moves
<1>1. /\ wire' = <<>> /\ session' = [over |-> "no", serving |-> TRUE, withheld |-> 0]
      /\ since' = published /\ published' = published /\ program' = program
      /\ state = "Connecting" /\ source' = Connected /\ UNCHANGED <<state, framed>>
  BY DEF Joins, Accept, NewSession, Answer, fields
<1>2. OnTheWay' = <<>>
  BY <1>1 DEF OnTheWay, Connected
<1>3. Here' = [count |-> 0, seq |-> published]
  BY <1>1 DEF Here
<1>4. published \in Nat /\ program' \in ProgramTypes /\ framed'
  BY <1>1 DEF BamInv, BamTypeOK
<1>5. UnderWay'
  <2>1. Here' \in Places
    BY <1>3, <1>4 DEF Places
  <2>2. PICK p \in Places : p = Here' /\ p.count = 0 /\ p.seq = published
    BY <1>3, <2>1
  <2>3. Current(p)'
    BY <1>1, <1>4, <2>2 DEF Current
  <2>4. QED
    BY <1>2, <2>2, <2>3, ConnectsEmpty DEF UnderWay
<1>6. NothingUnderWay' /\ Ordered'
  BY <1>1 DEF NothingUnderWay, Disconnected, Connected, BamInv, Ordered
<1>7. QED
  BY <1>1, <1>4, <1>5, <1>6 DEF Moves

\* An update arrives: it is on its way still.
LEMMA ArriveMoves ==
    ASSUME BamInv, Arrive, UNCHANGED <<published, since, program>>
    PROVE  Moves
<1>1. /\ wire # <<>> /\ wire' = Tail(wire) /\ session' = session
      /\ source' = Update(Head(wire)) /\ source.answer = "NotReady"
      /\ state = "Streaming" /\ UNCHANGED <<state, framed>>
  BY DEF Arrive, Answer, fields
<1>2. wire \in Seq(Messages) /\ OnTheWay = wire
  BY <1>1, OnTheWayTyped DEF BamInv, BamTypeOK
<1>3. OnTheWay' = <<Head(wire)>> \o Tail(wire)
  BY <1>1 DEF OnTheWay, Update
<1>4. <<Head(wire)>> \o Tail(wire) = wire
  BY <1>1, <1>2
<1>5. ~Disconnected'
  BY <1>1 DEF Disconnected, Update
<1>6. QED
  BY <1>1, <1>2, <1>3, <1>4, <1>5, Carries DEF BamInv

\* The stream's end is noticed when nothing is under way any more.
LEMMA EndMoves ==
    ASSUME BamInv, StreamEnds, UNCHANGED <<published, since, program>>
    PROVE  Moves
<1>1. /\ wire' = <<>> /\ session'.over = "none" /\ UNCHANGED <<state, framed>>
      /\ source'.answer # "Update"
  BY DEF StreamEnds, NoSession, Answer, fields, EndOfStream, Status
<1>2. Ordered' /\ framed'
  BY <1>1 DEF BamInv, Ordered
<1>3. QED
  BY <1>1, <1>2, DownMoves

\* A sleep ends, a next() is dropped or a call is refused.
LEMMA IdleMoves ==
    ASSUME BamInv, Sleeping \/ Refuse, UNCHANGED <<published, since, program>>
    PROVE  Moves
<1>1. UNCHANGED <<wire, session, state, framed>>
  BY DEF Sleeping, Refuse, NotSent, TimerFires, DropNext, Answer, fields
<1>2. CASE DropNext
  <2>1. source' = source
    BY <1>2 DEF DropNext
  <2>2. OnTheWay' = OnTheWay /\ (Disconnected' => Disconnected)
    BY <1>1, <2>1 DEF OnTheWay, Disconnected
  <2>3. QED
    BY <1>1, <2>2, Carries DEF BamInv
<1>3. CASE TimerFires \/ Refuse
  <2>1. source.answer = "NotReady" /\ source'.answer \in {"Elapsed", "Refused"}
    <3>1. CASE TimerFires
      BY <3>1 DEF TimerFires, Answer, WaitingAnswers, Elapsed
    <3>2. CASE Refuse
      BY <3>2 DEF Refuse, Answer, Refused
    <3>3. QED
      BY <1>3, <3>1, <3>2
  <2>2. Disconnected
    <3>1. CASE Refuse
      BY <2>1, <3>1 DEF Refuse, Disconnected
    <3>2. CASE TimerFires
      <4>1. Elapsed \in AnswersIn(state)
        BY <3>2 DEF TimerFires, WaitingAnswers, Answer
      <4>2. Elapsed \notin ConnectingAnswers /\ Elapsed \notin StreamingAnswers
        BY DEF Elapsed, ConnectingAnswers, StreamingAnswers, Connected, Refused,
           Update, Status, EndOfStream
      <4>3. state \in {"Streaming", "Waiting", "Connecting", "Ended"}
        BY DEF BamInv, StreamInv, TypeOK
      <4>4. state = "Waiting"
        BY <4>1, <4>2, <4>3 DEF AnswersIn
      <4>5. QED
        BY <4>4 DEF Disconnected
    <3>3. QED
      BY <1>3, <3>1, <3>2
  <2>3. OnTheWay' = OnTheWay
    BY <1>1, <2>1 DEF OnTheWay
  <2>4. QED
    BY <1>1, <2>2, <2>3, Carries DEF BamInv
<1>4. QED
  BY <1>2, <1>3 DEF Sleeping

LEMMA BamMoves == ASSUME BamInv, BamNext PROVE Moves
<1>1. CASE Reader
  BY <1>1, ReaderMoves
<1>2. CASE Publish
  BY <1>2, PublishMoves
<1>3. CASE Joins
  BY <1>3, AcceptMoves
<1>4. CASE Passes
  BY <1>4, IdleMoves, NoticeMoves, LossMoves, ArriveMoves, EndMoves
  DEF Passes, Alone, Passage
<1>5. QED
  BY <1>1, <1>2, <1>3, <1>4 DEF BamNext

-----------------------------------------------------------------------------
(* The invariant. *)

LEMMA SendTyped ==
    ASSUME NEW s \in SessionTypes, NEW u \in Messages, Send(<<u>>, s),
           wire \in Seq(Messages)
    PROVE  wire' \in Seq(Messages) /\ session' \in SessionTypes
<1>1. wire \o <<u>> \in Seq(Messages)
  OBVIOUS
<1>2. [s EXCEPT !.over = "DataLoss"] \in SessionTypes
  BY DEF SessionTypes
<1>3. QED
  BY <1>1, <1>2 DEF Send

\* The session and the wire keep their types.
LEMMA BamTyped ==
    ASSUME BamInv, BamNext
    PROVE  wire' \in Seq(Messages) /\ session' \in SessionTypes
<1>1. /\ wire \in Seq(Messages) /\ session \in SessionTypes
      /\ session.withheld \in Nat /\ published \in Nat
  BY SessionTyped DEF BamInv, BamTypeOK
<1>2. CASE Reader
  BY <1>1, <1>2 DEF Reader
<1>3. CASE Publish
  <2>1. TransactionOf(published + 1) \in Messages
    <3>1. published + 1 \in Nat
      BY <1>1
    <3>2. QED
      BY <3>1 DEF Messages
  <2>2. [session EXCEPT !.withheld = session.withheld + 1] \in SessionTypes
    BY <1>1 DEF SessionTypes
  <2>3. QED
    BY <1>1, <1>3, <2>1, <2>2, SendTyped DEF Publish, SendTransaction, NotSent
<1>4. CASE Joins
  <2>1. wire' = <<>> /\ session' = [over |-> "no", serving |-> TRUE, withheld |-> 0]
    BY <1>4 DEF Joins, Accept, NewSession
  <2>2. QED
    BY <2>1 DEF SessionTypes
<1>5. CASE Passes
  <2>1. CASE Sleeping \/ Refuse
    BY <1>1, <2>1 DEF Sleeping, Refuse, NotSent
  <2>2. CASE SendClip
    <3>1. ClipOf(session.withheld) \in Messages
      BY <1>1 DEF Messages
    <3>2. [session EXCEPT !.withheld = 0] \in SessionTypes
      BY <1>1 DEF SessionTypes
    <3>3. QED
      BY <1>1, <2>2, <3>1, <3>2, SendTyped DEF SendClip
  <2>3. CASE SendPing
    <3>1. PingUpdate \in Messages
      BY DEF Messages
    <3>2. QED
      BY <1>1, <2>3, <3>1, SendTyped DEF SendPing
  <2>4. CASE LoseConnection
    <3>1. PICK n \in 0 .. Len(wire), how \in Statuses \union {"End"} :
            wire' = SubSeq(wire, 1, n) /\ session' = [session EXCEPT !.over = how]
      BY <2>4 DEF LoseConnection
    <3>2. wire' \in Seq(Messages)
      BY <1>1, <3>1
    <3>3. session' \in SessionTypes
      BY <1>1, <3>1 DEF SessionTypes
    <3>4. QED
      BY <3>2, <3>3
  <2>5. CASE Arrive
    BY <1>1, <2>5 DEF Arrive
  <2>6. CASE StreamEnds
    BY <1>1, <2>6 DEF StreamEnds, NoSession, SessionTypes
  <2>7. QED
    BY <1>5, <2>1, <2>2, <2>3, <2>4, <2>5, <2>6 DEF Passes, Alone, Passage
<1>6. QED
  BY <1>2, <1>3, <1>4, <1>5 DEF BamNext

\* What feed and stream do together is, for the stream, a step or nothing.
LEMMA BamStreams == [BamNext]_bamVars => [Next]_vars
<1> SUFFICES ASSUME [BamNext]_bamVars PROVE [Next]_vars
  OBVIOUS
<1>1. CASE Reader
  BY <1>1 DEF Reader, Next
<1>2. CASE Publish
  BY <1>2 DEF Publish
<1>3. ASSUME NEW a, Answer(a) PROVE Next
  <2>1. a \in Answers
    BY <1>3, AnswersTyped DEF Answer
  <2>2. QED
    BY <1>3, <2>1 DEF Answers, Next, TimerFires, CallAnswered, StreamAnswers
<1>4. CASE Joins
  BY <1>3, <1>4 DEF Joins, Accept
<1>5. CASE Passes
  <2>1. CASE Sleeping
    BY <2>1 DEF Sleeping, Next
  <2>2. CASE SendClip \/ SendPing \/ LoseConnection
    BY <2>2 DEF SendClip, SendPing, LoseConnection
  <2>3. CASE Refuse \/ Arrive \/ StreamEnds
    BY <1>3, <2>3 DEF Refuse, Arrive, StreamEnds
  <2>4. QED
    BY <1>5, <2>1, <2>2, <2>3 DEF Passes, Alone, Passage
<1>6. CASE UNCHANGED bamVars
  BY <1>6 DEF bamVars
<1>7. QED
  BY <1>1, <1>2, <1>4, <1>5, <1>6 DEF BamNext

LEMMA BamInitInv == BamInit => BamInv
<1> SUFFICES ASSUME BamInit PROVE BamInv
  OBVIOUS
<1>1. StreamInv
  BY InitInv DEF BamInit
<1>2. /\ published = 0 /\ since = 0 /\ wire = <<>> /\ state = "Streaming"
      /\ session = [over |-> "no", serving |-> TRUE, withheld |-> 0]
      /\ program = [held |-> <<>>, notice |-> 0]
      /\ source.answer = "NotReady" /\ framed
  BY BamDeliveryAssumption DEF BamInit, Init, NewSession, NewProgram, NotReady
<1>3. <<>> \in Seq(Nat) /\ <<>> \in Seq(Messages) /\ Len(<<>>) = 0
  OBVIOUS
<1>4. BamTypeOK
  <2>1. session \in SessionTypes /\ program \in ProgramTypes
    BY <1>2, <1>3 DEF SessionTypes, ProgramTypes
  <2>2. QED
    BY <1>2, <1>3, <2>1 DEF BamTypeOK
<1>5. Here = [count |-> 0, seq |-> 0] /\ OnTheWay = <<>>
  BY <1>2 DEF Here, OnTheWay
<1>6. UnderWay
  <2>1. Here \in Places
    BY <1>5 DEF Places
  <2>2. Current(Here)
    BY <1>2, <1>5 DEF Current
  <2>3. QED
    BY <1>5, <2>1, <2>2, ConnectsEmpty DEF UnderWay
<1>7. Ordered /\ NothingUnderWay /\ since <= published
  BY <1>2 DEF Ordered, NothingUnderWay, Disconnected
<1>8. QED
  BY <1>1, <1>2, <1>4, <1>6, <1>7 DEF BamInv

LEMMA BamStepInv == BamInv /\ [BamNext]_bamVars => BamInv'
<1> SUFFICES ASSUME BamInv, [BamNext]_bamVars PROVE BamInv'
  OBVIOUS
<1>1. StreamInv'
  BY BamStreams, StepInv DEF BamInv
<1>2. CASE BamNext
  <2>1. Moves
    BY <1>2, BamMoves
  <2>2. BamTypeOK'
    BY <1>2, <2>1, BamTyped DEF Moves, BamTypeOK
  <2>3. QED
    BY <1>1, <2>1, <2>2 DEF BamInv, Moves
<1>3. CASE UNCHANGED bamVars
  <2>1. UNCHANGED <<state, framed, source, published, since, session, wire, program>>
    BY <1>3 DEF bamVars, vars
  <2>2. BamTypeOK' /\ Ordered' /\ NothingUnderWay'
    BY <2>1 DEF BamInv, BamTypeOK, Ordered, NothingUnderWay, Disconnected
  <2>3. UnderWay'
    BY <2>1 DEF BamInv, UnderWay, Here, OnTheWay, Up, Current
  <2>4. QED
    BY <1>1, <2>1, <2>2, <2>3 DEF BamInv
<1>4. QED
  BY <1>2, <1>3

\* In every reachable state what is on its way leads the program, one update
\* after the other, to where the feed and the server's session are.
THEOREM BamInvariance == BamSpec => []BamInv
<1>1. QED
  BY BamInitInv, BamStepInv, PTL DEF BamSpec

-----------------------------------------------------------------------------
\* What the program holds is in the feed's order, without repeats, and was
\* published after its stream was accepted, however many streams broke before.
THEOREM HeldStayInOrder == BamSpec => []HeldInOrder
<1>1. BamInv => HeldInOrder
  <2> SUFFICES ASSUME BamInv PROVE HeldInOrder
    OBVIOUS
  <2>1. program.held \in Seq(Nat) /\ Len(program.held) \in Nat /\ Ordered
    BY ProgramTyped DEF BamInv, BamTypeOK
  <2>2. ASSUME NEW i \in DOMAIN program.held, i > 1
        PROVE  program.held[i - 1] < program.held[i]
    <3>1. i \in 1 .. Len(program.held) /\ i - 1 \in 1 .. Len(program.held) /\ i - 1 < i
      BY <2>1, <2>2
    <3>2. QED
      BY <2>1, <3>1 DEF Ordered
  <2>3. ASSUME state = "Streaming", program.held # <<>>
        PROVE  Head(program.held) > since
    <3>1. 1 \in 1 .. Len(program.held) /\ Head(program.held) = program.held[1]
      BY <2>1, <2>3
    <3>2. since < program.held[1]
      BY <2>1, <2>3, <3>1 DEF Ordered
    <3>3. program.held[1] \in Nat /\ since \in Nat
      BY <2>1, <3>1 DEF BamInv, BamTypeOK
    <3>4. QED
      BY <3>1, <3>2, <3>3
  <2>4. QED
    BY <2>2, <2>3 DEF HeldInOrder
<1>2. QED
  BY <1>1, BamInvariance, PTL

\* One update adds to the place what it accounts for.
LEMMA LeadsAccounts ==
    ASSUME NEW p \in Places, NEW u, NEW q, Leads(p, u, q)
    PROVE  Accounts(u) \in Nat /\ q.count = p.count + Accounts(u)
<1>1. p.count \in Nat
  BY DEF Places
<1>2. CASE ReadsTransaction(p, u, q)
  BY <1>2 DEF ReadsTransaction, TransactionOf, Accounts
<1>3. CASE ReadsClip(p, u, q)
  BY <1>3 DEF ReadsClip, ClipOf, Accounts
<1>4. CASE u = PingUpdate /\ q = p
  BY <1>1, <1>4 DEF PingUpdate, Accounts
<1>5. QED
  BY <1>2, <1>3, <1>4 DEF Leads

\* What is on its way adds up to the way from where the program is.
LEMMA AccountedIs ==
    ASSUME BamInv, NEW end, Connects(Steps, Places, Here, OnTheWay, end)
    PROVE  Accounted = end.count - Here.count
<1> DEFINE n == Len(OnTheWay)
           g == [i \in 1 .. n |-> Accounts(OnTheWay[i])]
<1>1. OnTheWay \in Seq(Messages) /\ n \in Nat
  BY OnTheWayTyped
<1>2. PICK path \in [0 .. n -> Places] :
        /\ path[0] = Here
        /\ path[n] = end
        /\ \A i \in 1 .. n : <<path[i - 1], OnTheWay[i], path[i]>> \in Steps
  BY DEF Connects
<1> DEFINE c == [i \in 0 .. n |-> path[i].count]
<1>3. c \in [0 .. n -> Nat] /\ c[0] = Here.count /\ c[n] = end.count
  <2>1. \A i \in 0 .. n : path[i].count \in Nat
    BY <1>2 DEF Places
  <2>2. QED
    BY <1>1, <1>2, <2>1
<1>4. \A i \in 1 .. n : g[i] \in Nat /\ c[i] = c[i - 1] + g[i]
  <2>1. ASSUME NEW i \in 1 .. n
        PROVE  /\ Accounts(OnTheWay[i]) \in Nat
               /\ path[i].count = path[i - 1].count + Accounts(OnTheWay[i])
    <3>1. path[i - 1] \in Places /\ Leads(path[i - 1], OnTheWay[i], path[i])
      BY <1>1, <1>2 DEF Steps
    <3>2. QED
      BY <3>1, LeadsAccounts
  <2>2. QED
    BY <1>1, <2>1
<1>5. g \in [1 .. n -> Nat]
  BY <1>4
<1> DEFINE Sums(f) == f = [i \in 0 .. n |->
                             IF i = 0 THEN 0 ELSE f[i - 1] + Accounts(OnTheWay[i])]
           sum == CHOOSE f : Sums(f)
<1>6. Sums([i \in 0 .. n |-> c[i] - c[0]])
  <2> DEFINE w == [i \in 0 .. n |-> c[i] - c[0]]
  <2>1. \A i \in 0 .. n :
          w[i] = IF i = 0 THEN 0 ELSE w[i - 1] + Accounts(OnTheWay[i])
    <3>1. ASSUME NEW i \in 0 .. n, i # 0
          PROVE  w[i] = w[i - 1] + Accounts(OnTheWay[i])
      <4>1. /\ i \in 1 .. n /\ i - 1 \in 0 .. n
            /\ c[i] \in Nat /\ c[i - 1] \in Nat /\ c[0] \in Nat
        <5>1. n \in Nat /\ c \in [0 .. n -> Nat]
          BY <1>1, <1>3
        <5> HIDE DEF c, n
        <5>2. QED
          BY ONLY <3>1, <5>1
      <4>2. c[i] = c[i - 1] + Accounts(OnTheWay[i]) /\ Accounts(OnTheWay[i]) \in Nat
        BY <1>4, <4>1
      <4> HIDE DEF c, n
      <4>3. i \in 0 .. n
        BY ONLY <3>1
      <4>4. w[i] = c[i] - c[0] /\ w[i - 1] = c[i - 1] - c[0]
        BY ONLY <4>1, <4>3
      <4> HIDE DEF w
      <4>5. QED
        BY ONLY <4>1, <4>2, <4>4
    <3>2. w[0] = 0
      BY <1>1, <1>3
    <3>3. QED
      BY <3>1, <3>2
  <2>2. QED
    BY <2>1
<1>7. Sums(sum)
  BY <1>6
<1>8. Accounted = sum[n]
  BY DEF Accounted
<1>9. \A i \in 0 .. n : sum[i] = IF i = 0 THEN 0 ELSE sum[i - 1] + g[i]
  <2>1. sum = [i \in 0 .. n |->
                 IF i = 0 THEN 0 ELSE sum[i - 1] + Accounts(OnTheWay[i])]
    BY <1>7
  <2>2. \A i \in 0 .. n : i # 0 => i \in 1 .. n
    BY <1>1
  <2> HIDE DEF sum, n
  <2>3. \A i \in 0 .. n :
          sum[i] = IF i = 0 THEN 0 ELSE sum[i - 1] + Accounts(OnTheWay[i])
    BY <2>1
  <2>4. QED
    BY <2>2, <2>3
<1> HIDE DEF n, g, c, sum
<1>10. sum[n] = c[n] - c[0]
  BY <1>1, <1>3, <1>4, <1>5, <1>9, TotalIs
<1>11. QED
  BY <1>3, <1>8, <1>10

\* While a stream is up, every transaction published since it was accepted is
\* held, on its way, or announced as withheld, exactly once.
THEOREM OpenStreamsAreComplete == BamSpec => []OpenStreamIsComplete
<1>1. BamInv => OpenStreamIsComplete
  <2> SUFFICES ASSUME BamInv, state = "Streaming", Up PROVE OpenStreamIsComplete
    BY DEF OpenStreamIsComplete
  <2>1. PICK end \in Places :
          Connects(Steps, Places, Here, OnTheWay, end) /\ Current(end)
    BY DEF BamInv, UnderWay
  <2>2. Accounted = end.count - Here.count
    BY <2>1, AccountedIs
  <2>3. end.count + session.withheld = published - since
    BY <2>1 DEF Current
  <2>4. Here.count = Len(program.held) + program.notice
    BY DEF Here
  <2>5. /\ end.count \in Nat /\ session.withheld \in Nat /\ Len(program.held) \in Nat
        /\ program.notice \in Nat
    BY ProgramTyped, SessionTyped DEF Places, BamInv, BamTypeOK
  <2>6. published - since =
          ((Len(program.held) + program.notice) + Accounted) + session.withheld
    BY <2>2, <2>3, <2>4, <2>5
  <2>7. QED
    BY <2>6 DEF OpenStreamIsComplete
<1>2. QED
  BY <1>1, BamInvariance, PTL

\* With the server, the connection and the feed around it the stream still
\* keeps the promise of Subscription.
THEOREM BamKeepsPromise == BamSpec => KeepsPromise
<1>1. BamInit => Promise!Init
  BY DEF BamInit, Init, Opened, Promise!Init, Tries
<1>2. BamInv /\ [BamNext]_bamVars => [Promise!Next]_(Promise!vars)
  BY BamStreams, StepPromise DEF BamInv
<1>3. QED
  BY <1>1, <1>2, BamInvariance, PTL DEF BamSpec, KeepsPromise, Promise!Spec
=============================================================================

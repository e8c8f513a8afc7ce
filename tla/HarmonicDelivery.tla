--------------------------- MODULE HarmonicDelivery ---------------------------
(***************************************************************************)
(* One Harmonic subscription end to end: the region's feed of slots, the   *)
(* server's stream for this subscriber, the connection between them, the   *)
(* EventStream, and a program that reads it as the delivery contract of    *)
(* preconfs.proto tells it to.                                             *)
(*                                                                         *)
(* The feed, the server and the network are not in this repository; they   *)
(* do what preconfs.proto says of them.  A slot is framed by SlotStart and *)
(* SlotEnd; a slot that already ended may be restarted.  The model numbers *)
(* the frames, and the transactions inside a frame that match the filters, *)
(* to tell them apart: the client reads neither number.                    *)
(*                                                                         *)
(* The server may lose the connection with whatever is on the wire, refuse *)
(* a subscription, withhold transactions over the coverage share (and      *)
(* announce it), and close a stream whose reader lags.  Whether it holds   *)
(* back the slot that is open when a stream joins is left open: the client *)
(* does that for itself.                                                   *)
(***************************************************************************)
EXTENDS Transport

CONSTANTS
    MaxSlot,    \* slots are 1 .. MaxSlot
    MaxFrames,  \* frames the feed publishes before it falls silent
    MaxTxs      \* matching transactions in one frame

ASSUME DeliveryAssumption ==
    /\ SLOT_FRAMING
    /\ MaxSlot \in Nat /\ MaxFrames \in Nat /\ MaxTxs \in Nat

VARIABLES
    frames,   \* the frames published, in order: slot, matching txs, ended
    program   \* what the program has made of the items it was given

deliveryVars == <<vars, frames, session, wire, program>>

-----------------------------------------------------------------------------
(* Updates, as the feed's protobuf messages. *)

SlotStartOf(s, f) == [payload |-> "SlotStart", body |-> [slot |-> s, frame |-> f]]
SlotEndOf(s, f) == [payload |-> "SlotEnd", body |-> [slot |-> s, frame |-> f]]
TransactionOf(s, f, n) ==
    [payload |-> "Transaction", body |-> [slot |-> s, frame |-> f, seq |-> n]]

DeliveryUpdates ==
    {SlotStartOf(s, f) : s \in 1 .. MaxSlot, f \in 1 .. MaxFrames}
      \union {SlotEndOf(s, f) : s \in 1 .. MaxSlot, f \in 1 .. MaxFrames}
      \union {TransactionOf(s, f, n) :
                s \in 1 .. MaxSlot, f \in 1 .. MaxFrames, n \in 1 .. MaxTxs}
      \union {ClipOf(n) : n \in 1 .. MaxTxs}
      \union {PingUpdate}

-----------------------------------------------------------------------------
(* The program. *)

\* open: the frame being collected, 0 if none; held: its transactions; notice:
\* how many were withheld; last: the newest frame seen; resumed: whether a
\* Reconnected (or subscribing) precedes the next frame; kept: for each slot
\* the frame that completed it since then, 0 if none.
NewProgram ==
    [open |-> 0, held |-> <<>>, notice |-> 0, last |-> 0, resumed |-> TRUE,
     kept |-> [s \in 1 .. MaxSlot |-> 0]]

\* A repeated SlotStart discards what is held of the slot, Clip accounts for
\* what was withheld, SlotEnd completes the frame, Reconnected voids the rest.
Reads(p, event) ==
    CASE event.event = "SlotStart" ->
           [p EXCEPT !.open = event.body.frame, !.held = <<>>, !.notice = 0,
                     !.last = event.body.frame, !.resumed = FALSE,
                     !.kept[event.body.slot] = 0]
      [] event.event = "Transaction" -> [p EXCEPT !.held = Append(@, event.body)]
      [] event.event = "Clip" -> [p EXCEPT !.notice = @ + event.body.transactions]
      [] event.event = "SlotEnd" ->
           [p EXCEPT !.open = 0, !.kept[event.body.slot] = event.body.frame]

ProgramReads ==
    program' =
      IF ~Returned THEN program
      ELSE IF ret'.item = "Event" THEN Reads(program, ret'.event)
      ELSE IF ret'.item = "Reconnected" THEN [NewProgram EXCEPT !.last = program.last]
      ELSE program

-----------------------------------------------------------------------------
(* The feed. *)

Open == frames # <<>> /\ ~Last(frames).ended
Frame == Len(frames)

DeliveryInit ==
    /\ Init
    /\ frames = <<>>
    /\ session = NewSession(TRUE)
    /\ wire = <<>>
    /\ program = NewProgram

\* A leader begins a slot, the next one or again one that ended.
StartSlot(s) ==
    /\ ~Open
    /\ Frame < MaxFrames
    /\ \/ \E f \in 1 .. Frame : frames[f].slot = s
       \/ \A f \in 1 .. Frame : frames[f].slot < s
    /\ frames' = Append(frames, [slot |-> s, txs |-> 0, ended |-> FALSE])
    /\ IF Up
       THEN Send(<<SlotStartOf(s, Frame + 1)>>, [session EXCEPT !.serving = TRUE])
       ELSE NotSent
    /\ UNCHANGED <<vars, program>>

\* A transaction that matches the filters.
MatchTransaction ==
    /\ Open
    /\ Last(frames).txs < MaxTxs
    /\ frames' = [frames EXCEPT ![Frame].txs = @ + 1]
    /\ SendTransaction(TransactionOf(Last(frames).slot, Frame, frames'[Frame].txs))
    /\ UNCHANGED <<vars, program>>

\* A pending notice goes out before the slot ends.
EndSlot ==
    /\ Open
    /\ frames' = [frames EXCEPT ![Frame].ended = TRUE]
    /\ IF Up /\ session.serving
       THEN Send((IF session.withheld > 0 THEN <<ClipOf(session.withheld)>> ELSE <<>>)
                   \o <<SlotEndOf(Last(frames).slot, Frame)>>,
                 [session EXCEPT !.withheld = 0])
       ELSE NotSent
    /\ UNCHANGED <<vars, program>>

Feed == (\E s \in 1 .. MaxSlot : StartSlot(s)) \/ MatchTransaction \/ EndSlot

-----------------------------------------------------------------------------
Reader ==
    /\ ClientStep
    /\ ProgramReads
    /\ UNCHANGED <<frames, session, wire>>

Joins == (\E serving \in BOOLEAN : Accept(serving)) /\ UNCHANGED <<frames, program>>

Passes == Passage /\ UNCHANGED <<frames, program>>

DeliveryNext == Reader \/ Feed \/ Joins \/ Passes

\* As for EventStream; and what is in flight on a connection arrives.
DeliverySpec ==
    /\ DeliveryInit
    /\ [][DeliveryNext]_deliveryVars
    /\ WF_deliveryVars(Reader)
    /\ WF_deliveryVars(Arrive /\ UNCHANGED <<frames, program>>)

-----------------------------------------------------------------------------
(* Properties. *)

Shown(event) == ret.item = "Event" /\ ret.event.event = event

\* After SlotEnd for a slot the program holds, in order and once each, every
\* transaction of that frame that matched, but for as many as Clip announced:
\* a partially observed slot is never mistaken for a complete one.
CompleteSlots ==
    Shown("SlotEnd") =>
      LET f == ret.event.body.frame
      IN  /\ program.last = f
          /\ Len(program.held) + program.notice = frames[f].txs
          /\ \A i \in DOMAIN program.held :
               /\ program.held[i].frame = f
               /\ i > 1 => program.held[i - 1].seq < program.held[i].seq

Contract == INSTANCE SlotContract WITH Slots <- 1 .. MaxSlot

\* Server, connection and stream together give the program what the contract
\* promises of the feed alone: whole frames, in order, nothing outside a frame,
\* every omission announced, whatever is lost, cut off, resubscribed or dropped.
FollowsContract == Contract!Spec

\* A frame the feed published is never skipped, and a frame the program was
\* collecting never abandoned, unless a Reconnected says so.
GapsAnnounced ==
    [][ (Returned /\ ret'.item = "Event" /\ ret'.event.event = "SlotStart") =>
          \/ program.resumed
          \/ ret'.event.body.frame = program.last + 1 /\ program.open = 0
      ]_deliveryVars

Definitive(s, f) ==
    /\ frames[f].slot = s
    /\ \A g \in f + 1 .. Frame : frames[g].slot # s

\* A program that has read all there is to read and saw no Reconnected since
\* holds for each slot it completed the definitive frame, restarts included.
HeldIsDefinitive ==
    (Up /\ wire = <<>> /\ source.answer = "NotReady" /\ state = "Streaming" /\ ~Open)
      => \A s \in 1 .. MaxSlot :
           program.kept[s] # 0 => Definitive(s, program.kept[s])

\* What is in flight is read, or dropped with its connection: the program's
\* stream never stalls with data to read.
WireDrains == (wire # <<>>) ~> (wire = <<>>)
=============================================================================

------------------------ MODULE HarmonicDeliveryProofs ------------------------
(***************************************************************************)
(* Proofs about HarmonicDelivery, for every number of slots, frames and    *)
(* transactions, every capacity of the wire, every policy and every set of *)
(* statuses.                                                               *)
(*                                                                         *)
(* The inductive invariant follows the updates that are under way.  Here   *)
(* is the place in the feed the program has reached; each update under way *)
(* leads from one place to the next; and while the stream is up the last   *)
(* of these places is where the feed and the server's session now are.     *)
(***************************************************************************)
EXTENDS HarmonicDelivery, EventStreamProofs, PathProofs

\* A reader's place in the feed: whether it joined a frame on this raw stream,
\* the frame it is in (0 if none), how many of its transactions it read or was
\* told of, the newest one it read, and the newest frame.
Places == [joined : BOOLEAN, open : Nat, count : Nat, seq : Nat, last : Nat]

FrameTypes == [slot : 1 .. MaxSlot, txs : Nat, ended : BOOLEAN]
Frames == Seq(FrameTypes)

\* The frames of a feed only ever gain: more frames, more transactions in one
\* that has not ended.
Grows(fr, fr2) ==
    /\ Len(fr) <= Len(fr2)
    /\ \A f \in 1 .. Len(fr) :
         /\ fr2[f].slot = fr[f].slot
         /\ fr[f].txs <= fr2[f].txs
         /\ fr[f].ended => fr2[f] = fr[f]

-----------------------------------------------------------------------------
(* What reading an update of the feed fr does to a reader at p. *)

ReadsStart(fr, p, u, q) ==
    \E f \in 1 .. Len(fr) :
      /\ u = SlotStartOf(fr[f].slot, f)
      /\ IF p.joined THEN f = p.last + 1 /\ p.open = 0 ELSE f > p.last
      /\ q = [joined |-> TRUE, open |-> f, count |-> 0, seq |-> 0, last |-> f]

ReadsTransaction(fr, p, u, q) ==
    \E f \in 1 .. Len(fr), n \in Nat :
      /\ u = TransactionOf(fr[f].slot, f, n)
      /\ p.joined => p.open = f /\ p.seq < n /\ n <= fr[f].txs
      /\ q = IF p.joined THEN [p EXCEPT !.count = p.count + 1, !.seq = n] ELSE p

ReadsClip(fr, p, u, q) ==
    \E n \in Nat \ {0} :
      /\ u = ClipOf(n)
      /\ p.joined => p.open \in 1 .. Len(fr) /\ p.count + n <= fr[p.open].txs
      /\ q = IF p.joined THEN [p EXCEPT !.count = p.count + n] ELSE p

ReadsEnd(fr, p, u, q) ==
    \E f \in 1 .. Len(fr) :
      /\ u = SlotEndOf(fr[f].slot, f)
      /\ p.joined => p.open = f /\ fr[f].ended /\ p.count = fr[f].txs
      /\ q = IF p.joined THEN [p EXCEPT !.open = 0] ELSE p

ReadsPing(p, u, q) == u = PingUpdate /\ q = p

Leads(fr, p, u, q) ==
    \/ ReadsStart(fr, p, u, q)
    \/ ReadsTransaction(fr, p, u, q)
    \/ ReadsClip(fr, p, u, q)
    \/ ReadsEnd(fr, p, u, q)
    \/ ReadsPing(p, u, q)

Messages ==
    {SlotStartOf(s, f) : s \in 1 .. MaxSlot, f \in Nat}
      \union {SlotEndOf(s, f) : s \in 1 .. MaxSlot, f \in Nat}
      \union {TransactionOf(s, f, n) : s \in 1 .. MaxSlot, f \in Nat, n \in Nat}
      \union {ClipOf(n) : n \in Nat}
      \union {PingUpdate}

\* The steps of a reader of the feed fr.
Along(fr) ==
    {t \in Places \X Messages \X Places : Leads(fr, t[1], t[2], t[3])}

-----------------------------------------------------------------------------
LEMMA FramesTyped ==
    ASSUME NEW fr \in Frames, NEW f \in 1 .. Len(fr)
    PROVE  /\ Len(fr) \in Nat
           /\ fr[f].slot \in 1 .. MaxSlot
           /\ fr[f].txs \in Nat
           /\ fr[f].ended \in BOOLEAN
<1>1. Len(fr) \in Nat /\ fr[f] \in FrameTypes
  BY DEF Frames
<1>2. QED
  BY <1>1 DEF FrameTypes

\* What the feed has published stays readable as the feed goes on.
LEMMA LeadsGrows ==
    ASSUME NEW fr \in Frames, NEW fr2 \in Frames, Grows(fr, fr2),
           NEW p \in Places, NEW u, NEW q, Leads(fr, p, u, q)
    PROVE  Leads(fr2, p, u, q)
<1>1. ASSUME NEW f \in 1 .. Len(fr)
      PROVE  /\ f \in 1 .. Len(fr2)
             /\ fr2[f].slot = fr[f].slot
             /\ fr[f].txs \in Nat /\ fr2[f].txs \in Nat
             /\ fr[f].txs <= fr2[f].txs
             /\ fr[f].ended => fr2[f] = fr[f]
  <2>1. Len(fr) \in Nat /\ Len(fr2) \in Nat
    BY DEF Frames
  <2>2. f \in 1 .. Len(fr2)
    BY <2>1 DEF Grows
  <2>3. fr[f].txs \in Nat /\ fr2[f].txs \in Nat
    BY <2>2, FramesTyped
  <2>4. QED
    BY <2>2, <2>3, Zenon DEF Grows
<1>2. p.open \in Nat /\ p.seq \in Nat /\ p.count \in Nat
  BY DEF Places
<1>3. CASE ReadsStart(fr, p, u, q)
  BY <1>1, <1>3, Zenon DEF ReadsStart, Leads
<1>4. CASE ReadsTransaction(fr, p, u, q)
  <2>1. PICK f \in 1 .. Len(fr), n \in Nat :
          /\ u = TransactionOf(fr[f].slot, f, n)
          /\ p.joined => p.open = f /\ p.seq < n /\ n <= fr[f].txs
          /\ q = IF p.joined THEN [p EXCEPT !.count = p.count + 1, !.seq = n] ELSE p
    BY <1>4, Zenon DEF ReadsTransaction
  <2>2. n <= fr[f].txs => n <= fr2[f].txs
    BY <1>1
  <2>3. QED
    BY <1>1, <2>1, <2>2, Zenon DEF ReadsTransaction, Leads
<1>5. CASE ReadsClip(fr, p, u, q)
  <2>1. PICK n \in Nat \ {0} :
          /\ u = ClipOf(n)
          /\ p.joined => p.open \in 1 .. Len(fr) /\ p.count + n <= fr[p.open].txs
          /\ q = IF p.joined THEN [p EXCEPT !.count = p.count + n] ELSE p
    BY <1>5, Zenon DEF ReadsClip
  <2>2. p.joined => p.open \in 1 .. Len(fr2) /\ p.count + n <= fr2[p.open].txs
    BY <1>1, <1>2, <2>1
  <2>3. QED
    BY <2>1, <2>2, Zenon DEF ReadsClip, Leads
<1>6. CASE ReadsEnd(fr, p, u, q)
  BY <1>1, <1>6, Zenon DEF ReadsEnd, Leads
<1>7. CASE ReadsPing(p, u, q)
  BY <1>7, Zenon DEF Leads
<1>8. QED
  BY <1>3, <1>4, <1>5, <1>6, <1>7 DEF Leads

\* Which update it is that leads on.
LEMMA LeadsPayload ==
    ASSUME NEW fr, NEW p, NEW u, NEW q
    PROVE  /\ ReadsStart(fr, p, u, q) => u.payload = "SlotStart"
           /\ ReadsTransaction(fr, p, u, q) => u.payload = "Transaction"
           /\ ReadsClip(fr, p, u, q) => u.payload = "Clip"
           /\ ReadsEnd(fr, p, u, q) => u.payload = "SlotEnd"
           /\ ReadsPing(p, u, q) => u.payload = "Ping"
<1>1. ReadsStart(fr, p, u, q) => u.payload = "SlotStart"
  BY DEF ReadsStart, SlotStartOf
<1>2. ReadsTransaction(fr, p, u, q) => u.payload = "Transaction"
  BY DEF ReadsTransaction, TransactionOf
<1>3. ReadsClip(fr, p, u, q) => u.payload = "Clip"
  BY DEF ReadsClip, ClipOf
<1>4. ReadsEnd(fr, p, u, q) => u.payload = "SlotEnd"
  BY DEF ReadsEnd, SlotEndOf
<1>5. ReadsPing(p, u, q) => u.payload = "Ping"
  BY DEF ReadsPing, PingUpdate
<1>6. QED
  BY <1>1, <1>2, <1>3, <1>4, <1>5

\* A place stays a place.
LEMMA LeadsTyped ==
    ASSUME NEW fr \in Frames, NEW p \in Places, NEW u, NEW q, Leads(fr, p, u, q)
    PROVE  q \in Places
<1>1. Len(fr) \in Nat
  BY DEF Frames
<1>2. CASE ReadsStart(fr, p, u, q)
  BY <1>1, <1>2 DEF ReadsStart, Places
<1>3. CASE ReadsTransaction(fr, p, u, q)
  <2>1. PICK n \in Nat :
          q = IF p.joined THEN [p EXCEPT !.count = p.count + 1, !.seq = n] ELSE p
    BY <1>3, Zenon DEF ReadsTransaction
  <2>2. p.count + 1 \in Nat
    BY DEF Places
  <2>3. QED
    BY <2>1, <2>2 DEF Places
<1>4. CASE ReadsClip(fr, p, u, q)
  <2>1. PICK n \in Nat : q = IF p.joined THEN [p EXCEPT !.count = p.count + n] ELSE p
    BY <1>4 DEF ReadsClip
  <2>2. QED
    BY <2>1 DEF Places
<1>5. CASE ReadsEnd(fr, p, u, q)
  <2>1. q = IF p.joined THEN [p EXCEPT !.open = 0] ELSE p
    BY <1>5, Zenon DEF ReadsEnd
  <2>2. QED
    BY <2>1 DEF Places
<1>6. CASE ReadsPing(p, u, q)
  BY <1>6 DEF ReadsPing
<1>7. QED
  BY <1>2, <1>3, <1>4, <1>5, <1>6 DEF Leads

\* What leads on is an update of the feed.
LEMMA LeadsMessages ==
    ASSUME NEW fr \in Frames, NEW p, NEW u, NEW q, Leads(fr, p, u, q)
    PROVE  u \in Messages
<1>1. CASE ReadsStart(fr, p, u, q)
  <2>1. PICK f \in 1 .. Len(fr) : u = SlotStartOf(fr[f].slot, f)
    BY <1>1 DEF ReadsStart
  <2>2. f \in Nat /\ fr[f].slot \in 1 .. MaxSlot
    BY FramesTyped
  <2>3. QED
    BY <2>1, <2>2 DEF Messages
<1>2. CASE ReadsTransaction(fr, p, u, q)
  <2>1. PICK f \in 1 .. Len(fr), n \in Nat : u = TransactionOf(fr[f].slot, f, n)
    BY <1>2 DEF ReadsTransaction
  <2>2. f \in Nat /\ fr[f].slot \in 1 .. MaxSlot
    BY FramesTyped
  <2>3. QED
    BY <2>1, <2>2 DEF Messages
<1>3. CASE ReadsClip(fr, p, u, q)
  BY <1>3 DEF ReadsClip, Messages
<1>4. CASE ReadsEnd(fr, p, u, q)
  <2>1. PICK f \in 1 .. Len(fr) : u = SlotEndOf(fr[f].slot, f)
    BY <1>4 DEF ReadsEnd
  <2>2. f \in Nat /\ fr[f].slot \in 1 .. MaxSlot
    BY FramesTyped
  <2>3. QED
    BY <2>1, <2>2 DEF Messages
<1>5. CASE ReadsPing(p, u, q)
  BY <1>5 DEF ReadsPing, Messages
<1>6. QED
  BY <1>1, <1>2, <1>3, <1>4, <1>5 DEF Leads

\* A step of a reader, and that the steps of a feed stay possible.
LEMMA StepsAlong ==
    ASSUME NEW fr \in Frames, NEW p \in Places, NEW q \in Places, NEW u
    PROVE  <<p, u, q>> \in Along(fr) <=> Leads(fr, p, u, q)
  BY LeadsMessages DEF Along

LEMMA AlongGrows ==
    ASSUME NEW fr \in Frames, NEW fr2 \in Frames, Grows(fr, fr2)
    PROVE  Along(fr) \subseteq Along(fr2)
<1>1. ASSUME NEW t \in Along(fr) PROVE t \in Along(fr2)
  <2>1. t \in Places \X Messages \X Places /\ Leads(fr, t[1], t[2], t[3])
    BY DEF Along
  <2>2. Leads(fr2, t[1], t[2], t[3])
    BY <2>1, LeadsGrows
  <2>3. QED
    BY <2>1, <2>2 DEF Along
<1>2. QED
  BY <1>1

-----------------------------------------------------------------------------
(* The inductive invariant. *)

\* Where the program is: after a drop it is in no frame and joined none.
Here ==
    IF state = "Streaming"
    THEN [joined |-> framed, open |-> program.open,
          count |-> Len(program.held) + program.notice,
          seq |-> IF program.held = <<>> THEN 0
                  ELSE program.held[Len(program.held)].seq,
          last |-> program.last]
    ELSE [joined |-> FALSE, open |-> 0, count |-> 0, seq |-> 0, last |-> program.last]

\* Where the feed and the session are, for a reader that is at p.
Current(p) ==
    /\ p.last <= Frame
    /\ p.joined =>
         /\ session.serving
         /\ p.last = Frame
         /\ p.open = IF Open THEN Frame ELSE 0
         /\ Open => /\ p.count + session.withheld = frames[Frame].txs
                    /\ p.seq <= frames[Frame].txs
    /\ session.withheld > 0 => session.serving /\ Open

\* The answer to be taken and the updates on the wire lead the program to
\* where the feed is.
UnderWay ==
    \E next \in Places, end \in Places :
      /\ IF source.answer = "Update" THEN Leads(frames, Here, source.update, next)
         ELSE next = Here
      /\ Connects(Along(frames), Places, next, wire, end)
      /\ Up => Current(end)

TransactionTypes == [slot : 1 .. MaxSlot, frame : Nat, seq : Nat]

ProgramTypes ==
    [open : Nat, held : Seq(TransactionTypes), notice : Nat, last : Nat,
     resumed : BOOLEAN, kept : [1 .. MaxSlot -> Nat]]

\* What the program has of the feed: the transactions of the newest frame it
\* saw, in order, and frames that were not restarted up to there.
ProgramInv ==
    /\ program.last <= Frame
    /\ program.open \in {0, program.last}
    /\ \A i \in 1 .. Len(program.held) : program.held[i].frame = program.last
    /\ \A i, j \in 1 .. Len(program.held) :
         i < j => program.held[i].seq < program.held[j].seq
    /\ program.resumed =>
         program.open = 0 /\ \A s \in 1 .. MaxSlot : program.kept[s] = 0
    /\ \A s \in 1 .. MaxSlot : program.kept[s] # 0 =>
         /\ program.kept[s] <= program.last
         /\ frames[program.kept[s]].slot = s
         /\ \A g \in program.kept[s] + 1 .. program.last : frames[g].slot # s

SessionTypes ==
    [over : Statuses \union {"none", "no", "End", "DataLoss"},
     serving : BOOLEAN, withheld : Nat]

DeliveryTypeOK ==
    /\ frames \in Frames
    /\ program \in ProgramTypes
    /\ session \in SessionTypes
    /\ wire \in Seq(Messages)

\* There is nothing under way while the stream has no connection.
Disconnected ==
    \/ state \in {"Waiting", "Ended"}
    \/ state = "Connecting" /\ source.answer # "Connected"
    \/ state = "Streaming" /\ source.answer \in {"Status", "End"}

NothingUnderWay == Disconnected => session.over = "none" /\ wire = <<>>

\* Until a raw stream shows a SlotStart the program has nothing of it.
Voided ==
    (state = "Streaming" /\ ~framed) => program = [NewProgram EXCEPT !.last = program.last]

\* A frame whose SlotEnd was just shown has ended and is accounted for.
Completed ==
    Shown("SlotEnd") =>
      /\ program.last = ret.event.body.frame
      /\ program.last # 0
      /\ frames[program.last].ended
      /\ Len(program.held) + program.notice = frames[program.last].txs

DeliveryInv ==
    /\ StreamInv
    /\ DeliveryTypeOK
    /\ ProgramInv
    /\ NothingUnderWay
    /\ Voided
    /\ UnderWay
    /\ Completed

-----------------------------------------------------------------------------
(* The contract keeps the program's part of the invariant. *)

LEMMA ProgramTyped ==
    ASSUME program \in ProgramTypes
    PROVE  /\ program.open \in Nat /\ program.notice \in Nat /\ program.last \in Nat
           /\ program.resumed \in BOOLEAN
           /\ program.kept \in [1 .. MaxSlot -> Nat]
           /\ program.held \in Seq(TransactionTypes)
           /\ Len(program.held) \in Nat
           /\ \A i \in 1 .. Len(program.held) :
                /\ program.held[i] \in TransactionTypes
                /\ program.held[i].frame \in Nat
                /\ program.held[i].seq \in Nat
<1>1. program.held \in Seq(TransactionTypes)
  BY DEF ProgramTypes
<1>2. Len(program.held) \in Nat
  BY <1>1
<1>3. ASSUME NEW i \in 1 .. Len(program.held) PROVE program.held[i] \in TransactionTypes
  BY <1>1
<1>4. QED
  BY <1>1, <1>2, <1>3 DEF ProgramTypes, TransactionTypes

\* The feed's own steps: the frames keep their type, and only gain.
LEMMA FeedGrows ==
    ASSUME frames \in Frames,
           \/ \E s \in 1 .. MaxSlot : Contract!StartSlot(s)
           \/ Contract!MatchTransaction
           \/ Contract!EndSlot
    PROVE  frames' \in Frames /\ Grows(frames, frames')
<1>1. CASE \E s \in 1 .. MaxSlot : Contract!StartSlot(s)
  <2>1. PICK s \in 1 .. MaxSlot : Contract!StartSlot(s)
    BY <1>1
  <2> DEFINE new == [slot |-> s, txs |-> 0, ended |-> FALSE]
  <2>2. new \in FrameTypes /\ frames' = Append(frames, new)
    BY <2>1 DEF Contract!StartSlot, FrameTypes
  <2>3. /\ frames' \in Frames /\ Len(frames) \in Nat /\ Len(frames') = Len(frames) + 1
        /\ \A f \in 1 .. Len(frames) : frames'[f] = frames[f]
    BY <2>2 DEF Frames
  <2>4. \A f \in 1 .. Len(frames) : frames[f].txs \in Nat
    BY FramesTyped
  <2>5. QED
    BY <2>3, <2>4 DEF Grows
<1>2. ASSUME frames # <<>>, ~frames[Len(frames)].ended, NEW new \in FrameTypes,
             new.slot = frames[Len(frames)].slot, new.txs >= frames[Len(frames)].txs,
             frames' = [frames EXCEPT ![Len(frames)] = new]
      PROVE  frames' \in Frames /\ Grows(frames, frames')
  <2>1. Len(frames) \in Nat /\ Len(frames) \in 1 .. Len(frames)
    BY <1>2 DEF Frames
  <2>2. frames' \in Frames /\ Len(frames') = Len(frames)
    BY <1>2, <2>1 DEF Frames
  <2>3. \A f \in 1 .. Len(frames) :
          frames'[f] = IF f = Len(frames) THEN new ELSE frames[f]
    BY <1>2 DEF Frames
  <2>4. \A f \in 1 .. Len(frames) : frames[f].txs \in Nat
    BY FramesTyped
  <2>5. ASSUME NEW f \in 1 .. Len(frames)
        PROVE  /\ frames'[f].slot = frames[f].slot
               /\ frames[f].txs <= frames'[f].txs
               /\ frames[f].ended => frames'[f] = frames[f]
    <3>1. CASE f = Len(frames)
      <4>1. new.txs \in Nat /\ frames'[f] = new
        BY <1>2, <2>3, <3>1 DEF FrameTypes
      <4>2. QED
        BY <1>2, <2>4, <3>1, <4>1
    <3>2. CASE f # Len(frames)
      BY <2>3, <2>4, <3>2
    <3>3. QED
      BY <3>1, <3>2
  <2>6. QED
    BY <2>1, <2>2, <2>5 DEF Grows
<1>3. CASE Contract!MatchTransaction \/ Contract!EndSlot
  <2>1. frames # <<>> /\ ~frames[Len(frames)].ended
    BY <1>3 DEF Contract!MatchTransaction, Contract!EndSlot, Contract!Newest
  <2>2. Len(frames) \in 1 .. Len(frames)
    BY <2>1 DEF Frames
  <2>3. frames[Len(frames)] \in FrameTypes
    BY <2>2 DEF Frames
  <2> DEFINE old == frames[Len(frames)]
  <2>4. CASE Contract!MatchTransaction
    <3>1. frames' = [frames EXCEPT ![Len(frames)] = [old EXCEPT !.txs = old.txs + 1]]
      BY <2>4 DEF Contract!MatchTransaction
    <3>2. /\ [old EXCEPT !.txs = old.txs + 1] \in FrameTypes
          /\ [old EXCEPT !.txs = old.txs + 1].slot = old.slot
          /\ [old EXCEPT !.txs = old.txs + 1].txs >= old.txs
      BY <2>3 DEF FrameTypes
    <3>3. QED
      BY <1>2, <2>1, <3>1, <3>2
  <2>5. CASE Contract!EndSlot
    <3>1. frames' = [frames EXCEPT ![Len(frames)] = [old EXCEPT !.ended = TRUE]]
      BY <2>5 DEF Contract!EndSlot
    <3>2. /\ [old EXCEPT !.ended = TRUE] \in FrameTypes
          /\ [old EXCEPT !.ended = TRUE].slot = old.slot
          /\ [old EXCEPT !.ended = TRUE].txs >= old.txs
      <4>1. old.txs \in Nat /\ [old EXCEPT !.ended = TRUE].txs = old.txs
        BY <2>3 DEF FrameTypes
      <4>2. [old EXCEPT !.ended = TRUE] \in FrameTypes
        BY <2>3 DEF FrameTypes
      <4>3. [old EXCEPT !.ended = TRUE].slot = old.slot
        BY <2>3 DEF FrameTypes
      <4>4. QED
        BY <4>1, <4>2, <4>3
    <3>3. QED
      BY <1>2, <2>1, <3>1, <3>2
  <2>6. QED
    BY <1>3, <2>4, <2>5
<1>4. QED
  BY <1>1, <1>3

LEMMA BeginKeeps ==
    ASSUME frames \in Frames, program \in ProgramTypes, ProgramInv,
           NEW f \in 1 .. Len(frames), Contract!Begin(f)
    PROVE  program' \in ProgramTypes /\ ProgramInv'
<1> DEFINE t == frames[f].slot
<1>1. t \in 1 .. MaxSlot /\ Len(frames) \in Nat /\ f \in Nat
  BY FramesTyped
<1>2. program' = [program EXCEPT !.open = f, !.held = <<>>, !.notice = 0, !.last = f,
                                 !.resumed = FALSE, !.kept[t] = 0]
      /\ frames' = frames
  BY DEF Contract!Begin
<1>3. program.kept \in [1 .. MaxSlot -> Nat] /\ program.last \in Nat
  BY ProgramTyped
<1>4. program' \in ProgramTypes
  <2> DEFINE kept2 == [program.kept EXCEPT ![t] = 0]
  <2>1. kept2 \in [1 .. MaxSlot -> Nat]
    BY <1>1, <1>3
  <2>2. program' = [program EXCEPT !.open = f, !.held = <<>>, !.notice = 0, !.last = f,
                                   !.resumed = FALSE, !.kept = kept2]
    BY <1>2
  <2>3. <<>> \in Seq(TransactionTypes)
    OBVIOUS
  <2> HIDE DEF kept2
  <2>4. QED
    BY <1>1, <2>1, <2>2, <2>3 DEF ProgramTypes
<1>5. /\ program'.open = f /\ program'.held = <<>> /\ program'.last = f
      /\ program'.resumed = FALSE
      /\ program'.kept = [program.kept EXCEPT ![t] = 0]
  BY <1>2 DEF ProgramTypes
<1>6. ASSUME NEW s \in 1 .. MaxSlot, program'.kept[s] # 0
      PROVE  /\ program'.kept[s] <= f
             /\ frames[program'.kept[s]].slot = s
             /\ \A g \in program'.kept[s] + 1 .. f : frames[g].slot # s
  <2>1. s # t /\ program'.kept[s] = program.kept[s]
    BY <1>3, <1>5, <1>6
  <2>2. ~program.resumed
    BY <1>6, <2>1 DEF ProgramInv
  <2>3. f = program.last + 1
    BY <2>2 DEF Contract!Begin
  <2>4. /\ program.kept[s] <= program.last
        /\ frames[program.kept[s]].slot = s
        /\ \A g \in program.kept[s] + 1 .. program.last : frames[g].slot # s
    BY <1>6, <2>1 DEF ProgramInv
  <2>5. program.kept[s] \in Nat
    BY <1>3
  <2>6. QED
    BY <1>3, <2>1, <2>3, <2>4, <2>5
<1>7. QED
  BY <1>1, <1>2, <1>4, <1>5, <1>6 DEF ProgramInv, Frame

LEMMA TakeKeeps ==
    ASSUME frames \in Frames, program \in ProgramTypes, ProgramInv,
           NEW n \in Nat, Contract!Take(n)
    PROVE  program' \in ProgramTypes /\ ProgramInv'
<1> DEFINE new == [slot |-> frames[program.open].slot, frame |-> program.open, seq |-> n]
           held2 == Append(program.held, new)
<1>1. /\ program.open \in 1 .. Len(frames) /\ program.open = program.last
      /\ program.held \in Seq(TransactionTypes) /\ Len(program.held) \in Nat
  <2>1. program.open # 0
    BY DEF Contract!Take
  <2>2. QED
    BY <2>1, ProgramTyped DEF ProgramInv, Frame, Frames
<1>2. new \in TransactionTypes
  BY <1>1, FramesTyped DEF TransactionTypes
<1>3. program' = [program EXCEPT !.held = held2] /\ frames' = frames
  BY DEF Contract!Take, Contract!Read
<1>4. /\ held2 \in Seq(TransactionTypes) /\ Len(held2) = Len(program.held) + 1
      /\ held2[Len(program.held) + 1] = new
      /\ \A i \in 1 .. Len(program.held) : held2[i] = program.held[i]
  BY <1>1, <1>2
<1> HIDE DEF new, held2
<1>5. program' \in ProgramTypes
  BY <1>3, <1>4 DEF ProgramTypes
<1>6. /\ program'.open = program.open /\ program'.last = program.last
      /\ program'.held = held2 /\ program'.kept = program.kept
      /\ program'.resumed = program.resumed
  BY <1>3 DEF ProgramTypes
<1>7. new.frame = program.last /\ new.seq = n
  BY <1>1 DEF new
<1>8. \A i \in 1 .. Len(held2) : held2[i].frame = program.last
  BY <1>1, <1>4, <1>7 DEF ProgramInv
<1>9. ASSUME NEW i \in 1 .. Len(held2), NEW j \in 1 .. Len(held2), i < j
      PROVE  held2[i].seq < held2[j].seq
  <2>1. i \in 1 .. Len(program.held)
    BY <1>1, <1>4, <1>9
  <2>2. CASE j = Len(program.held) + 1
    BY <1>4, <1>7, <2>1, <2>2 DEF Contract!Take
  <2>3. CASE j \in 1 .. Len(program.held)
    BY <1>4, <1>9, <2>1, <2>3 DEF ProgramInv
  <2>4. QED
    BY <1>1, <1>4, <2>2, <2>3
<1>10. QED
  BY <1>3, <1>5, <1>6, <1>8, <1>9 DEF ProgramInv, Frame

LEMMA CompleteKeeps ==
    ASSUME frames \in Frames, program \in ProgramTypes, ProgramInv, Contract!Complete
    PROVE  program' \in ProgramTypes /\ ProgramInv'
<1> DEFINE t == frames[program.open].slot
<1>1. program.open \in 1 .. Len(frames) /\ program.open = program.last
  <2>1. program.open # 0
    BY DEF Contract!Complete
  <2>2. QED
    BY <2>1, ProgramTyped DEF ProgramInv, Frame, Frames
<1>2. t \in 1 .. MaxSlot /\ program.last \in Nat
  BY <1>1, FramesTyped
<1>3. program' = [program EXCEPT !.open = 0, !.kept[t] = program.open] /\ frames' = frames
  BY DEF Contract!Complete, Contract!Read
<1>4. program.kept \in [1 .. MaxSlot -> Nat] /\ program.open \in Nat
  BY ProgramTyped
<1>5. program' \in ProgramTypes
  BY <1>2, <1>3, <1>4 DEF ProgramTypes
<1>6. /\ program'.open = 0 /\ program'.last = program.last
      /\ program'.held = program.held /\ program'.resumed = program.resumed
      /\ program'.kept = [program.kept EXCEPT ![t] = program.last]
  BY <1>1, <1>3 DEF ProgramTypes
<1>7. ASSUME NEW s \in 1 .. MaxSlot, program'.kept[s] # 0
      PROVE  /\ program'.kept[s] <= program.last
             /\ frames[program'.kept[s]].slot = s
             /\ \A g \in program'.kept[s] + 1 .. program.last : frames[g].slot # s
  <2>1. CASE s = t
    <3>1. program'.kept[s] = program.last /\ frames[program.last].slot = s
      BY <1>1, <1>2, <1>4, <1>6, <2>1
    <3>2. QED
      BY <1>2, <3>1
  <2>2. CASE s # t
    <3>1. program'.kept[s] = program.kept[s]
      BY <1>4, <1>6, <2>2
    <3>2. QED
      BY <1>7, <3>1 DEF ProgramInv
  <2>3. QED
    BY <2>1, <2>2
<1>8. QED
  BY <1>3, <1>5, <1>6, <1>7 DEF ProgramInv, Frame

\* Whatever the contract lets happen, the program keeps the transactions of one
\* frame in order, and only frames that were not restarted since.
LEMMA ContractKeeps ==
    ASSUME frames \in Frames, program \in ProgramTypes, ProgramInv,
           [Contract!Next]_(Contract!vars)
    PROVE  frames' \in Frames /\ program' \in ProgramTypes /\ ProgramInv' /\ Grows(frames, frames')
<1>1. CASE \/ \E s \in 1 .. MaxSlot : Contract!StartSlot(s)
           \/ Contract!MatchTransaction
           \/ Contract!EndSlot
  <2>1. frames' \in Frames /\ Grows(frames, frames')
    BY <1>1, FeedGrows
  <2>2. program' = program
    BY <1>1 DEF Contract!StartSlot, Contract!MatchTransaction, Contract!EndSlot
  <2>3. Len(frames) \in Nat /\ Len(frames') \in Nat
    BY <2>1 DEF Frames
  <2>4. program.last \in Nat /\ program.kept \in [1 .. MaxSlot -> Nat]
    BY ProgramTyped
  <2>5. \A f \in 1 .. Len(frames) : frames'[f].slot = frames[f].slot
    BY <2>1 DEF Grows
  <2>6. ASSUME NEW s \in 1 .. MaxSlot, program.kept[s] # 0
        PROVE  /\ program.kept[s] <= program.last
               /\ frames'[program.kept[s]].slot = s
               /\ \A g \in program.kept[s] + 1 .. program.last : frames'[g].slot # s
    <3>1. /\ program.kept[s] \in 1 .. Len(frames)
          /\ \A g \in program.kept[s] + 1 .. program.last : g \in 1 .. Len(frames)
      <4>1. program.kept[s] <= program.last /\ program.last <= Len(frames)
        BY <2>6 DEF ProgramInv, Frame
      <4>2. program.kept[s] \in Nat
        BY <2>4
      <4>3. QED
        BY <2>3, <2>4, <2>6, <4>1, <4>2
    <3>2. QED
      BY <2>5, <2>6, <3>1 DEF ProgramInv
  <2>7. program.last <= Len(frames')
    BY <2>1, <2>3, <2>4 DEF ProgramInv, Frame, Grows
  <2>8. ProgramInv'
    BY <2>2, <2>6, <2>7 DEF ProgramInv, Frame
  <2>9. QED
    BY <2>1, <2>2, <2>8
<1>2. ASSUME UNCHANGED frames
      PROVE  frames' \in Frames /\ Grows(frames, frames')
  <2>1. Len(frames) \in Nat /\ \A f \in 1 .. Len(frames) : frames[f].txs \in Nat
    BY FramesTyped DEF Frames
  <2>2. QED
    BY <1>2, <2>1 DEF Grows
<1>3. CASE \E f \in 1 .. Len(frames) : Contract!Begin(f)
  <2>1. PICK f \in 1 .. Len(frames) : Contract!Begin(f)
    BY <1>3
  <2>2. UNCHANGED frames
    BY <2>1 DEF Contract!Begin
  <2>3. QED
    BY <1>2, <2>1, <2>2, BeginKeeps
<1>4. CASE program.open # 0 /\ \E n \in 1 .. Contract!Read.txs : Contract!Take(n) \/ Contract!Clip(n)
  <2>1. PICK n \in 1 .. Contract!Read.txs : Contract!Take(n) \/ Contract!Clip(n)
    BY <1>4
  <2>2. UNCHANGED frames /\ n \in Nat
    BY <2>1 DEF Contract!Take, Contract!Clip
  <2>3. CASE Contract!Take(n)
    BY <1>2, <2>2, <2>3, TakeKeeps
  <2>4. CASE Contract!Clip(n)
    <3>1. program' = [program EXCEPT !.notice = program.notice + n]
      BY <2>4 DEF Contract!Clip
    <3>2. program.notice + n \in Nat
      BY <2>2, ProgramTyped
    <3>3. program' \in ProgramTypes
      BY <3>1, <3>2 DEF ProgramTypes
    <3>4. /\ program'.open = program.open /\ program'.last = program.last
          /\ program'.held = program.held /\ program'.kept = program.kept
          /\ program'.resumed = program.resumed
      BY <3>1 DEF ProgramTypes
    <3>5. ProgramInv'
      BY <2>2, <3>4 DEF ProgramInv, Frame
    <3>6. QED
      BY <1>2, <2>2, <3>3, <3>5
  <2>5. QED
    BY <2>1, <2>3, <2>4
<1>5. CASE Contract!Complete
  <2>1. UNCHANGED frames
    BY <1>5 DEF Contract!Complete
  <2>2. QED
    BY <1>2, <1>5, <2>1, CompleteKeeps
<1>6. CASE Contract!Resume
  <2> DEFINE kept2 == [s \in 1 .. MaxSlot |-> 0]
  <2>1. UNCHANGED frames /\ program.last \in Nat
    BY <1>6, ProgramTyped DEF Contract!Resume
  <2>2. kept2 \in [1 .. MaxSlot -> Nat] /\ \A s \in 1 .. MaxSlot : kept2[s] = 0
    OBVIOUS
  <2>3. program' = [[open |-> 0, held |-> <<>>, notice |-> 0, last |-> 0,
                     resumed |-> TRUE, kept |-> kept2] EXCEPT !.last = program.last]
    BY <1>6 DEF Contract!Resume, Contract!NewProgram
  <2> HIDE DEF kept2
  <2>4. program' = [open |-> 0, held |-> <<>>, notice |-> 0, last |-> program.last,
                    resumed |-> TRUE, kept |-> kept2]
    BY <2>3
  <2>5. <<>> \in Seq(TransactionTypes) /\ Len(<<>>) = 0
    OBVIOUS
  <2>6. program' \in ProgramTypes
    BY <2>1, <2>2, <2>4, <2>5 DEF ProgramTypes
  <2>7. ProgramInv'
    BY <2>1, <2>2, <2>4, <2>5 DEF ProgramInv, Frame
  <2>8. QED
    BY <1>2, <2>1, <2>6, <2>7
<1>7. CASE UNCHANGED Contract!vars
  <2>1. UNCHANGED <<frames, program>>
    BY <1>7 DEF Contract!vars
  <2>2. QED
    BY <1>2, <2>1 DEF ProgramInv, Frame
<1>8. QED
  BY <1>1, <1>3, <1>4, <1>5, <1>6, <1>7 DEF Contract!Next

-----------------------------------------------------------------------------
(* An event that is delivered. *)

\* The program's next frame is the next of the feed, or it was told of a drop.
Announced ==
    (ret'.item = "Event" /\ ret'.event.event = "SlotStart") =>
      \/ program.resumed
      \/ ret'.event.body.frame = program.last + 1 /\ program.open = 0

LEMMA DeliverReads ==
    ASSUME Deliver, ProgramReads
    PROVE  /\ ret' = EventItem(IntoEvent(source.update))
           /\ program' = Reads(program, IntoEvent(source.update))
           /\ state = "Streaming" /\ state' = "Streaming"
           /\ framed' = TRUE
           /\ framed \/ source.update.payload = "SlotStart"
  BY DEF Deliver, Polling, Return, ProgramReads, Returned, EventItem, IntoEvent

LEMMA HereTyped ==
    ASSUME program \in ProgramTypes, TypeOK
    PROVE  Here \in Places
<1>1. CASE state = "Streaming"
  <2>1. Len(program.held) + program.notice \in Nat
    BY ProgramTyped
  <2>2. CASE program.held = <<>>
    BY <1>1, <2>1, <2>2, ProgramTyped DEF Here, Places, TypeOK
  <2>3. CASE program.held # <<>>
    <3>1. Len(program.held) \in 1 .. Len(program.held)
      BY <2>3, ProgramTyped
    <3>2. program.held[Len(program.held)].seq \in Nat
      BY <3>1, ProgramTyped
    <3>3. QED
      BY <1>1, <2>1, <2>3, <3>2, ProgramTyped DEF Here, Places, TypeOK
  <2>4. QED
    BY <2>2, <2>3
<1>2. CASE state # "Streaming"
  BY <1>2, ProgramTyped DEF Here, Places
<1>3. QED
  BY <1>1, <1>2

LEMMA StartDelivered ==
    ASSUME DeliveryInv, Deliver, ProgramReads, UNCHANGED frames,
           NEW p, ReadsStart(frames, Here, source.update, p)
    PROVE  Contract!Next /\ Here' = p /\ Completed' /\ Announced
<1>1. PICK f \in 1 .. Len(frames) :
        /\ source.update = SlotStartOf(frames[f].slot, f)
        /\ IF Here.joined THEN f = Here.last + 1 /\ Here.open = 0 ELSE f > Here.last
        /\ p = [joined |-> TRUE, open |-> f, count |-> 0, seq |-> 0, last |-> f]
  BY DEF ReadsStart
<1>2. Here.joined = framed /\ Here.last = program.last /\ Here.open = program.open
  BY DeliverReads DEF Here
<1>3. IntoEvent(source.update) =
        [event |-> "SlotStart", body |-> [slot |-> frames[f].slot, frame |-> f]]
  BY <1>1 DEF IntoEvent, SlotStartOf
<1>4. program' = [program EXCEPT !.open = f, !.held = <<>>, !.notice = 0, !.last = f,
                                 !.resumed = FALSE, !.kept[frames[f].slot] = 0]
  <2> DEFINE e == IntoEvent(source.update)
  <2>1. e.event = "SlotStart" /\ e.body.frame = f /\ e.body.slot = frames[f].slot
    BY <1>3
  <2>2. program' = Reads(program, e)
    BY DeliverReads
  <2> HIDE DEF e
  <2>3. Reads(program, e) =
          [program EXCEPT !.open = e.body.frame, !.held = <<>>, !.notice = 0,
                          !.last = e.body.frame, !.resumed = FALSE,
                          !.kept[e.body.slot] = 0]
    BY <2>1, Zenon DEF Reads
  <2>4. QED
    BY <2>1, <2>2, <2>3
<1>5. ret' = [item |-> "Event",
              event |-> [event |-> "SlotStart",
                         body |-> [slot |-> frames[f].slot, frame |-> f]]]
  BY <1>3, DeliverReads DEF EventItem
<1>6. program.last \in Nat /\ f \in Nat
  BY ProgramTyped DEF DeliveryInv, DeliveryTypeOK, Frames
<1>7. framed = TRUE => f = program.last + 1 /\ program.open = 0
  BY <1>1, <1>2
<1>8. framed = FALSE => program.resumed /\ f > program.last
  <2>1. framed = FALSE => program = [NewProgram EXCEPT !.last = program.last]
    BY DeliverReads DEF DeliveryInv, Voided
  <2>2. [NewProgram EXCEPT !.last = program.last].resumed = TRUE
    BY DEF NewProgram
  <2>3. QED
    BY <1>1, <1>2, <2>1, <2>2
<1>9. framed \in BOOLEAN
  BY DEF DeliveryInv, StreamInv, TypeOK
<1>10. Contract!Begin(f)
  BY <1>4, <1>6, <1>7, <1>8, <1>9 DEF Contract!Begin
<1>11. Contract!Next
  BY <1>10 DEF Contract!Next
<1>12. program'.open = f /\ program'.held = <<>> /\ program'.notice = 0 /\ program'.last = f
  BY <1>4 DEF DeliveryInv, DeliveryTypeOK, ProgramTypes
<1>13. Here' = p
  BY <1>1, <1>12, DeliverReads DEF Here
<1>14. Completed'
  BY <1>5 DEF Completed, Shown
<1>15. Announced
  BY <1>5, <1>7, <1>8, <1>9 DEF Announced
<1>16. QED
  BY <1>11, <1>13, <1>14, <1>15

LEMMA TransactionDelivered ==
    ASSUME DeliveryInv, Deliver, ProgramReads, UNCHANGED frames,
           NEW p, ReadsTransaction(frames, Here, source.update, p)
    PROVE  Contract!Next /\ Here' = p /\ Completed' /\ Announced
<1>1. PICK f \in 1 .. Len(frames), n \in Nat :
        /\ source.update = TransactionOf(frames[f].slot, f, n)
        /\ Here.joined => Here.open = f /\ Here.seq < n /\ n <= frames[f].txs
        /\ p = IF Here.joined THEN [Here EXCEPT !.count = Here.count + 1, !.seq = n]
               ELSE Here
  BY Zenon DEF ReadsTransaction
<1>2. framed = TRUE
  BY <1>1, DeliverReads DEF TransactionOf, DeliveryInv, StreamInv, TypeOK
<1>3. Here = [joined |-> TRUE, open |-> program.open,
              count |-> Len(program.held) + program.notice,
              seq |-> IF program.held = <<>> THEN 0
                      ELSE program.held[Len(program.held)].seq,
              last |-> program.last]
  BY <1>2, DeliverReads DEF Here
<1> DEFINE new == [slot |-> frames[f].slot, frame |-> f, seq |-> n]
<1>4. IntoEvent(source.update) = [event |-> "Transaction", body |-> new]
  BY <1>1 DEF IntoEvent, TransactionOf
<1>5. program' = [program EXCEPT !.held = Append(program.held, new)]
  BY <1>4, DeliverReads DEF Reads
<1>6. ret' = [item |-> "Event", event |-> [event |-> "Transaction", body |-> new]]
  BY <1>4, DeliverReads DEF EventItem
<1>7. /\ f \in Nat /\ f # 0
      /\ program.open = f
      /\ (IF program.held = <<>> THEN 0 ELSE program.held[Len(program.held)].seq) < n
      /\ n <= frames[f].txs
      /\ frames[f].txs \in Nat
      /\ frames[f].slot \in 1 .. MaxSlot
  BY <1>1, <1>3, FramesTyped DEF DeliveryInv, DeliveryTypeOK
<1>8. program.held \in Seq(TransactionTypes) /\ Len(program.held) \in Nat
      /\ \A i \in 1 .. Len(program.held) : program.held[i].seq \in Nat
  BY ProgramTyped DEF DeliveryInv, DeliveryTypeOK
<1>9. \A i \in DOMAIN program.held : program.held[i].seq < n
  <2>1. SUFFICES ASSUME NEW i \in 1 .. Len(program.held)
                 PROVE  program.held[i].seq < n
    BY <1>8
  <2>2. program.held # <<>> /\ Len(program.held) \in 1 .. Len(program.held)
    BY <1>8
  <2>3. program.held[Len(program.held)].seq < n
    BY <1>7, <2>2
  <2>4. i = Len(program.held)
          \/ program.held[i].seq < program.held[Len(program.held)].seq
    BY <1>8, <2>2 DEF DeliveryInv, ProgramInv
  <2>5. QED
    BY <1>8, <2>2, <2>3, <2>4
<1>10. n \in 1 .. frames[f].txs
  <2>1. CASE program.held = <<>>
    BY <1>7, <2>1
  <2>2. CASE program.held # <<>>
    <3>1. Len(program.held) \in 1 .. Len(program.held)
      BY <1>8, <2>2
    <3>2. program.held[Len(program.held)].seq \in Nat
      BY <1>8, <3>1
    <3>3. QED
      BY <1>7, <2>2, <3>2
  <2>3. QED
    BY <2>1, <2>2
<1>11. Contract!Take(n)
  BY <1>5, <1>7, <1>9 DEF Contract!Take, Contract!Read
<1>12. Contract!Next
  BY <1>7, <1>10, <1>11 DEF Contract!Next, Contract!Read
<1>13. new \in TransactionTypes
  BY <1>7 DEF TransactionTypes
<1>14. /\ Len(Append(program.held, new)) = Len(program.held) + 1
       /\ Append(program.held, new) # <<>>
       /\ Append(program.held, new)[Len(program.held) + 1] = new
  BY <1>8, <1>13
<1> DEFINE held2 == Append(program.held, new)
<1>15. /\ program'.open = program.open /\ program'.notice = program.notice
       /\ program'.held = held2
       /\ program'.last = program.last
  BY <1>5 DEF DeliveryInv, DeliveryTypeOK, ProgramTypes
<1>16. new.seq = n
  OBVIOUS
<1> HIDE DEF new, held2
<1>17. Here' = [joined |-> TRUE, open |-> program.open,
                count |-> Len(held2) + program.notice,
                seq |-> held2[Len(held2)].seq, last |-> program.last]
  BY <1>14, <1>15, DeliverReads DEF Here, held2
<1>18. Here' = [joined |-> TRUE, open |-> program.open,
                count |-> Len(program.held) + program.notice + 1,
                seq |-> n, last |-> program.last]
  <2>1. Len(held2) + program.notice = Len(program.held) + program.notice + 1
    BY <1>8, <1>14, ProgramTyped DEF held2, DeliveryInv, DeliveryTypeOK
  <2>2. held2[Len(held2)].seq = n
    BY <1>14, <1>16 DEF held2
  <2>3. QED
    BY <1>17, <2>1, <2>2
<1>19. p = [joined |-> TRUE, open |-> program.open,
            count |-> Len(program.held) + program.notice + 1,
            seq |-> n, last |-> program.last]
  BY <1>1, <1>3
<1>20. Completed' /\ Announced
  BY <1>6 DEF Completed, Shown, Announced
<1>21. QED
  BY <1>12, <1>18, <1>19, <1>20

LEMMA ClipDelivered ==
    ASSUME DeliveryInv, Deliver, ProgramReads, UNCHANGED frames,
           NEW p, ReadsClip(frames, Here, source.update, p)
    PROVE  Contract!Next /\ Here' = p /\ Completed' /\ Announced
<1>1. PICK n \in Nat \ {0} :
        /\ source.update = ClipOf(n)
        /\ Here.joined =>
             Here.open \in 1 .. Len(frames) /\ Here.count + n <= frames[Here.open].txs
        /\ p = IF Here.joined THEN [Here EXCEPT !.count = Here.count + n] ELSE Here
  BY Zenon DEF ReadsClip
<1>2. framed = TRUE
  BY <1>1, DeliverReads DEF ClipOf, DeliveryInv, StreamInv, TypeOK
<1>3. Here = [joined |-> TRUE, open |-> program.open,
              count |-> Len(program.held) + program.notice,
              seq |-> IF program.held = <<>> THEN 0
                      ELSE program.held[Len(program.held)].seq,
              last |-> program.last]
  BY <1>2, DeliverReads DEF Here
<1>4. IntoEvent(source.update) = [event |-> "Clip", body |-> [transactions |-> n]]
  BY <1>1 DEF IntoEvent, ClipOf
<1>5. program' = [program EXCEPT !.notice = program.notice + n]
  BY <1>4, DeliverReads DEF Reads
<1>6. ret' = [item |-> "Event",
              event |-> [event |-> "Clip", body |-> [transactions |-> n]]]
  BY <1>4, DeliverReads DEF EventItem
<1>7. /\ program.open \in 1 .. Len(frames)
      /\ Len(program.held) + program.notice + n <= frames[program.open].txs
  BY <1>1, <1>3
<1>8. Len(program.held) \in Nat /\ program.notice \in Nat
  BY ProgramTyped DEF DeliveryInv, DeliveryTypeOK
<1>9. frames[program.open].txs \in Nat /\ program.open # 0
  BY <1>7, FramesTyped DEF DeliveryInv, DeliveryTypeOK
<1>10. Contract!Clip(n)
  BY <1>5, <1>7, <1>9 DEF Contract!Clip, Contract!Read
<1>11. n \in 1 .. frames[program.open].txs
  BY <1>7, <1>8, <1>9
<1>12. Contract!Next
  BY <1>9, <1>10, <1>11 DEF Contract!Next, Contract!Read
<1>13. /\ program'.open = program.open /\ program'.held = program.held
       /\ program'.notice = program.notice + n /\ program'.last = program.last
  BY <1>5 DEF DeliveryInv, DeliveryTypeOK, ProgramTypes
<1>14. Here' = [joined |-> TRUE, open |-> program.open,
                count |-> Len(program.held) + program.notice + n,
                seq |-> IF program.held = <<>> THEN 0
                        ELSE program.held[Len(program.held)].seq,
                last |-> program.last]
  <2>1. Len(program.held) + (program.notice + n) = Len(program.held) + program.notice + n
    BY <1>8
  <2>2. QED
    BY <1>13, <2>1, DeliverReads DEF Here
<1>15. Here' = p
  BY <1>1, <1>3, <1>14
<1>16. Completed' /\ Announced
  BY <1>6 DEF Completed, Shown, Announced
<1>17. QED
  BY <1>12, <1>15, <1>16

LEMMA EndDelivered ==
    ASSUME DeliveryInv, Deliver, ProgramReads, UNCHANGED frames,
           NEW p, ReadsEnd(frames, Here, source.update, p)
    PROVE  Contract!Next /\ Here' = p /\ Completed' /\ Announced
<1>1. PICK f \in 1 .. Len(frames) :
        /\ source.update = SlotEndOf(frames[f].slot, f)
        /\ Here.joined => Here.open = f /\ frames[f].ended /\ Here.count = frames[f].txs
        /\ p = IF Here.joined THEN [Here EXCEPT !.open = 0] ELSE Here
  BY Zenon DEF ReadsEnd
<1>2. framed = TRUE
  BY <1>1, DeliverReads DEF SlotEndOf, DeliveryInv, StreamInv, TypeOK
<1>3. Here = [joined |-> TRUE, open |-> program.open,
              count |-> Len(program.held) + program.notice,
              seq |-> IF program.held = <<>> THEN 0
                      ELSE program.held[Len(program.held)].seq,
              last |-> program.last]
  BY <1>2, DeliverReads DEF Here
<1>4. IntoEvent(source.update) =
        [event |-> "SlotEnd", body |-> [slot |-> frames[f].slot, frame |-> f]]
  BY <1>1 DEF IntoEvent, SlotEndOf
<1>5. /\ program.open = f /\ f # 0 /\ frames[f].ended
      /\ Len(program.held) + program.notice = frames[f].txs
  BY <1>1, <1>3
<1>6. program' = [program EXCEPT !.open = 0, !.kept[frames[f].slot] = f]
  <2> DEFINE e == IntoEvent(source.update)
  <2>1. e.event = "SlotEnd" /\ e.body.frame = f /\ e.body.slot = frames[f].slot
    BY <1>4
  <2>2. program' = Reads(program, e)
    BY DeliverReads
  <2> HIDE DEF e
  <2>3. Reads(program, e) =
          [program EXCEPT !.open = 0, !.kept[e.body.slot] = e.body.frame]
    BY <2>1 DEF Reads
  <2>4. QED
    BY <2>1, <2>2, <2>3
<1>7. ret' = [item |-> "Event",
              event |-> [event |-> "SlotEnd",
                         body |-> [slot |-> frames[f].slot, frame |-> f]]]
  BY <1>4, DeliverReads DEF EventItem
<1>8. Contract!Complete
  BY <1>5, <1>6 DEF Contract!Complete, Contract!Read
<1>9. Contract!Next
  BY <1>8 DEF Contract!Next
<1>10. /\ program'.open = 0 /\ program'.held = program.held
       /\ program'.notice = program.notice /\ program'.last = program.last
  BY <1>6 DEF DeliveryInv, DeliveryTypeOK, ProgramTypes
<1>11. Here' = [joined |-> TRUE, open |-> 0,
                count |-> Len(program.held) + program.notice,
                seq |-> IF program.held = <<>> THEN 0
                        ELSE program.held[Len(program.held)].seq,
                last |-> program.last]
  BY <1>10, DeliverReads DEF Here
<1>12. Here' = p
  BY <1>1, <1>3, <1>11
<1>13. program.last = f
  BY <1>5 DEF DeliveryInv, ProgramInv
<1>14. Completed' /\ Announced
  BY <1>5, <1>7, <1>10, <1>13 DEF Completed, Shown, Announced
<1>15. QED
  BY <1>9, <1>12, <1>14

-----------------------------------------------------------------------------
(* Steps of the stream and the program. *)

\* The feed, the server and the network only give the stream what it may get.
LEMMA DeliveryStreams == DeliveryNext => [Next]_vars
<1> SUFFICES ASSUME DeliveryNext PROVE [Next]_vars
  OBVIOUS
<1>1. CASE Reader
  BY <1>1 DEF Reader, Next
<1>2. CASE Feed
  BY <1>2 DEF Feed, StartSlot, MatchTransaction, EndSlot
<1>3. ASSUME NEW a \in Answers, Answer(a) PROVE Next
  BY <1>3 DEF Answers, Next, TimerFires, CallAnswered, StreamAnswers
<1>4. ASSUME NEW a, Answer(a) PROVE a \in Answers
  BY <1>4, AnswersTyped DEF Answer
<1>5. CASE Joins
  BY <1>3, <1>4, <1>5 DEF Joins, Accept
<1>6. CASE Passes
  <2>1. CASE Sleeping
    BY <2>1 DEF Sleeping, Next
  <2>2. CASE SendClip \/ SendPing \/ LoseConnection
    BY <2>2 DEF SendClip, SendPing, LoseConnection
  <2>3. CASE Refuse \/ Arrive \/ StreamEnds
    BY <1>3, <1>4, <2>3 DEF Refuse, Arrive, StreamEnds
  <2>4. QED
    BY <1>6, <2>1, <2>2, <2>3 DEF Passes, Passage
<1>7. QED
  BY <1>1, <1>2, <1>5, <1>6 DEF DeliveryNext

\* What a step of the stream must do for the invariant, apart from StreamInv.
Moves ==
    /\ [Contract!Next]_(Contract!vars)
    /\ NothingUnderWay'
    /\ Voided'
    /\ UnderWay'
    /\ Completed'
    /\ Returned => Announced

LEMMA DeliverMoves ==
    ASSUME DeliveryInv, Deliver, ProgramReads, UNCHANGED <<frames, session, wire>>
    PROVE  Moves
<1>1. PICK next \in Places, end \in Places :
        /\ Leads(frames, Here, source.update, next)
        /\ Connects(Along(frames), Places, next, wire, end)
        /\ Up => Current(end)
  BY DEF DeliveryInv, UnderWay, Deliver
<1>2. source.update.payload \notin {"Ping", "Empty"}
  BY DEF Deliver, HasEvent
<1>3. Contract!Next /\ Here' = next /\ Completed' /\ Announced
  <2>1. ~ReadsPing(Here, source.update, next)
    BY <1>2 DEF ReadsPing, PingUpdate
  <2>2. QED
    BY <1>1, <2>1, StartDelivered, TransactionDelivered, ClipDelivered, EndDelivered
    DEF Leads
<1>4. source'.answer = "NotReady" /\ state' = "Streaming" /\ framed' = TRUE
  BY DeliverReads DEF Deliver, Renew, NotReady
<1>5. UnderWay'
  <2>1. Connects(Along(frames'), Places, next, wire', end) /\ (Up' => Current(end)')
    BY <1>1 DEF Up, Current, Frame, Open
  <2>2. QED
    BY <1>3, <1>4, <2>1 DEF UnderWay
<1>6. NothingUnderWay' /\ Voided'
  BY <1>4 DEF NothingUnderWay, Disconnected, Voided
<1>7. QED
  BY <1>3, <1>5, <1>6 DEF Moves

\* A poll that takes an update and yields nothing loses nothing of a frame.
LEMMA SkipMoves ==
    ASSUME DeliveryInv, SkipUpdate \/ HoldBack, ProgramReads,
           UNCHANGED <<frames, session, wire>>
    PROVE  Moves
<1>1. PICK next \in Places, end \in Places :
        /\ Leads(frames, Here, source.update, next)
        /\ Connects(Along(frames), Places, next, wire, end)
        /\ Up => Current(end)
  BY DEF DeliveryInv, UnderWay, SkipUpdate, HoldBack
<1>2. /\ state = "Streaming" /\ UNCHANGED <<fields, ret, task>>
      /\ source'.answer = "NotReady" /\ task = "polling"
  BY DEF SkipUpdate, HoldBack, Polling, NextUpdate, Continue, Renew, NotReady
<1>3. program' = program /\ ~Returned
  BY <1>2 DEF ProgramReads, Returned
<1>4. Here' = Here
  BY <1>2, <1>3 DEF Here, fields
<1>5. next = Here
  <2>1. CASE SkipUpdate
    <3>1. source.update.payload \in {"Ping", "Empty"}
      BY <2>1 DEF SkipUpdate, HasEvent
    <3>2. ReadsPing(Here, source.update, next)
      BY <1>1, <3>1, LeadsPayload DEF Leads
    <3>3. QED
      BY <3>2 DEF ReadsPing
  <2>2. CASE HoldBack
    <3>1. Here.joined = FALSE /\ source.update.payload # "SlotStart"
      BY <1>2, <2>2 DEF HoldBack, Here, IntoEvent, DeliveryInv, StreamInv, TypeOK
    <3>2. ~ReadsStart(frames, Here, source.update, next)
      BY <3>1, LeadsPayload
    <3>3. QED
      BY <1>1, <3>1, <3>2, Zenon
      DEF Leads, ReadsTransaction, ReadsClip, ReadsEnd, ReadsPing
  <2>3. QED
    BY <2>1, <2>2
<1>6. UnderWay'
  <2>1. Connects(Along(frames'), Places, next, wire', end) /\ (Up' => Current(end)')
    BY <1>1 DEF Up, Current, Frame, Open
  <2>2. QED
    BY <1>2, <1>4, <1>5, <2>1 DEF UnderWay
<1>7. NothingUnderWay' /\ Voided' /\ Completed'
  BY <1>2, <1>3 DEF DeliveryInv, NothingUnderWay, Disconnected, Voided, Completed,
     Shown, fields
<1>8. QED
  BY <1>3, <1>6, <1>7 DEF Moves, Contract!vars

\* A stream that fails had nothing more under way.
LEMMA FailMoves ==
    ASSUME DeliveryInv, ProgramReads, UNCHANGED <<frames, session, wire>>,
           ResubscribeFailed \/ StreamFailed
    PROVE  Moves
<1>1. Disconnected /\ task = "polling"
  BY DEF ResubscribeFailed, StreamFailed, Polling, Disconnected
<1>2. PICK error : Fail(error)
  BY DEF ResubscribeFailed, StreamFailed
<1>3. /\ state' \in {"Waiting", "Ended"} /\ source'.answer = "NotReady"
      /\ \/ UNCHANGED <<ret, task>>
         \/ ret' = ErrorItem(error)
  <2>1. state \in {"Streaming", "Connecting"}
    BY DEF ResubscribeFailed, StreamFailed, Polling
  <2>2. QED
    BY <1>2, <2>1 DEF Fail, Continue, Return, Renew, NotReady
<1>4. wire = <<>> /\ session.over = "none"
  BY <1>1 DEF DeliveryInv, NothingUnderWay
<1>5. program' = program
  BY <1>1, <1>3 DEF ProgramReads, Returned, ErrorItem
<1>6. Here' \in Places
  <2>1. Here' = [joined |-> FALSE, open |-> 0, count |-> 0, seq |-> 0,
                 last |-> program.last]
    BY <1>3, <1>5 DEF Here
  <2>2. QED
    BY <2>1, ProgramTyped DEF DeliveryInv, DeliveryTypeOK, Places
<1>7. UnderWay'
  <2>1. Connects(Along(frames'), Places, Here', wire', Here')
    BY <1>4, <1>6, ConnectsEmpty
  <2>2. ~Up'
    BY <1>4 DEF Up
  <2>3. QED
    BY <1>3, <1>6, <2>1, <2>2 DEF UnderWay
<1>8. NothingUnderWay' /\ Voided'
  BY <1>3, <1>4 DEF NothingUnderWay, Voided
<1>9. Completed' /\ (Returned => Announced)
  BY <1>1, <1>3, <1>5 DEF DeliveryInv, Completed, Shown, ErrorItem, Announced, Returned
<1>10. QED
  BY <1>5, <1>7, <1>8, <1>9 DEF Moves, Contract!vars, DeliveryInv

\* Coming back voids what the program had; the new raw stream starts it over.
LEMMA ResubscribedMoves ==
    ASSUME DeliveryInv, Resubscribed, ProgramReads, UNCHANGED <<frames, session, wire>>
    PROVE  Moves
<1>1. /\ state = "Connecting" /\ state' = "Streaming" /\ framed' = FALSE
      /\ ret' = Reconnected(attempts)
      /\ source.answer = "Connected" /\ source'.answer = "NotReady"
  BY DeliveryAssumption DEF Resubscribed, Polling, NewFraming, Renew, NotReady,
     Announce, Return
<1>2. Returned
  BY DEF Resubscribed, Polling, Announce, Return, Returned
<1>3. program' = [NewProgram EXCEPT !.last = program.last]
  BY <1>1, <1>2 DEF ProgramReads, Reconnected
<1>4. program'.last = program.last /\ program'.open = 0 /\ program'.held = <<>>
      /\ Len(program'.held) + program'.notice = 0
  BY <1>3 DEF NewProgram
<1>5. Here' = Here
  BY <1>1, <1>4 DEF Here
<1>6. PICK end \in Places :
        /\ Here \in Places
        /\ Connects(Along(frames), Places, Here, wire, end)
        /\ Up => Current(end)
  BY <1>1 DEF DeliveryInv, UnderWay
<1>7. UnderWay'
  <2>1. Connects(Along(frames'), Places, Here', wire', end) /\ (Up' => Current(end)')
    BY <1>5, <1>6 DEF Up, Current, Frame, Open
  <2>2. QED
    BY <1>1, <1>5, <1>6, <2>1 DEF UnderWay
<1>8. Contract!Resume
  BY <1>3 DEF Contract!Resume, NewProgram, Contract!NewProgram
<1>9. NothingUnderWay' /\ Voided'
  BY <1>1, <1>3, <1>4 DEF NothingUnderWay, Disconnected, Voided
<1>10. Completed' /\ Announced
  BY <1>1 DEF Completed, Shown, Reconnected, Announced
<1>11. QED
  BY <1>7, <1>8, <1>9, <1>10 DEF Moves, Contract!Next

\* The other iterations of poll_next, and calls of next().
LEMMA QuietMoves ==
    ASSUME DeliveryInv, ProgramReads, UNCHANGED <<frames, session, wire>>,
           CallNext \/ PollAgain \/ PollEnded \/ PollPending \/ Resubscribe
    PROVE  Moves
<1>1. CASE CallNext \/ PollAgain \/ PollEnded \/ PollPending
  <2>1. UNCHANGED <<fields, source>> /\ (ret' = ret \/ ret' = NoItem)
        /\ (Returned => ret' = NoItem)
    BY <1>1 DEF CallNext, PollAgain, PollEnded, PollPending, Return, Returned
  <2>2. program' = program
    BY <2>1 DEF ProgramReads, NoItem
  <2>3. Here' = Here
    BY <2>1, <2>2 DEF Here, fields
  <2>4. UnderWay'
    BY <2>1, <2>3 DEF DeliveryInv, UnderWay, Up, Current, Frame, Open
  <2>5. NothingUnderWay' /\ Voided' /\ Completed'
    BY <2>1, <2>2 DEF DeliveryInv, NothingUnderWay, Disconnected, Voided, Completed,
       Shown, fields, NoItem
  <2>6. Returned => Announced
    BY <2>1 DEF Announced, NoItem
  <2>7. QED
    BY <2>2, <2>4, <2>5, <2>6 DEF Moves, Contract!vars
<1>2. CASE Resubscribe
  <2>1. /\ state = "Waiting" /\ state' = "Connecting" /\ UNCHANGED <<ret, task>>
        /\ source.answer = "Elapsed" /\ source'.answer = "NotReady"
        /\ task = "polling"
    BY <1>2 DEF Resubscribe, Polling, Renew, NotReady, Continue
  <2>2. program' = program /\ ~Returned
    BY <2>1 DEF ProgramReads, Returned
  <2>3. Here' = Here
    BY <2>1, <2>2 DEF Here
  <2>4. UnderWay'
    BY <2>1, <2>3 DEF DeliveryInv, UnderWay, Up, Current, Frame, Open
  <2>5. NothingUnderWay' /\ Voided' /\ Completed'
    BY <2>1, <2>2 DEF DeliveryInv, NothingUnderWay, Disconnected, Voided, Completed, Shown
  <2>6. QED
    BY <2>2, <2>4, <2>5 DEF Moves, Contract!vars
<1>3. QED
  BY <1>1, <1>2

LEMMA ReaderMoves == ASSUME DeliveryInv, Reader PROVE Moves
  BY DeliverMoves, SkipMoves, FailMoves, ResubscribedMoves, QuietMoves
  DEF Reader, ClientStep, PollNext

-----------------------------------------------------------------------------
(* Steps of the feed and the server. *)

\* What was under way still leads on when the feed has gone on.
LEMMA Carried ==
    ASSUME DeliveryInv, frames' \in Frames, Grows(frames, frames'),
           UNCHANGED <<vars, program>>
    PROVE  /\ Here' = Here
           /\ \E next \in Places, end \in Places :
                /\ IF source.answer = "Update"
                   THEN Leads(frames', Here, source.update, next) ELSE next = Here
                /\ Connects(Along(frames'), Places, next, wire, end)
                /\ Up => Current(end)
<1>1. Here' = Here
  BY DEF Here, vars
<1>2. Here \in Places
  BY HereTyped DEF DeliveryInv, DeliveryTypeOK, StreamInv
<1>3. PICK next \in Places, end \in Places :
        /\ IF source.answer = "Update" THEN Leads(frames, Here, source.update, next)
           ELSE next = Here
        /\ Connects(Along(frames), Places, next, wire, end)
        /\ Up => Current(end)
  BY DEF DeliveryInv, UnderWay
<1>4. frames \in Frames /\ wire \in Seq(Messages)
  BY DEF DeliveryInv, DeliveryTypeOK
<1>5. Connects(Along(frames'), Places, next, wire, end)
  BY <1>3, <1>4, ConnectsGrows, AlongGrows
<1>6. source.answer = "Update" => Leads(frames', Here, source.update, next)
  BY <1>2, <1>3, <1>4, LeadsGrows
<1>7. QED
  BY <1>1, <1>3, <1>5, <1>6

\* A step of the feed or the server, with the updates it sends leading on.
LEMMA SentMoves ==
    ASSUME DeliveryInv, frames' \in Frames, Grows(frames, frames'),
           UNCHANGED <<vars, program>>, [Contract!Next]_(Contract!vars),
           ~Up => UNCHANGED <<session, wire>>,
           Up => \A next \in Places, end \in Places :
                   Connects(Along(frames'), Places, next, wire, end) /\ Current(end) =>
                     \E r \in Places :
                       Connects(Along(frames'), Places, next, wire', r) /\ (Up' => Current(r)')
    PROVE  Moves
<1>1. PICK next \in Places, end \in Places :
        /\ IF source.answer = "Update"
           THEN Leads(frames', Here, source.update, next) ELSE next = Here
        /\ Connects(Along(frames'), Places, next, wire, end)
        /\ Up => Current(end)
  BY Carried
<1>2. Here' = Here /\ UNCHANGED <<source, state, framed, ret, task>>
  BY Carried DEF vars
<1>3. PICK r \in Places :
        Connects(Along(frames'), Places, next, wire', r) /\ (Up' => Current(r)')
  <2>1. CASE Up
    BY <1>1, <2>1
  <2>2. CASE ~Up
    BY <1>1, <2>2 DEF Up
  <2>3. QED
    BY <2>1, <2>2
<1>4. UnderWay'
  BY <1>1, <1>2, <1>3 DEF UnderWay
<1>5. NothingUnderWay'
  <2>1. Disconnected' => ~Up
    BY <1>2 DEF DeliveryInv, NothingUnderWay, Disconnected, Up
  <2>2. QED
    BY <1>2, <2>1 DEF DeliveryInv, NothingUnderWay, Disconnected
<1>6. Voided'
  BY <1>2 DEF DeliveryInv, Voided
<1>7. Completed'
  <2>1. SUFFICES ASSUME Shown("SlotEnd")
                 PROVE  Completed'
    BY <1>2 DEF Completed, Shown
  <2>2. /\ program.last # 0 /\ frames[program.last].ended
        /\ program.last <= Len(frames) /\ program.last \in Nat /\ Len(frames) \in Nat
    BY <2>1, ProgramTyped DEF DeliveryInv, DeliveryTypeOK, Completed, ProgramInv,
       Frame, Frames
  <2>3. frames'[program.last] = frames[program.last]
    BY <2>2 DEF Grows
  <2>4. QED
    BY <1>2, <2>1, <2>3 DEF DeliveryInv, Completed, Shown
<1>8. ~Returned
  BY <1>2 DEF Returned
<1>9. QED
  BY <1>4, <1>5, <1>6, <1>7, <1>8 DEF Moves

\* One update is queued, or the stream is closed as lagging.
LEMMA SendOne ==
    ASSUME wire \in Seq(Messages), NEW u \in Messages, NEW s, Send(<<u>>, s)
    PROVE  \/ wire' = Append(wire, u) /\ session' = s
           \/ wire' = wire /\ session' = [s EXCEPT !.over = "DataLoss"]
<1>1. wire \o <<u>> = Append(wire, u)
  OBVIOUS
<1>2. QED
  BY <1>1 DEF Send

\* Queueing one update that leads on from where the stream is.
LEMMA SendOneMoves ==
    ASSUME DeliveryInv, frames' \in Frames, NEW next, NEW end, NEW r \in Places,
           Connects(Along(frames'), Places, next, wire, end), NEW u, NEW s, Send(<<u>>, s),
           Leads(frames', end, u, r), s.over = "no",
           s \in SessionTypes,
           session' = s => Current(r)'
    PROVE  \E r2 \in Places :
             Connects(Along(frames'), Places, next, wire', r2) /\ (Up' => Current(r2)')
<1>1. wire \in Seq(Messages) /\ u \in Messages
  BY LeadsMessages DEF DeliveryInv, DeliveryTypeOK
<1>2. CASE wire' = Append(wire, u) /\ session' = s
  <2>1. <<end, u, r>> \in Along(frames')
    BY <1>1, ConnectsTyped, StepsAlong
  <2>2. Connects(Along(frames'), Places, next, wire', r)
    BY <1>1, <1>2, <2>1, ConnectsAppend
  <2>3. QED
    BY <1>2, <2>2
<1>3. CASE wire' = wire /\ session' = [s EXCEPT !.over = "DataLoss"]
  <2>1. ~Up'
    BY <1>3 DEF Up
  <2>2. end \in Places
    BY <1>1, ConnectsTyped
  <2>3. QED
    BY <1>3, <2>1, <2>2
<1>4. QED
  BY <1>1, <1>2, <1>3, SendOne

LEMMA SessionTyped ==
    ASSUME DeliveryInv
    PROVE  /\ session.serving \in BOOLEAN /\ session.withheld \in Nat
           /\ session \in SessionTypes
  BY DEF DeliveryInv, DeliveryTypeOK, SessionTypes

\* A frame begins: a stream that has read up to here reads it next.
LEMMA StartMoves ==
    ASSUME DeliveryInv, NEW s \in 1 .. MaxSlot, StartSlot(s)
    PROVE  Moves
<1> DEFINE new == [slot |-> s, txs |-> 0, ended |-> FALSE]
           u == SlotStartOf(s, Frame + 1)
           s2 == [session EXCEPT !.serving = TRUE]
<1>1. Contract!StartSlot(s)
  BY DEF StartSlot, Open, Last, Contract!StartSlot, Contract!Newest
<1>2. frames \in Frames /\ Len(frames) \in Nat
  BY DEF DeliveryInv, DeliveryTypeOK, Frames
<1>3. frames' \in Frames /\ Grows(frames, frames')
  BY <1>1, <1>2, FeedGrows
<1>4. new \in FrameTypes /\ frames' = Append(frames, new)
  BY DEF StartSlot, FrameTypes
<1>5. Len(frames') = Len(frames) + 1 /\ frames'[Len(frames) + 1] = new
      /\ frames' # <<>>
  BY <1>2, <1>4 DEF Frames
<1>6. Frame' = Frame + 1 /\ Open'
  BY <1>5 DEF Frame, Open, Last
<1>7. ASSUME Up, NEW next \in Places, NEW end \in Places,
             Connects(Along(frames'), Places, next, wire, end), Current(end)
      PROVE  \E r \in Places :
               Connects(Along(frames'), Places, next, wire', r) /\ (Up' => Current(r)')
  <2>1. Send(<<u>>, s2)
    BY <1>7 DEF StartSlot
  <2>2. PICK r \in Places :
          r = [joined |-> TRUE, open |-> Frame + 1, count |-> 0, seq |-> 0,
               last |-> Frame + 1]
    <3>1. [joined |-> TRUE, open |-> Frame + 1, count |-> 0, seq |-> 0,
           last |-> Frame + 1] \in Places
      BY <1>2 DEF Places, Frame
    <3>2. QED
      BY <3>1
  <2>3. /\ ~Open
        /\ IF end.joined THEN end.last = Frame /\ end.open = 0 ELSE end.last <= Frame
        /\ session.withheld = 0
    BY <1>7, SessionTyped DEF StartSlot, Current
  <2>4. Leads(frames', end, u, r)
    <3>1. /\ Len(frames) + 1 \in 1 .. Len(frames')
          /\ frames'[Len(frames) + 1].slot = s
          /\ end.last \in Nat
      BY <1>2, <1>5 DEF Places
    <3>2. IF end.joined THEN Len(frames) + 1 = end.last + 1 /\ end.open = 0
          ELSE Len(frames) + 1 > end.last
      BY <1>2, <2>3, <3>1 DEF Frame
    <3>3. ReadsStart(frames', end, u, r)
      BY <2>2, <3>1, <3>2 DEF ReadsStart, Frame
    <3>4. QED
      BY <3>3 DEF Leads
  <2>5. /\ s2.over = "no" /\ s2.serving = TRUE /\ s2.withheld = 0
        /\ s2 \in SessionTypes
    BY <1>7, <2>3, SessionTyped DEF Up, SessionTypes
  <2>6. session' = s2 => Current(r)'
    <3>1. /\ r.joined = TRUE /\ r.open = Frame' /\ r.last = Frame'
          /\ r.count = 0 /\ r.seq = 0
      BY <1>6, <2>2
    <3>2. frames'[Frame'].txs = 0
      BY <1>5, <1>6 DEF Frame
    <3>3. Frame' \in Nat
      BY <1>2, <1>6 DEF Frame
    <3> HIDE DEF s2
    <3>4. QED
      BY <1>6, <2>5, <3>1, <3>2, <3>3 DEF Current
  <2> HIDE DEF s2, u
  <2>7. QED
    BY <1>3, <1>7, <2>1, <2>2, <2>4, <2>5, <2>6, SendOneMoves
<1>8. UNCHANGED <<vars, program>> /\ (~Up => UNCHANGED <<session, wire>>)
  BY DEF StartSlot, NotSent
<1>9. [Contract!Next]_(Contract!vars)
  BY <1>1 DEF Contract!Next
<1>10. QED
  BY <1>3, <1>7, <1>8, <1>9, SentMoves

\* A transaction is sent or withheld: either way a stream that is in the frame
\* accounts for it.
LEMMA MatchMoves ==
    ASSUME DeliveryInv, MatchTransaction
    PROVE  Moves
<1> DEFINE old == frames[Len(frames)]
           new == [old EXCEPT !.txs = old.txs + 1]
<1>1. Contract!MatchTransaction
  BY DEF MatchTransaction, Open, Last, Frame, Contract!MatchTransaction, Contract!Newest
<1>2. /\ frames \in Frames /\ frames # <<>> /\ Len(frames) \in Nat
      /\ Len(frames) \in 1 .. Len(frames) /\ ~old.ended
  BY DEF DeliveryInv, DeliveryTypeOK, Frames, MatchTransaction, Open, Last
<1>3. frames' \in Frames /\ Grows(frames, frames')
  BY <1>1, <1>2, FeedGrows
<1>4. old \in FrameTypes /\ old.txs \in Nat
  BY <1>2, FramesTyped DEF Frames
<1>5. frames' = [frames EXCEPT ![Len(frames)] = new]
  BY DEF MatchTransaction, Frame
<1>6. Len(frames') = Len(frames) /\ frames'[Len(frames)] = new /\ frames' # <<>>
  BY <1>2, <1>5 DEF Frames
<1>7. new.txs = old.txs + 1 /\ new.slot = old.slot /\ new.ended = old.ended
  BY <1>4 DEF FrameTypes
<1>8. Frame' = Frame /\ Open' /\ Open
  BY <1>2, <1>6, <1>7 DEF Frame, Open, Last
<1>9. SendTransaction(TransactionOf(old.slot, Frame, old.txs + 1))
  BY <1>6, <1>7 DEF MatchTransaction, Last, Frame
<1>10. ASSUME Up, NEW next \in Places, NEW end \in Places,
              Connects(Along(frames'), Places, next, wire, end), Current(end)
       PROVE  \E r \in Places :
                Connects(Along(frames'), Places, next, wire', r) /\ (Up' => Current(r)')
  <2>1. /\ end.last <= Frame
        /\ end.joined => /\ session.serving /\ end.last = Frame /\ end.open = Frame
                         /\ end.count + session.withheld = old.txs
                         /\ end.seq <= old.txs
        /\ session.withheld > 0 => session.serving
    BY <1>8, <1>10 DEF Current, Frame
  <2>2. /\ end.last \in Nat /\ end.open \in Nat /\ end.count \in Nat /\ end.seq \in Nat
        /\ end.joined \in BOOLEAN
    BY DEF Places
  <2>3. CASE ~session.serving
    <3>1. UNCHANGED <<session, wire>> /\ ~end.joined
      BY <1>9, <2>1, <2>3 DEF SendTransaction, NotSent
    <3>2. Current(end)'
      BY <1>8, <2>1, <3>1 DEF Current
    <3>3. QED
      BY <1>10, <3>1, <3>2
  <2>4. CASE session.serving /\ wire' = wire
             /\ session' = [session EXCEPT !.withheld = @ + 1]
    <3>1. session'.serving /\ session'.withheld = session.withheld + 1
      BY <2>4, SessionTyped
    <3>2. end.joined => end.count + session'.withheld = frames'[Frame'].txs
                        /\ end.seq <= frames'[Frame'].txs
      <4>1. frames'[Frame'].txs = old.txs + 1
        BY <1>6, <1>7, <1>8 DEF Frame
      <4>2. session.withheld \in Nat
        BY SessionTyped
      <4> HIDE DEF old
      <4>3. QED
        BY <1>4, <2>1, <2>2, <2>4, <3>1, <4>1, <4>2
    <3>3. Current(end)'
      BY <1>8, <2>1, <3>1, <3>2 DEF Current
    <3>4. QED
      BY <1>10, <2>4, <3>3
  <2>5. CASE session.serving /\ Send(<<TransactionOf(old.slot, Frame, old.txs + 1)>>, session)
    <3>1. PICK r \in Places :
            r = IF end.joined
                THEN [end EXCEPT !.count = end.count + 1, !.seq = old.txs + 1]
                ELSE end
      <4>1. [end EXCEPT !.count = end.count + 1, !.seq = old.txs + 1] \in Places
        <5>1. end.count + 1 \in Nat /\ old.txs + 1 \in Nat
          BY <1>4, <2>2
        <5> HIDE DEF old
        <5>2. QED
          BY <5>1 DEF Places
      <4>2. QED
        BY <4>1
    <3>2. Leads(frames', end, TransactionOf(old.slot, Frame, old.txs + 1), r)
      <4>1. /\ Frame \in 1 .. Len(frames') /\ old.txs + 1 \in Nat
            /\ frames'[Frame].slot = old.slot /\ frames'[Frame].txs = old.txs + 1
        BY <1>2, <1>4, <1>6, <1>7 DEF Frame
      <4>2. end.joined => /\ end.open = Frame /\ end.seq < old.txs + 1
                          /\ old.txs + 1 <= frames'[Frame].txs
        BY <1>4, <2>1, <2>2, <4>1
      <4>3. ReadsTransaction(frames', end, TransactionOf(old.slot, Frame, old.txs + 1), r)
        BY <3>1, <4>1, <4>2, Zenon DEF ReadsTransaction
      <4>4. QED
        BY <4>3 DEF Leads
    <3>3. session' = session => Current(r)'
      <4>1. CASE ~end.joined
        BY <1>8, <2>1, <3>1, <4>1 DEF Current
      <4>2. CASE end.joined
        <5>1. /\ r.joined = end.joined /\ r.open = end.open /\ r.last = end.last
              /\ r.count = end.count + 1 /\ r.seq = old.txs + 1
          BY <3>1, <4>2 DEF Places
        <5>2. /\ r.count + session.withheld = frames'[Frame'].txs
              /\ r.seq <= frames'[Frame'].txs
          <6>1. frames'[Frame'].txs = old.txs + 1
            BY <1>6, <1>7, <1>8 DEF Frame
          <6>2. end.count + session.withheld = old.txs
            BY <2>1, <4>2
          <6>3. session.withheld \in Nat
            BY SessionTyped
          <6> HIDE DEF old
          <6>4. QED
            BY <1>4, <2>2, <5>1, <6>1, <6>2, <6>3
        <5>3. QED
          BY <1>8, <2>1, <4>2, <5>1, <5>2 DEF Current
      <4>3. QED
        BY <4>1, <4>2
    <3>4. QED
      BY <1>3, <1>10, <2>5, <3>2, <3>3, SendOneMoves, SessionTyped DEF Up
  <2>6. QED
    BY <1>9, <1>10, <2>3, <2>4, <2>5 DEF SendTransaction
<1>11. UNCHANGED <<vars, program>> /\ (~Up => UNCHANGED <<session, wire>>)
  BY DEF MatchTransaction, SendTransaction, NotSent
<1>12. [Contract!Next]_(Contract!vars)
  BY <1>1 DEF Contract!Next
<1>13. QED
  BY <1>3, <1>10, <1>11, <1>12, SentMoves

\* The notice of what is withheld brings a stream in the frame up to date.
LEMMA ClipLeads ==
    ASSUME DeliveryInv, NEW fr \in Frames, NEW end \in Places, Current(end),
           session.withheld > 0, Len(fr) = Len(frames),
           fr[Len(frames)].txs = frames[Len(frames)].txs
    PROVE  \E r \in Places :
             /\ Leads(fr, end, ClipOf(session.withheld), r)
             /\ r.joined = end.joined /\ r.open = end.open /\ r.last = end.last
             /\ r.seq = end.seq
             /\ r.joined => r.count = frames[Len(frames)].txs
<1>1. session.serving /\ Open
  BY DEF Current
<1>2. /\ frames \in Frames /\ Len(frames) \in Nat /\ Len(frames) \in 1 .. Len(frames)
      /\ frames[Len(frames)].txs \in Nat
  BY <1>1, FramesTyped DEF Open, DeliveryInv, DeliveryTypeOK, Frames
<1>3. session.withheld \in Nat \ {0}
  BY SessionTyped
<1>4. end.count \in Nat
  BY DEF Places
<1>5. end.joined => /\ end.open = Len(frames)
                    /\ end.count + session.withheld = frames[Len(frames)].txs
  BY <1>1 DEF Current, Frame
<1>6. PICK r : r = IF end.joined THEN [end EXCEPT !.count = end.count + session.withheld]
                   ELSE end
  OBVIOUS
<1>7. r \in Places
  <2>1. end.count + session.withheld \in Nat
    BY <1>3, <1>4
  <2>2. QED
    BY <1>6, <2>1 DEF Places
<1>8. /\ r.joined = end.joined /\ r.open = end.open /\ r.last = end.last
      /\ r.seq = end.seq
      /\ r.joined => r.count = frames[Len(frames)].txs
  BY <1>5, <1>6 DEF Places
<1>9. end.joined =>
        end.open \in 1 .. Len(fr) /\ end.count + session.withheld <= fr[end.open].txs
  BY <1>2, <1>5
<1>10. ReadsClip(fr, end, ClipOf(session.withheld), r)
  BY <1>3, <1>6, <1>9, Zenon DEF ReadsClip
<1>11. QED
  BY <1>7, <1>8, <1>10 DEF Leads

\* A frame ends after the notice of what was withheld of it: a stream that is
\* in the frame accounts for all of it.
LEMMA EndMoves ==
    ASSUME DeliveryInv, EndSlot
    PROVE  Moves
<1> DEFINE old == frames[Len(frames)]
           new == [old EXCEPT !.ended = TRUE]
           u == SlotEndOf(old.slot, Frame)
           s2 == [session EXCEPT !.withheld = 0]
<1>1. Contract!EndSlot
  BY DEF EndSlot, Open, Last, Frame, Contract!EndSlot, Contract!Newest
<1>2. /\ frames \in Frames /\ frames # <<>> /\ Len(frames) \in Nat
      /\ Len(frames) \in 1 .. Len(frames) /\ ~old.ended
  BY DEF DeliveryInv, DeliveryTypeOK, Frames, EndSlot, Open, Last
<1>3. frames' \in Frames /\ Grows(frames, frames')
  BY <1>1, <1>2, FeedGrows
<1>4. old \in FrameTypes /\ old.txs \in Nat
  BY <1>2, FramesTyped DEF Frames
<1>5. frames' = [frames EXCEPT ![Len(frames)] = new]
  BY DEF EndSlot, Frame
<1>6. Len(frames') = Len(frames) /\ frames'[Len(frames)] = new /\ frames' # <<>>
  <2>1. frames' \in Seq(FrameTypes) /\ Len(frames') = Len(frames)
    BY <1>2, <1>3, <1>5 DEF Frames
  <2>2. frames'[Len(frames)] = new
    <3>1. Len(frames) \in DOMAIN frames
      BY <1>2 DEF Frames
    <3>2. QED
      BY <1>5, <3>1
  <2>3. frames' # <<>>
    BY <1>2, <2>1
  <2>4. QED
    BY <2>1, <2>2, <2>3
<1>7. new.txs = old.txs /\ new.slot = old.slot /\ new.ended = TRUE
  BY <1>4 DEF FrameTypes
<1> HIDE DEF new
<1>8. Frame' = Frame /\ ~Open' /\ Open
  BY <1>2, <1>6, <1>7 DEF Frame, Open, Last
<1>9. /\ s2.over = session.over /\ s2.serving = session.serving /\ s2.withheld = 0
      /\ s2 \in SessionTypes
  BY SessionTyped DEF SessionTypes
\* The slot's end, read by one who has read or been told of all of it.
<1>10. ASSUME NEW end \in Places,
              end.last <= Frame,
              end.joined => /\ session.serving /\ end.last = Frame /\ end.open = Frame
                            /\ end.count = old.txs
       PROVE  \E r \in Places :
                Leads(frames', end, u, r) /\ (session' = s2 => Current(r)')
  <2>1. PICK r \in Places : r = IF end.joined THEN [end EXCEPT !.open = 0] ELSE end
    <3>1. [end EXCEPT !.open = 0] \in Places
      BY DEF Places
    <3>2. QED
      BY <3>1
  <2>2. ReadsEnd(frames', end, u, r)
    <3>1. /\ Frame \in 1 .. Len(frames') /\ frames'[Frame].slot = old.slot
          /\ frames'[Frame].ended /\ frames'[Frame].txs = old.txs
      BY <1>2, <1>6, <1>7 DEF Frame
    <3>2. QED
      BY <1>10, <2>1, <3>1, Zenon DEF ReadsEnd
  <2>3. ASSUME session' = s2 PROVE Current(r)'
    <3>1. session'.serving = session.serving /\ session'.withheld = 0
      BY <1>9, <2>3
    <3>2. r.last = end.last /\ r.joined = end.joined /\ (r.joined => r.open = 0)
      BY <2>1 DEF Places
    <3>3. QED
      BY <1>8, <1>10, <3>1, <3>2 DEF Current
  <2>4. QED
    BY <2>2, <2>3 DEF Leads
<1>11. ASSUME Up, NEW next \in Places, NEW end \in Places,
              Connects(Along(frames'), Places, next, wire, end), Current(end)
       PROVE  \E r \in Places :
                Connects(Along(frames'), Places, next, wire', r) /\ (Up' => Current(r)')
  <2>1. /\ end.last <= Frame
        /\ end.joined => /\ session.serving /\ end.last = Frame /\ end.open = Frame
                         /\ end.count + session.withheld = old.txs
        /\ session.withheld > 0 => session.serving
    BY <1>8, <1>11 DEF Current, Frame
  <2>2. end.count \in Nat /\ end.joined \in BOOLEAN /\ session.withheld \in Nat
    BY SessionTyped DEF Places
  <2>3. CASE ~session.serving
    <3>1. UNCHANGED <<session, wire>> /\ ~end.joined /\ session.withheld = 0
      BY <2>1, <2>2, <2>3 DEF EndSlot, NotSent
    <3>2. Current(end)'
      BY <1>8, <2>1, <3>1 DEF Current
    <3>3. QED
      BY <1>11, <3>1, <3>2
  <2>4. CASE session.serving /\ session.withheld = 0
    <3>1. Send(<<u>>, s2)
      <4>1. Send(<<>> \o <<u>>, s2)
        BY <1>11, <2>4 DEF EndSlot, Last, Frame
      <4>2. <<>> \o <<u>> = <<u>>
        OBVIOUS
      <4>3. QED
        BY <4>1, <4>2
    <3>2. PICK r \in Places :
            Leads(frames', end, u, r) /\ (session' = s2 => Current(r)')
      BY <1>10, <2>1, <2>2, <2>4
    <3> HIDE DEF u, s2
    <3>3. QED
      BY <1>3, <1>9, <1>11, <3>1, <3>2, SendOneMoves DEF Up
  <2>5. CASE session.serving /\ session.withheld > 0
    <3> DEFINE c == ClipOf(session.withheld)
    <3>1. Send(<<c>> \o <<u>>, s2)
      BY <1>11, <2>5 DEF EndSlot, Last, Frame
    <3>2. PICK m \in Places :
            /\ Leads(frames', end, c, m)
            /\ m.joined = end.joined /\ m.open = end.open /\ m.last = end.last
            /\ m.joined => m.count = old.txs
      BY <1>3, <1>6, <1>7, <1>11, <2>5, ClipLeads
    <3>3. PICK r \in Places :
            Leads(frames', m, u, r) /\ (session' = s2 => Current(r)')
      BY <1>10, <2>1, <3>2
    <3>4. c \in Messages /\ u \in Messages /\ wire \in Seq(Messages)
      BY <1>3, <3>2, <3>3, LeadsMessages DEF DeliveryInv, DeliveryTypeOK
    <3> HIDE DEF c, u, s2
    <3>5. wire \o (<<c>> \o <<u>>) = Append(Append(wire, c), u)
          /\ Append(wire, c) \in Seq(Messages)
      BY <3>4
    <3>6. CASE wire' = wire \o (<<c>> \o <<u>>) /\ session' = s2
      <4>1. <<end, c, m>> \in Along(frames') /\ <<m, u, r>> \in Along(frames')
        BY <1>3, <3>2, <3>3, StepsAlong
      <4>2. Connects(Along(frames'), Places, next, Append(wire, c), m)
        BY <1>11, <3>4, <4>1, ConnectsAppend
      <4>3. Connects(Along(frames'), Places, next, wire', r)
        BY <3>4, <3>5, <3>6, <4>1, <4>2, ConnectsAppend
      <4>4. QED
        BY <3>3, <3>6, <4>3
    <3>7. CASE wire' = wire /\ session' = [s2 EXCEPT !.over = "DataLoss"]
      <4>1. ~Up'
        BY <1>9, <3>7 DEF Up
      <4>2. QED
        BY <1>11, <3>7, <4>1
    <3>8. QED
      BY <3>1, <3>6, <3>7 DEF Send
  <2>6. QED
    BY <2>2, <2>3, <2>4, <2>5
<1>12. UNCHANGED <<vars, program>> /\ (~Up => UNCHANGED <<session, wire>>)
  BY DEF EndSlot, NotSent
<1>13. [Contract!Next]_(Contract!vars)
  BY <1>1 DEF Contract!Next
<1>14. QED
  BY <1>3, <1>11, <1>12, <1>13, SentMoves

LEMMA Unchanging ==
    ASSUME DeliveryInv, UNCHANGED <<frames, program>>
    PROVE  /\ [Contract!Next]_(Contract!vars)
           /\ frames \in Frames /\ frames' \in Frames /\ Grows(frames, frames')
           /\ Frame' = Frame /\ (Open' <=> Open)
<1>1. UNCHANGED Contract!vars
  BY DEF Contract!vars
<1>2. QED
  BY <1>1, ContractKeeps DEF DeliveryInv, DeliveryTypeOK, Frame, Open

\* A notice, a ping or the loss of the connection.
LEMMA ServerMoves ==
    ASSUME DeliveryInv, UNCHANGED <<frames, program>>,
           SendClip \/ SendPing \/ LoseConnection
    PROVE  Moves
<1>1. UNCHANGED vars /\ Up
  BY DEF SendClip, SendPing, LoseConnection
<1>2. ASSUME NEW next \in Places, NEW end \in Places,
             Connects(Along(frames'), Places, next, wire, end), Current(end)
      PROVE  \E r \in Places :
               Connects(Along(frames'), Places, next, wire', r) /\ (Up' => Current(r)')
  <2>1. CASE SendClip
    <3> DEFINE s2 == [session EXCEPT !.withheld = 0]
               u == ClipOf(session.withheld)
    <3>1. session.withheld > 0 /\ Send(<<u>>, s2)
      BY <2>1 DEF SendClip
    <3>2. PICK r \in Places :
            /\ Leads(frames', end, u, r)
            /\ r.joined = end.joined /\ r.open = end.open /\ r.last = end.last
            /\ r.seq = end.seq
            /\ r.joined => r.count = frames[Len(frames)].txs
      BY <1>2, <3>1, Unchanging, ClipLeads
    <3>3. /\ s2.over = session.over /\ s2.serving = session.serving /\ s2.withheld = 0
          /\ s2 \in SessionTypes
      BY SessionTyped DEF SessionTypes
    <3>4. ASSUME session' = s2 PROVE Current(r)'
      <4>1. session'.serving = session.serving /\ session'.withheld = 0
        BY <3>3, <3>4
      <4>2. r.joined => r.count + session'.withheld = frames[Frame].txs
        <5>1. r.count \in Nat
          BY DEF Places
        <5>2. QED
          BY <3>2, <4>1, <5>1 DEF Frame
      <4>3. QED
        BY <1>2, <3>2, <4>1, <4>2, Unchanging DEF Current
    <3> HIDE DEF s2, u
    <3>5. QED
      BY <1>1, <1>2, <3>1, <3>2, <3>3, <3>4, SendOneMoves, Unchanging DEF Up
  <2>2. CASE SendPing
    <3>1. Send(<<PingUpdate>>, session)
      BY <2>2 DEF SendPing
    <3>2. Leads(frames', end, PingUpdate, end)
      BY DEF Leads, ReadsPing
    <3>3. session' = session => Current(end)'
      BY <1>2, Unchanging DEF Current
    <3>4. QED
      BY <1>1, <1>2, <3>1, <3>2, <3>3, SendOneMoves, SessionTyped, Unchanging DEF Up
  <2>3. CASE LoseConnection
    <3>1. PICK n \in 0 .. Len(wire), how \in Statuses \union {"End"} :
            wire' = SubSeq(wire, 1, n) /\ session' = [session EXCEPT !.over = how]
      BY <2>3 DEF LoseConnection
    <3>2. \E r \in Places : Connects(Along(frames'), Places, next, wire', r)
      BY <1>2, <3>1, ConnectsPrefix DEF DeliveryInv, DeliveryTypeOK
    <3>3. how # "no"
      BY EventStreamAssumption DEF EventStreamAssumption, Codes, RetryableCodes,
         TerminalCodes
    <3>4. ~Up'
      BY <3>1, <3>3, SessionTyped DEF Up
    <3>5. QED
      BY <3>2, <3>4
  <2>4. QED
    BY <2>1, <2>2, <2>3
<1>3. QED
  BY <1>1, <1>2, SentMoves, Unchanging

-----------------------------------------------------------------------------
(* Steps of the connection. *)

LEMMA AnswerFrames ==
    ASSUME NEW a, Answer(a)
    PROVE  /\ source.answer = "NotReady" /\ source' = a /\ a \in AnswersIn(state)
           /\ UNCHANGED <<fields, state, framed, ret>>
           /\ ~Returned
  BY DEF Answer, fields, Returned

\* A call that is answered starts with nothing under way.
LEMMA AcceptMoves ==
    ASSUME DeliveryInv, NEW serving \in BOOLEAN, Accept(serving),
           UNCHANGED <<frames, program>>
    PROVE  Moves
<1>1. state = "Connecting" /\ session' = NewSession(serving) /\ wire' = <<>>
  BY DEF Accept
<1>2. /\ source'.answer = "Connected" /\ UNCHANGED <<state, framed, ret, program>>
      /\ ~Returned
  BY AnswerFrames DEF Accept, Connected
<1>3. /\ Here' = [joined |-> FALSE, open |-> 0, count |-> 0, seq |-> 0,
                  last |-> program.last]
      /\ Here' = Here
  BY <1>1, <1>2 DEF Here
<1>4. Here \in Places
  BY HereTyped DEF DeliveryInv, DeliveryTypeOK, StreamInv
<1>5. PICK h \in Places : h = Here'
  BY <1>3, <1>4
<1>6. Connects(Along(frames'), Places, h, wire', h)
  BY <1>1, ConnectsEmpty
<1>7. Current(h)'
  <2>1. h.joined = FALSE /\ h.last = program.last
    BY <1>3, <1>5
  <2>2. session'.withheld = 0
    BY <1>1 DEF NewSession
  <2>3. h.last <= Frame'
    BY <2>1, Unchanging DEF DeliveryInv, ProgramInv
  <2>4. QED
    BY <2>1, <2>2, <2>3 DEF Current
<1>8. UnderWay'
  BY <1>2, <1>5, <1>6, <1>7 DEF UnderWay
<1>9. NothingUnderWay' /\ Voided' /\ Completed'
  BY <1>1, <1>2 DEF DeliveryInv, NothingUnderWay, Disconnected, Voided, Completed, Shown
<1>10. QED
  BY <1>2, <1>8, <1>9, Unchanging DEF Moves

\* The oldest update arrives: it leads on from where the program is.
LEMMA ArriveMoves ==
    ASSUME DeliveryInv, Arrive, UNCHANGED <<frames, program>>
    PROVE  Moves
<1>1. /\ state = "Streaming" /\ wire # <<>> /\ wire' = Tail(wire)
      /\ UNCHANGED session /\ Answer(Update(Head(wire)))
  BY DEF Arrive
<1>2. /\ source.answer = "NotReady" /\ source' = Update(Head(wire))
      /\ UNCHANGED <<state, framed, ret, program>> /\ ~Returned
  BY <1>1, AnswerFrames
<1>3. source'.answer = "Update" /\ source'.update = Head(wire)
  BY <1>2 DEF Update
<1>4. Here' = Here
  BY <1>2 DEF Here
<1>5. PICK end \in Places :
        Connects(Along(frames), Places, Here, wire, end) /\ (Up => Current(end))
  BY <1>2 DEF DeliveryInv, UnderWay
<1>6. PICK next \in Places :
        /\ Leads(frames, Here, Head(wire), next)
        /\ Connects(Along(frames), Places, next, Tail(wire), end)
  <2>1. PICK next \in Places :
          /\ <<Here, Head(wire), next>> \in Along(frames)
          /\ Connects(Along(frames), Places, next, Tail(wire), end)
    BY <1>1, <1>5, ConnectsTail DEF DeliveryInv, DeliveryTypeOK
  <2>2. Leads(frames, Here, Head(wire), next)
    BY <2>1 DEF Along
  <2>3. QED
    BY <2>1, <2>2
<1>7. Up' => Current(end)'
  BY <1>1, <1>5 DEF Up, Current, Frame, Open
<1>8. UnderWay'
  BY <1>1, <1>3, <1>4, <1>6, <1>7 DEF UnderWay
<1>9. NothingUnderWay'
  <2>1. ~Disconnected'
    BY <1>1, <1>2, <1>3 DEF Disconnected
  <2>2. QED
    BY <2>1 DEF NothingUnderWay
<1>10. Voided' /\ Completed'
  BY <1>2 DEF DeliveryInv, Voided, Completed, Shown
<1>11. QED
  BY <1>2, <1>8, <1>9, <1>10, Unchanging DEF Moves

\* A stream ends, a call is refused, a sleep ends or a next() is dropped.
LEMMA IdleMoves ==
    ASSUME DeliveryInv, Refuse \/ StreamEnds \/ Sleeping, UNCHANGED <<frames, program>>
    PROVE  Moves
<1>1. /\ UNCHANGED <<state, framed, ret, program, wire>> /\ ~Returned
      /\ source.answer = "Update" => UNCHANGED source
      /\ source'.answer = "Update" => UNCHANGED source
      /\ \/ UNCHANGED session
         \/ session'.over = "none" /\ wire = <<>>
      /\ Disconnected' => Disconnected \/ (session'.over = "none" /\ wire = <<>>)
      /\ Disconnected => UNCHANGED session
  <2>1. CASE Refuse
    <3>1. PICK code : Answer(Refused(code)) /\ state = "Connecting"
      BY <2>1 DEF Refuse
    <3>2. UNCHANGED <<wire, session>>
      BY <2>1 DEF Refuse, NotSent
    <3>3. QED
      BY <3>1, <3>2, AnswerFrames DEF Refused, Disconnected
  <2>2. CASE StreamEnds
    <3>1. PICK a : Answer(a) /\ a.answer \in {"End", "Status"}
      BY <2>2 DEF StreamEnds, EndOfStream, Status
    <3>2. session'.over = "none" /\ wire = <<>> /\ UNCHANGED wire
          /\ state = "Streaming" /\ session.over # "none"
      BY <2>2 DEF StreamEnds, NoSession
    <3>3. ~Disconnected
      BY <3>2 DEF DeliveryInv, NothingUnderWay
    <3>4. QED
      BY <3>1, <3>2, <3>3, AnswerFrames
  <2>3. CASE TimerFires /\ NotSent
    <3>1. Answer(Elapsed)
      BY <2>3 DEF TimerFires, WaitingAnswers
    <3>2. state = "Waiting"
      BY <3>1 DEF Answer, AnswersIn, ConnectingAnswers, StreamingAnswers, Elapsed,
         Connected, Refused, Update, Status, EndOfStream
    <3>3. QED
      BY <2>3, <3>1, <3>2, AnswerFrames DEF NotSent, Elapsed, Disconnected
  <2>4. CASE DropNext /\ NotSent
    BY <2>4 DEF DropNext, NotSent, fields, Returned, Disconnected
  <2>5. QED
    BY <2>1, <2>2, <2>3, <2>4 DEF Sleeping
<1>2. Here' = Here
  BY <1>1 DEF Here
<1>3. PICK next \in Places, end \in Places :
        /\ IF source.answer = "Update" THEN Leads(frames, Here, source.update, next)
           ELSE next = Here
        /\ Connects(Along(frames), Places, next, wire, end)
        /\ Up => Current(end)
  BY DEF DeliveryInv, UnderWay
<1>4. Up' => Current(end)'
  BY <1>1, <1>3 DEF Up, Current, Frame, Open
<1>5. UnderWay'
  BY <1>1, <1>2, <1>3, <1>4 DEF UnderWay
<1>6. NothingUnderWay'
  BY <1>1 DEF DeliveryInv, NothingUnderWay
<1>7. Voided' /\ Completed'
  BY <1>1 DEF DeliveryInv, Voided, Completed, Shown
<1>8. QED
  BY <1>1, <1>5, <1>6, <1>7, Unchanging DEF Moves

-----------------------------------------------------------------------------
(* The invariant. *)

LEMMA SendTyped ==
    ASSUME wire \in Seq(Messages), NEW us \in Seq(Messages), NEW s \in SessionTypes,
           Send(us, s)
    PROVE  wire' \in Seq(Messages) /\ session' \in SessionTypes
<1>1. wire \o us \in Seq(Messages)
  OBVIOUS
<1>2. [s EXCEPT !.over = "DataLoss"] \in SessionTypes
  BY DEF SessionTypes
<1>3. QED
  BY <1>1, <1>2 DEF Send

\* The session and the wire keep their types.
LEMMA DeliveryTyped ==
    ASSUME DeliveryInv, DeliveryNext
    PROVE  wire' \in Seq(Messages) /\ session' \in SessionTypes
<1>1. /\ wire \in Seq(Messages) /\ session \in SessionTypes /\ frames \in Frames
      /\ Len(frames) \in Nat
  BY DEF DeliveryInv, DeliveryTypeOK, Frames
<1>2. Open => /\ Len(frames) \in 1 .. Len(frames)
              /\ frames[Len(frames)].slot \in 1 .. MaxSlot
              /\ frames[Len(frames)].txs \in Nat
  <2>1. Open => Len(frames) \in 1 .. Len(frames)
    BY <1>1 DEF Open, Frames
  <2>2. QED
    BY <1>1, <2>1, FramesTyped
<1>3. session.withheld \in Nat
  BY SessionTyped
<1>4. CASE Reader
  BY <1>1, <1>4 DEF Reader
<1>5. ASSUME NEW s \in 1 .. MaxSlot, StartSlot(s)
      PROVE  wire' \in Seq(Messages) /\ session' \in SessionTypes
  <2>1. CASE UNCHANGED <<wire, session>>
    BY <1>1, <2>1
  <2>2. CASE Send(<<SlotStartOf(s, Frame + 1)>>, [session EXCEPT !.serving = TRUE])
    <3>1. SlotStartOf(s, Frame + 1) \in Messages
      <4>1. Frame + 1 \in Nat
        BY <1>1 DEF Frame
      <4>2. QED
        BY <4>1 DEF Messages
    <3>2. [session EXCEPT !.serving = TRUE] \in SessionTypes
      BY <1>1 DEF SessionTypes
    <3>3. <<SlotStartOf(s, Frame + 1)>> \in Seq(Messages)
      BY <3>1
    <3>4. QED
      BY <1>1, <2>2, <3>2, <3>3, SendTyped
  <2>3. QED
    BY <1>5, <2>1, <2>2 DEF StartSlot, NotSent
<1>6. CASE MatchTransaction
  <2> DEFINE u == TransactionOf(frames[Len(frames)].slot, Frame, frames'[Frame].txs)
  <2>1. u \in Messages
    <3>1. Len(frames) \in DOMAIN frames /\ frames[Len(frames)] \in FrameTypes
      BY <1>1, <1>2, <1>6 DEF MatchTransaction, Frames
    <3>2. frames'[Len(frames)].txs = frames[Len(frames)].txs + 1
      BY <1>6, <3>1 DEF MatchTransaction, Frame, FrameTypes
    <3>3. /\ frames[Len(frames)].slot \in 1 .. MaxSlot /\ Frame \in Nat
          /\ frames'[Frame].txs \in Nat
      BY <1>1, <1>2, <1>6, <3>2 DEF MatchTransaction, Frame
    <3>4. QED
      BY <3>3 DEF Messages
  <2>2. CASE UNCHANGED <<wire, session>>
    BY <1>1, <2>2
  <2>3. CASE session' = [session EXCEPT !.withheld = @ + 1] /\ wire' = wire
    BY <1>1, <1>3, <2>3 DEF SessionTypes
  <2>4. CASE Send(<<u>>, session)
    <3> HIDE DEF u
    <3>1. <<u>> \in Seq(Messages)
      BY <2>1
    <3>2. QED
      BY <1>1, <2>4, <3>1, SendTyped
  <2>5. QED
    BY <1>6, <2>2, <2>3, <2>4 DEF MatchTransaction, SendTransaction, NotSent, Last
<1>7. CASE EndSlot
  <2> DEFINE u == SlotEndOf(frames[Len(frames)].slot, Frame)
             s2 == [session EXCEPT !.withheld = 0]
             notice == IF session.withheld > 0 THEN <<ClipOf(session.withheld)>> ELSE <<>>
  <2>1. u \in Messages
    BY <1>1, <1>2, <1>7 DEF EndSlot, Frame, Messages
  <2>2. notice \in Seq(Messages)
    <3>1. ClipOf(session.withheld) \in Messages
      BY <1>3 DEF Messages
    <3>2. QED
      BY <3>1
  <2>3. s2 \in SessionTypes
    BY <1>1 DEF SessionTypes
  <2>4. CASE UNCHANGED <<wire, session>>
    BY <1>1, <2>4
  <2>5. CASE Send(notice \o <<u>>, s2)
    <3> HIDE DEF notice, u, s2
    <3>1. notice \o <<u>> \in Seq(Messages)
      BY <2>1, <2>2
    <3>2. QED
      BY <1>1, <2>3, <2>5, <3>1, SendTyped
  <2>6. QED
    BY <1>7, <2>4, <2>5 DEF EndSlot, NotSent, Last
<1>8. CASE Joins
  <2>1. PICK serving \in BOOLEAN : Accept(serving)
    BY <1>8 DEF Joins
  <2>2. wire' = <<>>
        /\ session' = [over |-> "no", serving |-> serving, withheld |-> 0]
    BY <2>1 DEF Accept, NewSession
  <2>3. QED
    BY <2>2 DEF SessionTypes
<1>9. CASE Passes
  <2>1. CASE Sleeping \/ Refuse
    BY <1>1, <2>1 DEF Sleeping, Refuse, NotSent
  <2>2. CASE SendClip
    <3>1. ClipOf(session.withheld) \in Messages
      BY <1>3 DEF Messages
    <3>2. [session EXCEPT !.withheld = 0] \in SessionTypes
      BY <1>1 DEF SessionTypes
    <3>3. <<ClipOf(session.withheld)>> \in Seq(Messages)
      BY <3>1
    <3>4. QED
      BY <1>1, <2>2, <3>2, <3>3, SendTyped DEF SendClip
  <2>3. CASE SendPing
    <3>1. PingUpdate \in Messages
      BY DEF Messages
    <3>2. <<PingUpdate>> \in Seq(Messages)
      BY <3>1
    <3>3. QED
      BY <1>1, <2>3, <3>2, SendTyped DEF SendPing
  <2>4. CASE LoseConnection
    <3>1. PICK n \in 0 .. Len(wire), how \in Statuses \union {"End"} :
            wire' = SubSeq(wire, 1, n) /\ session' = [session EXCEPT !.over = how]
      BY <2>4 DEF LoseConnection
    <3>2. wire' \in Seq(Messages)
      BY <1>1, <3>1
    <3>3. session' \in SessionTypes
      BY <1>1, <3>1 DEF SessionTypes
    <3>4. QED
      BY <3>2, <3>3
  <2>5. CASE Arrive
    BY <1>1, <2>5 DEF Arrive
  <2>6. CASE StreamEnds
    BY <1>1, <2>6 DEF StreamEnds, NoSession, SessionTypes
  <2>7. QED
    BY <1>9, <2>1, <2>2, <2>3, <2>4, <2>5, <2>6 DEF Passes, Passage
<1>10. QED
  BY <1>4, <1>5, <1>6, <1>7, <1>8, <1>9 DEF DeliveryNext, Feed

\* Every step keeps what is under way leading on to where the feed is.
LEMMA DeliveryMoves == ASSUME DeliveryInv, DeliveryNext PROVE Moves
<1>1. CASE Reader
  BY <1>1, ReaderMoves
<1>2. CASE Feed
  BY <1>2, StartMoves, MatchMoves, EndMoves DEF Feed
<1>3. CASE Joins
  BY <1>3, AcceptMoves DEF Joins
<1>4. CASE Passes
  BY <1>4, IdleMoves, ServerMoves, ArriveMoves DEF Passes, Passage
<1>5. QED
  BY <1>1, <1>2, <1>3, <1>4 DEF DeliveryNext

LEMMA DeliveryInitInv == DeliveryInit => DeliveryInv
<1> SUFFICES ASSUME DeliveryInit PROVE DeliveryInv
  OBVIOUS
<1>1. StreamInv
  BY InitInv DEF DeliveryInit
<1>2. /\ frames = <<>> /\ wire = <<>> /\ session = NewSession(TRUE)
      /\ program = NewProgram
      /\ state = "Streaming" /\ framed = FALSE /\ source = NotReady /\ ret = Opened
  BY DeliveryAssumption DEF DeliveryInit, Init
<1> DEFINE kept0 == [s \in 1 .. MaxSlot |-> 0]
<1>3. kept0 \in [1 .. MaxSlot -> Nat] /\ \A s \in 1 .. MaxSlot : kept0[s] = 0
  OBVIOUS
<1>4. program = [open |-> 0, held |-> <<>>, notice |-> 0, last |-> 0,
                 resumed |-> TRUE, kept |-> kept0]
  BY <1>2 DEF NewProgram
<1> HIDE DEF kept0
<1>5. <<>> \in Seq(TransactionTypes) /\ <<>> \in Frames /\ <<>> \in Seq(Messages)
      /\ Len(<<>>) = 0
  BY DEF Frames
<1>6. DeliveryTypeOK
  <2>1. program \in ProgramTypes
    BY <1>3, <1>4, <1>5 DEF ProgramTypes
  <2>2. session \in SessionTypes
    BY <1>2 DEF NewSession, SessionTypes
  <2>3. QED
    BY <1>2, <1>5, <2>1, <2>2 DEF DeliveryTypeOK
<1>7. ProgramInv
  BY <1>2, <1>3, <1>4, <1>5 DEF ProgramInv, Frame
<1>8. Voided
  <2>1. NewProgram = [NewProgram EXCEPT !.last = NewProgram.last]
    BY DEF NewProgram
  <2>2. QED
    BY <1>2, <2>1 DEF Voided
<1>9. Here = [joined |-> FALSE, open |-> 0, count |-> 0, seq |-> 0, last |-> 0]
  <2>1. program.open = 0 /\ program.held = <<>> /\ program.last = 0
        /\ Len(program.held) + program.notice = 0
    BY <1>4, <1>5
  <2>2. QED
    BY <1>2, <2>1 DEF Here
<1>10. Here \in Places
  BY <1>9 DEF Places
<1>11. Current(Here)
  BY <1>2, <1>5, <1>9 DEF Current, NewSession, Frame
<1>12. UnderWay
  BY <1>2, <1>10, <1>11, ConnectsEmpty DEF UnderWay, NotReady
<1>13. NothingUnderWay /\ Completed
  BY <1>2 DEF NothingUnderWay, Disconnected, NotReady, Completed, Shown, Opened
<1>14. QED
  BY <1>1, <1>6, <1>7, <1>8, <1>12, <1>13 DEF DeliveryInv

LEMMA DeliveryStepInv ==
    DeliveryInv /\ [DeliveryNext]_deliveryVars => DeliveryInv'
<1> SUFFICES ASSUME DeliveryInv, [DeliveryNext]_deliveryVars PROVE DeliveryInv'
  OBVIOUS
<1>1. CASE DeliveryNext
  <2>1. StreamInv'
    BY <1>1, DeliveryStreams, StepInv DEF DeliveryInv
  <2>2. Moves
    BY <1>1, DeliveryMoves
  <2>3. frames' \in Frames /\ program' \in ProgramTypes /\ ProgramInv'
    BY <2>2, ContractKeeps DEF Moves, DeliveryInv, DeliveryTypeOK
  <2>4. DeliveryTypeOK'
    BY <1>1, <2>3, DeliveryTyped DEF DeliveryTypeOK
  <2>5. QED
    BY <2>1, <2>2, <2>3, <2>4 DEF DeliveryInv, Moves
<1>2. CASE UNCHANGED deliveryVars
  <2>1. UNCHANGED <<vars, reconnect, state, delay, attempts, framed, source, armed,
                    task, ret, frames, session, wire, program>>
    BY <1>2 DEF deliveryVars, vars
  <2>2. StreamInv'
    BY <2>1, StepInv DEF DeliveryInv
  <2>3. DeliveryTypeOK' /\ ProgramInv' /\ NothingUnderWay' /\ Voided' /\ Completed'
    BY <2>1 DEF DeliveryInv, DeliveryTypeOK, ProgramInv, Frame, NothingUnderWay,
       Disconnected, Voided, Completed, Shown
  <2>4. UnderWay'
    BY <2>1 DEF DeliveryInv, UnderWay, Here, Up, Current, Frame, Open
  <2>5. QED
    BY <2>2, <2>3, <2>4 DEF DeliveryInv
<1>3. QED
  BY <1>1, <1>2

\* In every reachable state the answer to be taken and the updates on the wire
\* lead the program, one after the other, to where the feed and the session are.
THEOREM DeliveryInvariance == DeliverySpec => []DeliveryInv
<1>1. QED
  BY DeliveryInitInv, DeliveryStepInv, PTL DEF DeliverySpec

-----------------------------------------------------------------------------
\* Whatever the network loses, the server withholds or cuts off and the stream
\* skips, holds back or resubscribes: what a program has of a slot when SlotEnd
\* comes is, with what Clip announced, every matching transaction of its frame.
THEOREM SlotsAreComplete == DeliverySpec => []CompleteSlots
<1>1. DeliveryInv => CompleteSlots
  <2> SUFFICES ASSUME DeliveryInv, Shown("SlotEnd") PROVE CompleteSlots
    BY DEF CompleteSlots
  <2>1. /\ program.last = ret.event.body.frame
        /\ Len(program.held) + program.notice = frames[program.last].txs
    BY DEF DeliveryInv, Completed
  <2>2. program.held \in Seq(TransactionTypes) /\ Len(program.held) \in Nat
    BY ProgramTyped DEF DeliveryInv, DeliveryTypeOK
  <2>3. ASSUME NEW i \in DOMAIN program.held
        PROVE  /\ program.held[i].frame = program.last
               /\ i > 1 => program.held[i - 1].seq < program.held[i].seq
    <3>1. i \in 1 .. Len(program.held)
      BY <2>2, <2>3
    <3>2. i > 1 => i - 1 \in 1 .. Len(program.held) /\ i - 1 < i
      BY <2>2, <3>1
    <3>3. QED
      BY <3>1, <3>2 DEF DeliveryInv, ProgramInv
  <2>4. QED
    BY <2>1, <2>3 DEF CompleteSlots
<1>2. QED
  BY <1>1, DeliveryInvariance, PTL

\* A program that has read all there is, with no Reconnected since, holds for
\* each slot it completed the frame that was not restarted.
THEOREM HeldAreDefinitive == DeliverySpec => []HeldIsDefinitive
<1>1. DeliveryInv => HeldIsDefinitive
  <2> SUFFICES ASSUME DeliveryInv, Up, wire = <<>>, source.answer = "NotReady",
                      state = "Streaming", ~Open,
                      NEW s \in 1 .. MaxSlot, program.kept[s] # 0
               PROVE  Definitive(s, program.kept[s])
    BY DEF HeldIsDefinitive
  <2>1. framed = TRUE
    <3>1. framed = FALSE => program = [NewProgram EXCEPT !.last = program.last]
      BY DEF DeliveryInv, Voided
    <3>2. [NewProgram EXCEPT !.last = program.last].resumed = TRUE
      BY DEF NewProgram
    <3>3. ~program.resumed
      BY DEF DeliveryInv, ProgramInv
    <3>4. framed \in BOOLEAN
      BY DEF DeliveryInv, StreamInv, TypeOK
    <3>5. QED
      BY <3>1, <3>2, <3>3, <3>4
  <2>2. Here \in Places /\ Here.joined = TRUE /\ Here.last = program.last
    <3>1. Here \in Places
      BY HereTyped DEF DeliveryInv, DeliveryTypeOK, StreamInv
    <3>2. QED
      BY <2>1, <3>1 DEF Here
  <2>3. PICK end \in Places :
          Connects(Along(frames), Places, Here, wire, end) /\ Current(end)
    BY DEF DeliveryInv, UnderWay
  <2>4. end = Here
    BY <2>2, <2>3, ConnectsEmpty
  <2>5. program.last = Frame
    BY <2>2, <2>3, <2>4 DEF Current
  <2>6. QED
    BY <2>5 DEF DeliveryInv, ProgramInv, Definitive
<1>2. QED
  BY <1>1, DeliveryInvariance, PTL

\* No frame is skipped and none abandoned half-way without a Reconnected.
THEOREM DropsAreAnnounced == DeliverySpec => GapsAnnounced
<1>1. DeliveryInv /\ [DeliveryNext]_deliveryVars =>
        [(Returned /\ ret'.item = "Event" /\ ret'.event.event = "SlotStart") =>
           \/ program.resumed
           \/ ret'.event.body.frame = program.last + 1 /\ program.open = 0
        ]_deliveryVars
  BY DeliveryMoves DEF Moves, Announced
<1>2. QED
  BY <1>1, DeliveryInvariance, PTL DEF DeliverySpec, GapsAnnounced

\* Server, connection, stream and program together do only what the contract
\* lets a feed and a program do that have nothing between them.
THEOREM ContractIsFollowed == DeliverySpec => FollowsContract
<1>1. DeliveryInit => Contract!Init
  BY DEF DeliveryInit, Contract!Init, NewProgram, Contract!NewProgram
<1>2. DeliveryInv /\ [DeliveryNext]_deliveryVars => [Contract!Next]_(Contract!vars)
  <2> SUFFICES ASSUME DeliveryInv, [DeliveryNext]_deliveryVars
               PROVE  [Contract!Next]_(Contract!vars)
    OBVIOUS
  <2>1. CASE DeliveryNext
    BY <2>1, DeliveryMoves DEF Moves
  <2>2. CASE UNCHANGED deliveryVars
    BY <2>2 DEF deliveryVars, Contract!vars
  <2>3. QED
    BY <2>1, <2>2
<1>3. QED
  BY <1>1, <1>2, DeliveryInvariance, PTL DEF DeliverySpec, FollowsContract, Contract!Spec
=============================================================================

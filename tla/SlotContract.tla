---------------------------- MODULE SlotContract -----------------------------
(***************************************************************************)
(* What the Harmonic feed promises a program that reads it, with nothing   *)
(* between the two: no server, no connection, no stream, no poll.  The     *)
(* feed publishes frames; the program reads frames, one at a time:         *)
(*                                                                         *)
(*   - in the order of the feed, none skipped, unless a Reconnected came   *)
(*     in between;                                                         *)
(*   - of each frame transactions in their order, and notices of how many  *)
(*     are left out;                                                       *)
(*   - and a frame is complete only when it ended and every transaction of *)
(*     it was read or is accounted for.                                    *)
(*                                                                         *)
(* Reconnected voids the frame being read and, as a restart may have been  *)
(* missed, what is kept of the slots before it.                            *)
(***************************************************************************)
EXTENDS Integers, Sequences

CONSTANT Slots

VARIABLES
    frames,  \* the frames published: slot, matching transactions, ended
    program  \* open, held, notice, last, resumed, kept

vars == <<frames, program>>

NewProgram ==
    [open |-> 0, held |-> <<>>, notice |-> 0, last |-> 0, resumed |-> TRUE,
     kept |-> [s \in Slots |-> 0]]

Newest == frames[Len(frames)]
Read == frames[program.open]

-----------------------------------------------------------------------------
Init == frames = <<>> /\ program = NewProgram

StartSlot(s) ==
    /\ frames # <<>> => Newest.ended
    /\ frames' = Append(frames, [slot |-> s, txs |-> 0, ended |-> FALSE])
    /\ UNCHANGED program

MatchTransaction ==
    /\ frames # <<>> /\ ~Newest.ended
    /\ frames' = [frames EXCEPT ![Len(frames)].txs = @ + 1]
    /\ UNCHANGED program

EndSlot ==
    /\ frames # <<>> /\ ~Newest.ended
    /\ frames' = [frames EXCEPT ![Len(frames)].ended = TRUE]
    /\ UNCHANGED program

\* The program begins a frame, and discards what it kept of the slot.
Begin(f) ==
    /\ IF program.resumed THEN f > program.last
       ELSE f = program.last + 1 /\ program.open = 0
    /\ program' = [program EXCEPT !.open = f, !.held = <<>>, !.notice = 0,
                                  !.last = f, !.resumed = FALSE,
                                  !.kept[frames[f].slot] = 0]
    /\ UNCHANGED frames

Take(n) ==
    /\ program.open # 0
    /\ n <= Read.txs
    /\ \A i \in DOMAIN program.held : program.held[i].seq < n
    /\ program' = [program EXCEPT
         !.held = Append(@, [slot |-> Read.slot, frame |-> program.open, seq |-> n])]
    /\ UNCHANGED frames

Clip(n) ==
    /\ program.open # 0
    /\ Len(program.held) + program.notice + n <= Read.txs
    /\ program' = [program EXCEPT !.notice = @ + n]
    /\ UNCHANGED frames

Complete ==
    /\ program.open # 0
    /\ Read.ended
    /\ Len(program.held) + program.notice = Read.txs
    /\ program' = [program EXCEPT !.open = 0, !.kept[Read.slot] = program.open]
    /\ UNCHANGED frames

Resume ==
    /\ program' = [NewProgram EXCEPT !.last = program.last]
    /\ UNCHANGED frames

Next ==
    \/ \E s \in Slots : StartSlot(s)
    \/ MatchTransaction
    \/ EndSlot
    \/ \E f \in 1 .. Len(frames) : Begin(f)
    \/ program.open # 0 /\ \E n \in 1 .. Read.txs : Take(n) \/ Clip(n)
    \/ Complete
    \/ Resume

Spec == Init /\ [][Next]_vars
=============================================================================

------------------------------- MODULE ByteQueue ------------------------------
(***************************************************************************)
(* What a serial transmitter promises, whatever its buffers and            *)
(* interrupts do: a bounded first-in first-out queue of bytes.  Bytes are  *)
(* numbered in the order in which the program hands them over.             *)
(***************************************************************************)
EXTENDS Integers, Sequences

CONSTANT Capacity   \* bytes that can be under way at once

VARIABLES queue,    \* the bytes accepted and not yet on the line
          put       \* how many bytes have been accepted

Init == queue = <<>> /\ put = 0

\* The next byte is accepted behind all the others.
Put == /\ Len(queue) < Capacity
       /\ queue' = Append(queue, put + 1)
       /\ put' = put + 1

\* The oldest byte leaves.
Take == /\ queue # <<>>
        /\ queue' = Tail(queue)
        /\ UNCHANGED put

\* A reset of the transmitter loses the oldest bytes: some of them, or all.
Discard == /\ \E k \in 1 .. Len(queue) : queue' = SubSeq(queue, k + 1, Len(queue))
           /\ UNCHANGED put

Next == Put \/ Take \/ Discard

Spec == Init /\ [][Next]_<<queue, put>>
=============================================================================

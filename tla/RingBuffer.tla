------------------------------ MODULE RingBuffer ------------------------------
(***************************************************************************)
(* RingBufferN<N> of cores/arduino/RingBuffer.h: a ring of N slots shared  *)
(* by one producer, which moves iHead, and one consumer, which moves       *)
(* iTail; one slot always stays free.  Here are its operations as          *)
(* operators on a ring record.  The callers that can be preempted between  *)
(* two accesses use the half operations (StoreSlot, DropTail, SpaceSeen).  *)
(***************************************************************************)
EXTENDS Integers, Sequences

CONSTANT N   \* number of slots (SERIAL_BUFFER_SIZE, 350, for the UART)

ASSUME NAssumption == N \in Nat /\ N >= 2

Index == 0 .. N - 1

Rings(V) == [aucBuffer : [Index -> V], iHead : Index, iTail : Index]

\* What the constructor leaves: memset to 0 and clear().
NewRing == [aucBuffer |-> [i \in Index |-> 0], iHead |-> 0, iTail |-> 0]

\* Mutant: the index does not wrap.
nextIndexUnwrapped(i) == i + 1

nextIndex(i) == (i + 1) % N

isFull(r) == nextIndex(r.iHead) = r.iTail

isEmpty(r) == r.iTail = r.iHead

available(r) == LET delta == r.iHead - r.iTail
                IN  IF delta < 0 THEN N + delta ELSE delta

\* availableForStore() compares the indices, then reads both again to compute.
isWrapped(r) == ~(r.iHead >= r.iTail)

\* Mutant: the slot that stays free is forgotten.
SpaceSeenOneMore(r, wrapped) == IF wrapped THEN r.iTail - r.iHead
                                           ELSE N - r.iHead + r.iTail

SpaceSeen(r, wrapped) == IF wrapped THEN r.iTail - r.iHead - 1
                                    ELSE N - 1 - r.iHead + r.iTail

availableForStore(r) == SpaceSeen(r, isWrapped(r))

StoreSlot(r, c) == [r EXCEPT !.aucBuffer = [@ EXCEPT ![r.iHead] = c]]

PublishHead(r, i) == [r EXCEPT !.iHead = i]

store_char(r, c) == IF isFull(r) THEN r
                    ELSE PublishHead(StoreSlot(r, c), nextIndex(r.iHead))

DropTail(r) == [r EXCEPT !.iTail = nextIndex(r.iTail)]

peek(r) == IF isEmpty(r) THEN -1 ELSE r.aucBuffer[r.iTail]

clear(r) == [r EXCEPT !.iHead = 0, !.iTail = 0]

-----------------------------------------------------------------------------
(* Views of a ring that the properties use. *)

\* The k-th unread slot, counted from 0 at the tail.
Slot(r, k) == IF r.iTail + k < N THEN r.iTail + k ELSE r.iTail + k - N

\* The bytes stored and not yet read, oldest first.
Contents(r) == [k \in 1 .. available(r) |-> r.aucBuffer[Slot(r, k - 1)]]

\* The unread bytes are the consecutive numbers first, first + 1, ...
HoldsFrom(r, first) ==
    \A k \in Index : k < available(r) => r.aucBuffer[Slot(r, k)] = first + k
=============================================================================

----------------------------- MODULE Uart_proofs -----------------------------
(***************************************************************************)
(* Uart, proved for every ring size, every bound and every interleaving of *)
(* the thread, IrqHandler and the USART.  The invariant is IInv; TxInv in  *)
(* it ties what each context remembers across a preemption (popped, val,   *)
(* nextI, the outcome of its tests) to the ring and the registers.         *)
(* In this order: the rings; types; transmission (bytes reach the line in  *)
(* order, none lost or repeated) and what flush() leaves behind; reception *)
(* (read() returns bytes in order, each once); flow control (the receive   *)
(* ring never overflows if the threshold is right); the room that          *)
(* availableForWrite() reports; the refinement of ByteQueue.               *)
(***************************************************************************)
EXTENDS Uart, SequenceTheorems, TLAPS

-----------------------------------------------------------------------------
(* The rings: what the half operations do to the unread bytes, so that the *)
(* proofs behind this part need not look at indices.                       *)

\* nextIndex steps to the following slot and wraps at N.
LEMMA NextIndex ==
    ASSUME NEW i \in Index
    PROVE  /\ nextIndex(i) = IF i + 1 = N THEN 0 ELSE i + 1
           /\ nextIndex(i) \in Index
<1>1. i \in Nat /\ i + 1 \in 1 .. N /\ N \in Nat /\ N >= 2
  BY NAssumption DEF Index
<1>2. CASE i + 1 = N
  <2>1. (i + 1) % N = 0
    BY <1>1, <1>2
  <2>2. QED  BY <1>1, <1>2, <2>1 DEF nextIndex, Index
<1>3. CASE i + 1 < N
  <2>1. (i + 1) % N = i + 1
    BY <1>1, <1>3
  <2>2. QED  BY <1>1, <1>3, <2>1 DEF nextIndex, Index
<1>4. QED  BY <1>1, <1>2, <1>3

\* A ring of numbers holds between 0 and N - 1 of them; the two tests of the
\* code agree with that count.
LEMMA Counts ==
    ASSUME NEW r \in Rings(Nat)
    PROVE  /\ available(r) \in 0 .. N - 1
           /\ isFull(r) <=> available(r) = N - 1
           /\ isEmpty(r) <=> available(r) = 0
           /\ availableForStore(r) = N - 1 - available(r)
<1>1. r.iHead \in Index /\ r.iTail \in Index /\ N \in Nat /\ N >= 2
  BY NAssumption DEF Rings
<1>2. nextIndex(r.iHead) = IF r.iHead + 1 = N THEN 0 ELSE r.iHead + 1
  BY <1>1, NextIndex
<1>3. QED
  BY <1>1, <1>2 DEF available, isFull, isEmpty, availableForStore, SpaceSeen, isWrapped, Index

\* Writing the slot at the head of a ring that is not full changes none of the
\* unread bytes.
LEMMA StoreKeeps ==
    ASSUME NEW r \in Rings(Nat), NEW c \in Nat, NEW first \in Nat,
           ~isFull(r), HoldsFrom(r, first)
    PROVE  LET s == StoreSlot(r, c)
           IN  /\ s \in Rings(Nat)
               /\ s.iHead = r.iHead /\ s.iTail = r.iTail
               /\ available(s) = available(r)
               /\ HoldsFrom(s, first)
               /\ s.aucBuffer[s.iHead] = c
<1> DEFINE s == StoreSlot(r, c)
<1>1. /\ r.iHead \in Index /\ r.iTail \in Index /\ N \in Nat /\ N >= 2
      /\ r.aucBuffer \in [Index -> Nat]
  BY NAssumption DEF Rings
<1>0. r.iHead \in 0 .. N - 1 /\ r.iTail \in 0 .. N - 1
  BY <1>1 DEF Index
<1>2. /\ s \in Rings(Nat) /\ s.iHead = r.iHead /\ s.iTail = r.iTail
      /\ s.aucBuffer = [r.aucBuffer EXCEPT ![r.iHead] = c]
  BY <1>1 DEF StoreSlot, Rings
<1> HIDE DEF s
<1>3. available(s) = available(r)
  BY <1>2 DEF available
<1>4. available(r) \in 0 .. N - 1 /\ available(r) # N - 1
  BY Counts
<1>5. ASSUME NEW k \in Index, k < available(s)
      PROVE  s.aucBuffer[Slot(s, k)] = first + k
  <2>1. Slot(s, k) = Slot(r, k) /\ Slot(r, k) \in Index /\ Slot(r, k) # r.iHead
    <3>1. k \in 0 .. N - 1 /\ k < available(r)
      BY <1>3, <1>5 DEF Index
    <3>2. Slot(s, k) = Slot(r, k)
      BY <1>2 DEF Slot
    <3>3. Slot(r, k) \in 0 .. N - 1 /\ Slot(r, k) # r.iHead
      BY <1>0, <1>1, <1>4, <3>1 DEF Slot, available
    <3>4. QED  BY <3>2, <3>3 DEF Index
  <2>2. r.aucBuffer[Slot(r, k)] = first + k
    BY <1>3, <1>5 DEF HoldsFrom
  <2>3. QED  BY <1>1, <1>2, <2>1, <2>2
<1>6. HoldsFrom(s, first)
  BY <1>5 DEF HoldsFrom
<1>7. s.aucBuffer[s.iHead] = c
  BY <1>1, <1>2
<1>8. QED  BY <1>2, <1>3, <1>6, <1>7 DEF s

\* Moving the head past a slot that holds the next number makes it the newest
\* unread byte.
LEMMA PublishAppends ==
    ASSUME NEW r \in Rings(Nat), NEW first \in Nat, ~isFull(r), HoldsFrom(r, first),
           r.aucBuffer[r.iHead] = first + available(r)
    PROVE  LET s == PublishHead(r, nextIndex(r.iHead))
           IN  /\ s \in Rings(Nat)
               /\ available(s) = available(r) + 1
               /\ HoldsFrom(s, first)
<1> DEFINE s == PublishHead(r, nextIndex(r.iHead))
<1>1. /\ r.iHead \in Index /\ r.iTail \in Index /\ N \in Nat /\ N >= 2
      /\ r.aucBuffer \in [Index -> Nat]
  BY NAssumption DEF Rings
<1>0. r.iHead \in 0 .. N - 1 /\ r.iTail \in 0 .. N - 1
  BY <1>1 DEF Index
<1>2. nextIndex(r.iHead) \in Index
      /\ nextIndex(r.iHead) = IF r.iHead + 1 = N THEN 0 ELSE r.iHead + 1
  BY <1>1, NextIndex
<1>3. /\ s \in Rings(Nat) /\ s.iHead = nextIndex(r.iHead) /\ s.iTail = r.iTail
      /\ s.aucBuffer = r.aucBuffer
  BY <1>1, <1>2 DEF PublishHead, Rings
<1> HIDE DEF s
<1>4. available(r) \in 0 .. N - 1 /\ available(r) # N - 1
  BY Counts
<1>5. available(s) = available(r) + 1
  BY <1>0, <1>1, <1>2, <1>3, <1>4 DEF available
<1>6. ASSUME NEW k \in Index, k < available(s)
      PROVE  s.aucBuffer[Slot(s, k)] = first + k
  <2>1. Slot(s, k) = Slot(r, k)
    BY <1>3 DEF Slot
  <2>2. CASE k < available(r)
    BY <1>3, <2>1, <2>2 DEF HoldsFrom
  <2>3. CASE k = available(r)
    <3>1. Slot(r, k) = r.iHead
      BY <1>1, <1>4, <2>3 DEF Slot, available, Index
    <3>2. QED  BY <1>3, <2>1, <2>3, <3>1
  <2>4. QED  BY <1>4, <1>5, <1>6, <2>2, <2>3 DEF Index
<1>7. QED  BY <1>3, <1>5, <1>6 DEF HoldsFrom, s

\* Moving the tail drops the oldest byte, which the slot at the tail held.
LEMMA DropRemoves ==
    ASSUME NEW r \in Rings(Nat), NEW first \in Nat, available(r) > 0, HoldsFrom(r, first)
    PROVE  LET s == DropTail(r)
           IN  /\ s \in Rings(Nat)
               /\ s.iHead = r.iHead /\ s.aucBuffer = r.aucBuffer
               /\ available(s) = available(r) - 1
               /\ HoldsFrom(s, first + 1)
               /\ r.aucBuffer[r.iTail] = first
<1> DEFINE s == DropTail(r)
<1>1. /\ r.iHead \in Index /\ r.iTail \in Index /\ N \in Nat /\ N >= 2
      /\ r.aucBuffer \in [Index -> Nat]
  BY NAssumption DEF Rings
<1>0. r.iHead \in 0 .. N - 1 /\ r.iTail \in 0 .. N - 1
  BY <1>1 DEF Index
<1>2. nextIndex(r.iTail) \in Index
      /\ nextIndex(r.iTail) = IF r.iTail + 1 = N THEN 0 ELSE r.iTail + 1
  BY <1>1, NextIndex
<1>3. /\ s \in Rings(Nat) /\ s.iTail = nextIndex(r.iTail) /\ s.iHead = r.iHead
      /\ s.aucBuffer = r.aucBuffer
  BY <1>1, <1>2 DEF DropTail, Rings
<1> HIDE DEF s
<1>4. available(r) \in 0 .. N - 1
  BY Counts
<1>5. available(s) = available(r) - 1
  BY <1>0, <1>1, <1>2, <1>3, <1>4 DEF available
<1>6. ASSUME NEW k \in Index, k < available(s)
      PROVE  s.aucBuffer[Slot(s, k)] = (first + 1) + k
  <2>1. k + 1 \in Index /\ k + 1 < available(r) /\ Slot(s, k) = Slot(r, k + 1)
    <3>1. k \in 0 .. N - 1 /\ k + 1 < available(r) /\ k + 1 \in 0 .. N - 1
      BY <1>1, <1>4, <1>5, <1>6 DEF Index
    <3>2. Slot(s, k) = Slot(r, k + 1)
      BY <1>0, <1>1, <1>2, <1>3, <3>1 DEF Slot
    <3>3. QED  BY <3>1, <3>2 DEF Index
  <2>2. r.aucBuffer[Slot(r, k + 1)] = first + (k + 1)
    BY <2>1 DEF HoldsFrom
  <2>3. QED  BY <1>3, <1>6, <2>1, <2>2 DEF Index
<1>7. r.aucBuffer[r.iTail] = first
  <2>1. 0 \in Index /\ Slot(r, 0) = r.iTail
    BY <1>1 DEF Slot, Index
  <2>2. r.aucBuffer[Slot(r, 0)] = first + 0
    BY <2>1 DEF HoldsFrom
  <2>3. QED  BY <2>1, <2>2
<1>8. QED  BY <1>3, <1>5, <1>6, <1>7 DEF HoldsFrom, s

\* An empty ring holds the numbers from any point on; so does a cleared one.
LEMMA EmptyHolds ==
    ASSUME NEW r \in Rings(Nat), available(r) = 0, NEW first \in Nat
    PROVE  HoldsFrom(r, first)
BY NAssumption DEF HoldsFrom, Index

\* clear() empties the ring, whatever it held.
LEMMA Clears ==
    ASSUME NEW r \in Rings(Nat)
    PROVE  clear(r) \in Rings(Nat) /\ available(clear(r)) = 0
<1>1. 0 \in Index
  BY NAssumption DEF Index
<1>2. clear(r) \in Rings(Nat) /\ clear(r).iHead = 0 /\ clear(r).iTail = 0
  BY <1>1 DEF clear, Rings
<1>3. QED  BY <1>2 DEF available

\* store_char keeps a ring of numbers one.
LEMMA StoreType ==
    ASSUME NEW r \in Rings(Nat), NEW c \in Nat
    PROVE  store_char(r, c) \in Rings(Nat)
<1>1. r.iHead \in Index /\ nextIndex(r.iHead) \in Index
  BY NextIndex DEF Rings
<1>2. StoreSlot(r, c) \in Rings(Nat)
  BY <1>1 DEF StoreSlot, Rings
<1>3. PublishHead(StoreSlot(r, c), nextIndex(r.iHead)) \in Rings(Nat)
  BY <1>1, <1>2 DEF PublishHead, Rings
<1>4. QED  BY <1>3 DEF store_char

\* Moving the tail keeps a ring of numbers one.
LEMMA DropType ==
    ASSUME NEW r \in Rings(Nat)
    PROVE  DropTail(r) \in Rings(Nat)
<1>1. r.iTail \in Index /\ nextIndex(r.iTail) \in Index
  BY NextIndex DEF Rings
<1>2. QED  BY <1>1 DEF DropTail, Rings

\* The ring of the constructor is empty.
LEMMA NewRingType == NewRing \in Rings(Nat) /\ available(NewRing) = 0
<1>1. 0 \in Index
  BY NAssumption DEF Index
<1>2. QED  BY <1>1 DEF NewRing, Rings, available
-----------------------------------------------------------------------------
(* Rings of increasing numbers *)

\* The unread bytes increase, and all are above lo and at most hi.
Increases(r, lo, hi) ==
    /\ \A k \in Index : k < available(r) =>
           lo < r.aucBuffer[Slot(r, k)] /\ r.aucBuffer[Slot(r, k)] <= hi
    /\ \A j, k \in Index : j < k /\ k < available(r) =>
           r.aucBuffer[Slot(r, j)] < r.aucBuffer[Slot(r, k)]

\* store_char of a larger number, whether there is room or not.
LEMMA StoreIncreases ==
    ASSUME NEW r \in Rings(Nat), NEW lo \in Int, NEW hi \in Int, NEW c \in Nat, hi < c, lo <= hi,
           Increases(r, lo, hi)
    PROVE  LET s == store_char(r, c)
           IN  /\ Increases(s, lo, c)
               /\ ~isFull(r) => /\ available(s) = available(r) + 1
                                /\ s.iHead = nextIndex(r.iHead) /\ s.iTail = r.iTail
<1> DEFINE s == store_char(r, c)
<1>1. /\ r.iHead \in Index /\ r.iTail \in Index /\ N \in Nat /\ N >= 2
      /\ r.aucBuffer \in [Index -> Nat]
  BY NAssumption DEF Rings
<1>2. r.iHead \in 0 .. N - 1 /\ r.iTail \in 0 .. N - 1
  BY <1>1 DEF Index
<1>3. CASE isFull(r)
  <2>1. ASSUME NEW k \in Index, k < available(r)
        PROVE  lo < r.aucBuffer[Slot(r, k)] /\ r.aucBuffer[Slot(r, k)] <= c
    <3>1. k \in 0 .. N - 1 /\ Slot(r, k) \in 0 .. N - 1
      BY <1>1, <1>2 DEF Slot, Index
    <3>2. r.aucBuffer[Slot(r, k)] \in Nat
      BY <1>1, <3>1 DEF Index
    <3> QED
      BY <2>1, <3>2 DEF Increases
  <2>2. s = r
    BY <1>3 DEF store_char
  <2> QED
    BY <1>3, <2>1, <2>2 DEF Increases
<1>4. CASE ~isFull(r)
  <2>1. /\ s \in Rings(Nat) /\ s.iHead = nextIndex(r.iHead) /\ s.iTail = r.iTail
        /\ s.aucBuffer = [r.aucBuffer EXCEPT ![r.iHead] = c]
    <3>1. nextIndex(r.iHead) \in Index
      BY <1>1, NextIndex
    <3>2. s = [r EXCEPT !.aucBuffer = [r.aucBuffer EXCEPT ![r.iHead] = c],
                        !.iHead = nextIndex(r.iHead)]
      BY <1>4 DEF store_char, StoreSlot, PublishHead, Rings
    <3> QED
      BY <1>1, <3>1, <3>2 DEF Rings
  <2> HIDE DEF s
  <2>2. nextIndex(r.iHead) = IF r.iHead + 1 = N THEN 0 ELSE r.iHead + 1
    BY <1>1, NextIndex
  <2>3. available(r) \in 0 .. N - 1 /\ available(r) # N - 1
    BY <1>4, Counts
  <2>4. available(s) = available(r) + 1
    BY <1>1, <1>2, <2>1, <2>2, <2>3 DEF available
  <2>5. ASSUME NEW k \in Index, k < available(r)
        PROVE  Slot(s, k) = Slot(r, k) /\ s.aucBuffer[Slot(s, k)] = r.aucBuffer[Slot(r, k)]
               /\ r.aucBuffer[Slot(r, k)] \in Nat
    <3>1. k \in 0 .. N - 1 /\ Slot(s, k) = Slot(r, k)
      BY <2>1 DEF Slot, Index
    <3>2. Slot(r, k) \in 0 .. N - 1 /\ Slot(r, k) # r.iHead
      BY <1>1, <1>2, <2>3, <2>5, <3>1 DEF Slot, available
    <3> QED
      BY <1>1, <2>1, <3>1, <3>2 DEF Index
  <2>6. Slot(s, available(r)) = r.iHead /\ s.aucBuffer[Slot(s, available(r))] = c
    <3>1. Slot(s, available(r)) = r.iHead
      BY <1>1, <1>2, <2>1, <2>3 DEF Slot, available
    <3> QED
      BY <1>1, <2>1, <3>1
  <2>7. ASSUME NEW k \in Index, k < available(s)
        PROVE  lo < s.aucBuffer[Slot(s, k)] /\ s.aucBuffer[Slot(s, k)] <= c
    <3>1. CASE k < available(r)
      BY <2>5, <3>1 DEF Increases
    <3>2. CASE k = available(r)
      BY <2>6, <3>2
    <3> QED
      BY <2>3, <2>4, <2>7, <3>1, <3>2 DEF Index
  <2>8. ASSUME NEW j \in Index, NEW k \in Index, j < k, k < available(s)
        PROVE  s.aucBuffer[Slot(s, j)] < s.aucBuffer[Slot(s, k)]
    <3>1. j < available(r)
      BY <2>3, <2>4, <2>8 DEF Index
    <3>2. CASE k < available(r)
      BY <2>5, <2>8, <3>1, <3>2 DEF Increases
    <3>3. CASE k = available(r)
      BY <2>5, <2>6, <3>1, <3>3 DEF Increases
    <3> QED
      BY <2>3, <2>4, <2>8, <3>2, <3>3 DEF Index
  <2> QED
    BY <2>1, <2>4, <2>7, <2>8 DEF Increases, s
<1> QED
  BY <1>3, <1>4

\* Moving the tail raises the lower limit to the byte it leaves behind.
LEMMA DropIncreases ==
    ASSUME NEW r \in Rings(Nat), NEW lo \in Int, NEW hi \in Int, available(r) > 0,
           Increases(r, lo, hi)
    PROVE  LET s == DropTail(r)
           IN  /\ s \in Rings(Nat) /\ s.iHead = r.iHead /\ s.iTail = nextIndex(r.iTail)
               /\ available(s) = available(r) - 1
               /\ lo < r.aucBuffer[r.iTail] /\ r.aucBuffer[r.iTail] <= hi
               /\ r.aucBuffer[r.iTail] \in Nat
               /\ Increases(s, r.aucBuffer[r.iTail], hi)
<1> DEFINE s == DropTail(r)
<1>1. /\ r.iHead \in Index /\ r.iTail \in Index /\ N \in Nat /\ N >= 2
      /\ r.aucBuffer \in [Index -> Nat]
  BY NAssumption DEF Rings
<1>2. r.iHead \in 0 .. N - 1 /\ r.iTail \in 0 .. N - 1
  BY <1>1 DEF Index
<1>3. nextIndex(r.iTail) \in Index
      /\ nextIndex(r.iTail) = IF r.iTail + 1 = N THEN 0 ELSE r.iTail + 1
  BY <1>1, NextIndex
<1>4. /\ s \in Rings(Nat) /\ s.iTail = nextIndex(r.iTail) /\ s.iHead = r.iHead
      /\ s.aucBuffer = r.aucBuffer
  BY <1>1, <1>3 DEF DropTail, Rings
<1> HIDE DEF s
<1>5. available(r) \in 0 .. N - 1 /\ 0 \in Index /\ Slot(r, 0) = r.iTail
  BY <1>1, Counts DEF Slot, Index
<1>6. available(s) = available(r) - 1
  BY <1>1, <1>2, <1>3, <1>4, <1>5 DEF available
<1>7. ASSUME NEW k \in Index, k < available(s)
      PROVE  k + 1 \in Index /\ k + 1 < available(r) /\ Slot(s, k) = Slot(r, k + 1)
  <2>1. k \in 0 .. N - 1 /\ k + 1 < available(r) /\ k + 1 \in 0 .. N - 1
    BY <1>1, <1>5, <1>6, <1>7 DEF Index
  <2>2. Slot(s, k) = Slot(r, k + 1)
    BY <1>1, <1>2, <1>3, <1>4, <2>1 DEF Slot
  <2> QED
    BY <2>1, <2>2 DEF Index
<1>8. lo < r.aucBuffer[r.iTail] /\ r.aucBuffer[r.iTail] <= hi /\ r.aucBuffer[r.iTail] \in Nat
  BY <1>1, <1>5 DEF Increases
<1>9. ASSUME NEW k \in Index, k < available(s)
      PROVE  r.aucBuffer[r.iTail] < s.aucBuffer[Slot(s, k)] /\ s.aucBuffer[Slot(s, k)] <= hi
  <2>1. 0 < k + 1 /\ k + 1 \in Index /\ k + 1 < available(r)
    BY <1>7, <1>9 DEF Index
  <2> QED
    BY <1>4, <1>5, <1>7, <1>9, <2>1 DEF Increases
<1>10. ASSUME NEW j \in Index, NEW k \in Index, j < k, k < available(s)
       PROVE  s.aucBuffer[Slot(s, j)] < s.aucBuffer[Slot(s, k)]
  <2>1. j < available(s) /\ j + 1 < k + 1
    BY <1>5, <1>6, <1>10 DEF Index
  <2> QED
    BY <1>4, <1>7, <1>10, <2>1 DEF Increases
<1> QED
  BY <1>4, <1>6, <1>8, <1>9, <1>10 DEF Increases, s

\* store_char leaves the oldest byte where it is.
LEMMA StoreKeepsTail ==
    ASSUME NEW r \in Rings(Nat), NEW c \in Nat, available(r) > 0
    PROVE  LET s == store_char(r, c)
           IN  /\ s \in Rings(Nat) /\ available(s) > 0 /\ s.iTail = r.iTail
               /\ s.aucBuffer[r.iTail] = r.aucBuffer[r.iTail]
<1>1. /\ r.iHead \in Index /\ r.iTail \in Index /\ nextIndex(r.iHead) \in Index
      /\ r.aucBuffer \in [Index -> Nat] /\ r.iHead # r.iTail
  BY Counts, NextIndex DEF Rings, isEmpty
<1>2. CASE isFull(r)
  BY <1>2 DEF store_char
<1>3. CASE ~isFull(r)
  <2>1. store_char(r, c) = [r EXCEPT !.aucBuffer = [r.aucBuffer EXCEPT ![r.iHead] = c],
                                     !.iHead = nextIndex(r.iHead)]
    BY <1>3 DEF store_char, StoreSlot, PublishHead, Rings
  <2>2. store_char(r, c) \in Rings(Nat) /\ ~isEmpty(store_char(r, c))
    BY <1>1, <1>3, <2>1 DEF Rings, isEmpty, isFull
  <2>3. available(store_char(r, c)) > 0
    BY <2>2, Counts DEF Rings
  <2>4. /\ store_char(r, c).iTail = r.iTail
        /\ store_char(r, c).aucBuffer[r.iTail] = r.aucBuffer[r.iTail]
    BY <1>1, <2>1 DEF Rings
  <2> QED
    BY <2>2, <2>3, <2>4
<1> QED
  BY <1>2, <1>3

\* A ring without bytes increases between any limits.
LEMMA EmptyIncreases ==
    ASSUME NEW r \in Rings(Nat), available(r) = 0, NEW lo, NEW hi
    PROVE  Increases(r, lo, hi)
  BY NAssumption DEF Increases, Index

\* The branch of availableForStore() tells on which side of the tail the head is.
LEMMA WrappedSpace ==
    ASSUME NEW r \in Rings(Nat)
    PROVE  /\ isWrapped(r) => r.iTail = r.iHead + availableForStore(r) + 1
           /\ ~isWrapped(r) => r.iHead = r.iTail + N - 1 - availableForStore(r)
           /\ r.iHead \in 0 .. N - 1 /\ r.iTail \in 0 .. N - 1
           /\ availableForStore(r) \in 0 .. N - 1
<1>1. r.iHead \in 0 .. N - 1 /\ r.iTail \in 0 .. N - 1 /\ N \in Nat /\ N >= 2
  BY NAssumption DEF Rings, Index
<1> QED
  BY <1>1 DEF isWrapped, availableForStore, SpaceSeen

\* store_char takes one slot of a ring that is not full; moving the tail frees one.
LEMMA StoreSpace ==
    ASSUME NEW r \in Rings(Nat), NEW c \in Nat, ~isFull(r)
    PROVE  LET s == store_char(r, c)
           IN  /\ s \in Rings(Nat) /\ s.iTail = r.iTail
               /\ s.iHead = IF r.iHead + 1 = N THEN 0 ELSE r.iHead + 1
               /\ availableForStore(s) = availableForStore(r) - 1
<1>1. /\ r.iHead \in Index /\ r.iTail \in Index /\ N \in Nat /\ N >= 2
      /\ nextIndex(r.iHead) = IF r.iHead + 1 = N THEN 0 ELSE r.iHead + 1
  BY NAssumption, NextIndex DEF Rings
<1>2. /\ store_char(r, c) \in Rings(Nat)
      /\ store_char(r, c).iHead = nextIndex(r.iHead) /\ store_char(r, c).iTail = r.iTail
  <2>1. store_char(r, c) = PublishHead(StoreSlot(r, c), nextIndex(r.iHead))
    BY DEF store_char
  <2> QED
    BY <2>1, StoreType DEF PublishHead, StoreSlot, Rings
<1>3. availableForStore(store_char(r, c)) = availableForStore(r) - 1
  BY <1>1, <1>2 DEF availableForStore, SpaceSeen, isWrapped, isFull, Index
<1> QED
  BY <1>1, <1>2, <1>3

LEMMA DropSpace ==
    ASSUME NEW r \in Rings(Nat), available(r) > 0
    PROVE  LET s == DropTail(r)
           IN  /\ s \in Rings(Nat) /\ s.iHead = r.iHead /\ s.iTail = nextIndex(r.iTail)
               /\ availableForStore(s) = availableForStore(r) + 1
<1>1. /\ r.iHead \in Index /\ r.iTail \in Index /\ N \in Nat /\ N >= 2
      /\ nextIndex(r.iTail) = IF r.iTail + 1 = N THEN 0 ELSE r.iTail + 1
  BY NAssumption, NextIndex DEF Rings
<1>2. /\ DropTail(r) \in Rings(Nat)
      /\ DropTail(r).iTail = nextIndex(r.iTail) /\ DropTail(r).iHead = r.iHead
  BY DropType DEF DropTail, Rings
<1>3. availableForStore(DropTail(r)) = availableForStore(r) + 1
  BY <1>1, <1>2 DEF availableForStore, SpaceSeen, isWrapped, available, Index
<1> QED
  BY <1>1, <1>2, <1>3

-----------------------------------------------------------------------------
(* The invariant *)

IInv == TypeOK /\ TxInv

Handlers == {"main", "irq"}   \* the contexts that run IrqHandler in Spec

-----------------------------------------------------------------------------
(* Types *)

\* The first byte of a non-empty FIFO and what is left of it.
LEMMA FifoType ==
    ASSUME NEW fifo \in Seq(Received)
    PROVE  /\ fifo # <<>> => fifo[1].byte \in Nat
                             /\ Tail(fifo) \in Seq(Received)
           /\ ClearFrameError(fifo) \in Seq(Received)
<1>1. CASE fifo = <<>>
  BY <1>1 DEF ClearFrameError
<1>2. CASE fifo # <<>>
  <2>1. Len(fifo) \in Nat /\ Len(fifo) >= 1 /\ fifo[1] \in Received
    BY <1>2, EmptySeq, ElementOfSeq, LenProperties
  <2>2. [fifo[1] EXCEPT !.ferr = FALSE] \in Received /\ fifo[1].byte \in Nat
    BY <2>1 DEF Received
  <2>3. [fifo EXCEPT ![1] = [@ EXCEPT !.ferr = FALSE]] \in Seq(Received)
    BY <2>1, <2>2, ExceptSeq
  <2>4. Tail(fifo) \in Seq(Received)
    BY <1>2, HeadTailProperties
  <2>5. QED  BY <1>2, <2>2, <2>3, <2>4 DEF ClearFrameError
<1>3. QED  BY <1>1, <1>2

\* Every step keeps the types.
LEMMA TypeStep ==
    ASSUME IInv, [Next]_vars
    PROVE  TypeOK'
<1> USE DEF IInv, TypeOK
<1>1. CASE WriteCheckDre("main")
  BY <1>1 DEF WriteCheckDre, At, Goto, Runs, Contexts, txRegs, rxHw, flow, life, local
<1>2. CASE WriteCheckAvailable("main")
  BY <1>2 DEF WriteCheckAvailable, At, Goto, Runs, Contexts, txRegs, rxHw, flow, life, local
<1>3. CASE WriteDirect("main")
  BY <1>3 DEF TxInv, WriterAgrees, Pending, WriteDirect, WriteData, Return, At, Goto, Runs,
    Contexts, txRegs, rxHw, flow, life, local
<1>4. CASE WriteRoom("main")
  BY <1>4 DEF WriteRoom, At, Goto, Runs, Contexts, txRegs, rxHw, flow, life, local
<1>5. CASE WritePoll("main")
  BY <1>5 DEF WritePoll, At, Goto, Runs, Contexts, txRegs, rxHw, flow, life, local
<1>6. CASE WriteStore("main")
  <2>1. val["main"] \in Nat
    BY <1>6 DEF TxInv, WriterAgrees, Pending, WriteStore, At
  <2>2. txBuffer.iHead \in Index /\ nextIndex(txBuffer.iHead) \in Index
    BY NextIndex DEF Rings
  <2>3. StoreSlot(txBuffer, val["main"]) \in Rings(Nat)
    BY <2>1, <2>2 DEF StoreSlot, Rings
  <2>4. QED
    BY <1>6, <2>2, <2>3
       DEF WriteStore, At, Goto, Runs, Contexts, txRegs, rxHw, flow, life, local
<1>7. CASE WritePublish("main")
  BY <1>7 DEF WritePublish, PublishHead, Rings, At, Goto, Runs, Contexts, txRegs, rxHw, flow,
    life, local
<1>8. CASE WriteEnable("main")
  BY <1>8 DEF WriteEnable, Return, At, Goto, Runs, Contexts, txRegs, rxHw, flow, life, local
<1>9. ASSUME NEW c \in Handlers, HandleFrameError(c)
      PROVE  TypeOK'
  BY <1>9, FifoType DEF HandleFrameError, Handlers, At, Goto, Runs, Contexts, txRegs, rxHw,
    flow, life, local, RXC
<1>10. ASSUME NEW c \in Handlers, HandleReceive(c)
      PROVE  TypeOK'
  BY <1>10, FifoType, StoreType DEF HandleReceive, Handlers, At, Goto, Runs, Contexts, txRegs,
    rxHw, flow, life, local, RXC
<1>11. ASSUME NEW c \in Handlers, HandleTransmit(c)
      PROVE  TypeOK'
  <2>1. txBuffer.aucBuffer[txBuffer.iTail] \in Nat
    BY DEF Rings
  <2>2. QED
    BY <1>11, <2>1 DEF HandleTransmit, Handlers, At, Goto, Runs, Contexts, txRegs, rxHw,
      flow, life, local
<1>12. ASSUME NEW c \in Handlers, HandleTail(c)
      PROVE  TypeOK'
  BY <1>12, DropType DEF HandleTail, Handlers, At, Goto, Runs, Contexts, txRegs, rxHw, flow,
    life, local
<1>13. ASSUME NEW c \in Handlers, HandleData(c)
      PROVE  TypeOK'
  BY <1>13 DEF HandleData, Handlers, At, Goto, Runs, Contexts, txRegs, rxHw, flow, life,
    local, WriteData
<1>14. ASSUME NEW c \in Handlers, HandleDisable(c)
      PROVE  TypeOK'
  BY <1>14 DEF HandleDisable, Handlers, At, Goto, Runs, Contexts, txRegs, rxHw, flow, life,
    local
<1>15. ASSUME NEW c \in Handlers, HandleError(c)
      PROVE  TypeOK'
  BY <1>15 DEF HandleError, Handlers, At, Goto, Runs, Contexts, txRegs, rxHw, flow, life, local
<1>16. CASE IrqEnter
  BY <1>16 DEF IrqEnter, At, Goto, Runs, Contexts, txRegs, rxHw, flow, life, local
<1>17. CASE ReadLoad
  <2>1. peek(rxBuffer) \in Int
    BY DEF peek, Rings
  <2>2. QED
    BY <1>17, <2>1 DEF ReadLoad, At, Goto, Runs, Contexts, txRegs, rxHw, flow, life, local
<1>18. CASE ReadTail
  BY <1>18, DropType DEF ReadTail, At, Goto, Runs, Contexts, txRegs, rxHw, flow, life, local
<1>19. CASE ReadCompare
  BY <1>19 DEF ReadCompare, isWrapped, At, Goto, Runs, Contexts, txRegs, rxHw, flow, life, local
<1>20. CASE ReadSpace
  BY <1>20 DEF ReadSpace, At, Goto, Runs, Contexts, txRegs, rxHw, flow, life, local
<1>21. CASE ReadAssert
  BY <1>21 DEF ReadAssert, At, Goto, Runs, Contexts, txRegs, rxHw, flow, life, local
<1>22. CASE FlushWait
  BY <1>22 DEF FlushWait, At, Goto, Runs, Contexts, txRegs, rxHw, flow, life, local
<1>23. CASE FlushCheckDre
  BY <1>23 DEF FlushCheckDre, At, Goto, Runs, Contexts, txRegs, rxHw, flow, life, local
<1>24. CASE FlushComplete
  BY <1>24 DEF FlushComplete, At, Goto, Runs, Contexts, txRegs, rxHw, flow, life, local
<1>25. CASE RoomCompare
  BY <1>25 DEF RoomCompare, isWrapped, At, Goto, Runs, Contexts, txRegs, rxHw, flow, life, local
<1>26. CASE RoomSpace
  <2>1. txBuffer.iHead \in Int /\ txBuffer.iTail \in Int
    BY NAssumption DEF Rings, Index
  <2>2. SpaceSeen(txBuffer, wrapped) \in Int
    BY <2>1, NAssumption DEF SpaceSeen
  <2>3. QED
    BY <1>26, <2>2 DEF RoomSpace, At, Goto, Runs, Contexts, txRegs, rxHw, flow, life, local
<1>27. CASE CallWrite
  BY <1>27 DEF CallWrite, At, Goto, Runs, Contexts, txRegs, rxHw, flow, life, local
<1>28. CASE CallRead \/ CallFlush \/ CallAvailableForWrite
  BY <1>28 DEF CallRead, CallFlush, CallAvailableForWrite, Call, At, Goto, Runs, Contexts,
    txRegs, rxHw, flow, life, local
<1>29. CASE Begin
  <2>1. InTransmitter \in Nat
    BY DEF InTransmitter
  <2>2. gone' \in Nat /\ slack' \in Nat /\ begins' \in Nat
    BY <1>29, <2>1 DEF Begin, ResetUART
  <2>3. rts' \in BOOLEAN /\ enabled' \in BOOLEAN
    BY <1>29 DEF Begin
  <2>4. QED  BY <1>29, <2>2, <2>3, EmptySeq DEF Begin, ResetUART, NoByte, local
<1>30. CASE End
  <2>1. InTransmitter \in Nat /\ available(txBuffer) \in Nat
    BY NAssumption, Counts DEF InTransmitter
  <2>2. gone' \in Nat
    BY <1>30, <2>1 DEF End, ResetUART
  <2>3. txBuffer' \in Rings(Nat) /\ rxBuffer' \in Rings(Nat)
    BY <1>30, Clears DEF End
  <2>4. QED  BY <1>30, <2>2, <2>3, EmptySeq DEF End, ResetUART, NoByte, flow, local
<1>31. CASE Shift
  <2>1. txc' \in BOOLEAN
    BY <1>31 DEF Shift
  <2>2. gone' \in Nat /\ dataReg' \in Nat /\ shiftReg' \in Nat
    BY <1>31 DEF Shift, NoByte
  <2>3. QED  BY <1>31, <2>1, <2>2 DEF Shift, rxHw, flow, life, local
<1>32. CASE Arrive
  <2>1. PICK ferr \in BOOLEAN :
            \/ /\ rxFifo' = Append(rxFifo, [byte |-> nRx + 1, ferr |-> ferr])
               /\ error' = (error \/ ferr)
            \/ error' = TRUE /\ rxFifo' = rxFifo
    BY <1>32 DEF Arrive
  <2>2. error' \in BOOLEAN
    BY <2>1
  <2>3. [byte |-> nRx + 1, ferr |-> ferr] \in Received
    BY DEF Received
  <2>4. rxFifo' \in Seq(Received)
    <3>1. Append(rxFifo, [byte |-> nRx + 1, ferr |-> ferr]) \in Seq(Received)
      BY <2>3, AppendProperties
    <3>2. QED  BY <2>1, <3>1
  <2>5. slack' \in Nat /\ nRx' \in Nat
    BY <1>32 DEF Arrive
  <2>6. QED  BY <1>32, <2>2, <2>4, <2>5 DEF Arrive, txRegs, life, local
<1>33. CASE UNCHANGED vars
  BY <1>33 DEF vars, At, Goto, Runs, Contexts, txRegs, rxHw, flow, life, local
<1>34. QED
  BY <1>1, <1>2, <1>3, <1>4, <1>5, <1>6, <1>7, <1>8, <1>9, <1>10, <1>11, <1>12, <1>13, <1>14,
    <1>15, <1>16, <1>17, <1>18, <1>19, <1>20, <1>21, <1>22, <1>23, <1>24, <1>25, <1>26, <1>27,
    <1>28, <1>29, <1>30, <1>31, <1>32, <1>33 DEF Next, MainStep, MainCall, IrqStep, WriteStep,
     HandlerStep, ReadStep, FlushStep, Handlers

-----------------------------------------------------------------------------
(* The transmit path *)

\* Every step of the thread, of IrqHandler and of the USART keeps the transmit
\* invariant: one case for each action.
LEMMA TxStep ==
    ASSUME IInv, [Next]_vars
    PROVE  TxInv'
<1> USE DEF IInv, TypeOK, TxInv, Preemption, HandlerAgrees, WriterAgrees, NothingLeft, NoneLost,
            TxInOrder, Held, Pending, HandlerSteps, Contexts, Handlers, At, Goto, Runs,
            txRegs, life, local
<1>1. CASE WriteCheckDre("main")
  <2>1. Out' = Out
    BY <1>1 DEF WriteCheckDre, Out, InTransmitter
  <2>2. QED  BY <1>1, <2>1, Counts DEF WriteCheckDre
<1>2. CASE WriteCheckAvailable("main")
  <2>1. Out' = Out
    BY <1>2 DEF WriteCheckAvailable, Out, InTransmitter
  <2>2. QED  BY <1>2, <2>1, Counts DEF WriteCheckAvailable
<1>3. CASE WriteRoom("main")
  <2>1. Out' = Out
    BY <1>3 DEF WriteRoom, Out, InTransmitter
  <2>2. QED  BY <1>3, <2>1, Counts DEF WriteRoom
<1>4. CASE WritePoll("main")
  <2>1. Out' = Out
    BY <1>4 DEF WritePoll, Out, InTransmitter
  <2>2. QED  BY <1>4, <2>1, Counts DEF WritePoll
<1>5. CASE WriteEnable("main")
  <2>1. Out' = Out
    BY <1>5 DEF WriteEnable, Return, Out, InTransmitter
  <2>2. QED  BY <1>5, <2>1, Counts DEF WriteEnable, Return
<1>6. ASSUME NEW c \in Handlers, HandleFrameError(c)
      PROVE  TxInv'
  <2>1. Out' = Out
    BY <1>6 DEF HandleFrameError, Out, InTransmitter
  <2>2. QED  BY <1>6, <2>1, Counts DEF HandleFrameError
<1>7. ASSUME NEW c \in Handlers, HandleReceive(c)
      PROVE  TxInv'
  <2>1. Out' = Out
    BY <1>7 DEF HandleReceive, Out, InTransmitter
  <2>2. QED  BY <1>7, <2>1, Counts DEF HandleReceive
<1>8. ASSUME NEW c \in Handlers, HandleDisable(c)
      PROVE  TxInv'
  <2>1. Out' = Out
    BY <1>8 DEF HandleDisable, Out, InTransmitter
  <2>2. QED  BY <1>8, <2>1, Counts DEF HandleDisable
<1>9. ASSUME NEW c \in Handlers, HandleError(c)
      PROVE  TxInv'
  <2>1. Out' = Out
    BY <1>9 DEF HandleError, Out, InTransmitter
  <2>2. QED  BY <1>9, <2>1, Counts DEF HandleError
<1>10. CASE IrqEnter
  <2>1. Out' = Out
    BY <1>10 DEF IrqEnter, Out, InTransmitter
  <2>2. QED  BY <1>10, <2>1, Counts DEF IrqEnter
<1>11. CASE ReadLoad
  <2>1. Out' = Out
    BY <1>11 DEF ReadLoad, Out, InTransmitter
  <2>2. QED  BY <1>11, <2>1, Counts DEF ReadLoad
<1>12. CASE ReadTail
  <2>1. Out' = Out
    BY <1>12 DEF ReadTail, Out, InTransmitter
  <2>2. QED  BY <1>12, <2>1, Counts DEF ReadTail
<1>13. CASE ReadCompare
  <2>1. Out' = Out
    BY <1>13 DEF ReadCompare, Out, InTransmitter
  <2>2. QED  BY <1>13, <2>1, Counts DEF ReadCompare
<1>14. CASE ReadSpace
  <2>1. Out' = Out
    BY <1>14 DEF ReadSpace, Out, InTransmitter
  <2>2. QED  BY <1>14, <2>1, Counts DEF ReadSpace
<1>15. CASE ReadAssert
  <2>1. Out' = Out
    BY <1>15 DEF ReadAssert, Out, InTransmitter
  <2>2. QED  BY <1>15, <2>1, Counts DEF ReadAssert
<1>16. CASE FlushWait
  <2>1. Out' = Out
    BY <1>16 DEF FlushWait, Out, InTransmitter
  <2>2. QED  BY <1>16, <2>1, Counts DEF FlushWait
<1>17. CASE FlushCheckDre
  <2>1. Out' = Out
    BY <1>17 DEF FlushCheckDre, Out, InTransmitter
  <2>2. QED  BY <1>17, <2>1, Counts DEF FlushCheckDre
<1>18. CASE FlushComplete
  <2>1. Out' = Out
    BY <1>18 DEF FlushComplete, Out, InTransmitter
  <2>2. QED  BY <1>18, <2>1, Counts DEF FlushComplete
<1>19. CASE RoomCompare
  <2>1. Out' = Out
    BY <1>19 DEF RoomCompare, Out, InTransmitter
  <2>2. QED  BY <1>19, <2>1, Counts DEF RoomCompare
<1>20. CASE RoomSpace
  <2>1. Out' = Out
    BY <1>20 DEF RoomSpace, Out, InTransmitter
  <2>2. QED  BY <1>20, <2>1, Counts DEF RoomSpace
<1>21. ASSUME NEW entry \in {"r_load", "f_wait", "a_compare"}, Call(entry)
       PROVE  TxInv'
  <2>1. Out' = Out
    BY <1>21 DEF Call, Out, InTransmitter
  <2>2. QED  BY <1>21, <2>1, Counts DEF Call
<1>22. CASE Arrive
  <2>1. Out' = Out
    BY <1>22 DEF Arrive, Out, InTransmitter
  <2>2. QED  BY <1>22, <2>1, Counts DEF Arrive
<1>23. CASE UNCHANGED vars
  <2>1. Out' = Out
    BY <1>23 DEF vars, Out, InTransmitter
  <2>2. QED  BY <1>23, <2>1, Counts DEF vars
<1>24. CASE CallWrite
  <2>1. Out' = Out /\ Out \in Nat /\ Held = 0
    BY <1>24 DEF CallWrite, Out, InTransmitter
  <2>2. available(txBuffer) \in Nat
    BY Counts, NAssumption
  <2>3. ~Pending /\ Pending' /\ Held' = 0 /\ txBuffer' = txBuffer /\ nWritten' = nWritten + 1
    BY <1>24 DEF CallWrite
  <2>4. nWritten' = Out + available(txBuffer) + 1
    BY <2>1, <2>2, <2>3
  <2>5. NoneLost' /\ TxInOrder'
    BY <1>24, <2>1, <2>2, <2>3, <2>4 DEF CallWrite
  <2>6. HandlerAgrees' /\ WriterAgrees' /\ Preemption'
    BY <1>24, <2>1 DEF CallWrite
  <2>7. QED  BY <2>5, <2>6
<1>25. CASE WriteDirect("main")
  <2>0. Out \in Nat
    BY DEF Out, InTransmitter
  <2>1. /\ dataReg = NoByte /\ dataReg' = nWritten /\ txBuffer' = txBuffer
        /\ available(txBuffer) = 0 /\ Held = 0 /\ nWritten = Out + 1
    BY <1>25, <2>0 DEF WriteDirect, WriteData, DRE
  <2>2. Out \in Nat /\ Out' = Out + 1
    BY <1>25, <2>1 DEF WriteDirect, WriteData, Out, InTransmitter, NoByte
  <2>3. TxInOrder'
    BY <1>25, <2>1, <2>2 DEF WriteDirect, WriteData, Out, InTransmitter, NoByte
  <2>4. HoldsFrom(txBuffer, Out' + 1)
    BY <2>1, <2>2, EmptyHolds
  <2>5. NoneLost'
    BY <1>25, <2>1, <2>2, <2>4 DEF WriteDirect, WriteData, Return, NoByte
  <2>6. HandlerAgrees' /\ WriterAgrees' /\ Preemption'
    BY <1>25, <2>1 DEF WriteDirect, WriteData, Return
  <2>7. QED  BY <2>3, <2>5, <2>6
<1>26. CASE WriteStore("main")
  <2>1. Out' = Out /\ Out \in Nat /\ Held \in Nat
    BY <1>26 DEF WriteStore, Out, InTransmitter
  <2>2. /\ txBuffer' = StoreSlot(txBuffer, val["main"]) /\ ~isFull(txBuffer)
        /\ val["main"] = nWritten
    BY <1>26 DEF WriteStore
  <2>3. /\ txBuffer' \in Rings(Nat) /\ available(txBuffer') = available(txBuffer)
        /\ txBuffer'.iHead = txBuffer.iHead
        /\ HoldsFrom(txBuffer', Out + Held + 1)
        /\ txBuffer'.aucBuffer[txBuffer'.iHead] = val["main"]
    BY <2>1, <2>2, StoreKeeps
  <2>4. ~isFull(txBuffer')
    BY <2>2, <2>3, Counts
  <2>5. QED  BY <1>26, <2>1, <2>2, <2>3, <2>4 DEF WriteStore
<1>27. CASE WritePublish("main")
  <2>1. Out' = Out /\ Out \in Nat /\ Held \in Nat
    BY <1>27 DEF WritePublish, Out, InTransmitter
  <2>2. /\ txBuffer' = PublishHead(txBuffer, nextIndex(txBuffer.iHead)) /\ ~isFull(txBuffer)
        /\ txBuffer.aucBuffer[txBuffer.iHead] = nWritten
        /\ nWritten = Out + Held + available(txBuffer) + 1
    BY <1>27 DEF WritePublish
  <2>3. txBuffer.aucBuffer[txBuffer.iHead] = (Out + Held + 1) + available(txBuffer)
    BY <2>1, <2>2, Counts, NAssumption
  <2>4. /\ available(txBuffer') = available(txBuffer) + 1
        /\ HoldsFrom(txBuffer', Out + Held + 1)
    BY <2>1, <2>2, <2>3, PublishAppends
  <2>5. /\ available(txBuffer) \in Nat /\ Held' = Held /\ ~Pending'
        /\ nWritten' = nWritten
    BY <1>27, Counts, NAssumption DEF WritePublish
  <2>6. nWritten' = Out' + Held' + available(txBuffer')
    <3>1. ASSUME NEW h \in Nat, nWritten = Out + h + available(txBuffer) + 1
          PROVE  nWritten = Out + h + available(txBuffer')
      BY <2>1, <2>4, <2>5, <3>1
    <3>2. QED  BY <2>1, <2>2, <2>5, <3>1
  <2>7. HoldsFrom(txBuffer', Out' + Held' + 1)
    BY <2>1, <2>4, <2>5
  <2>8. NoneLost' /\ TxInOrder'
    BY <1>27, <2>5, <2>6, <2>7 DEF WritePublish
  <2>9. HandlerAgrees' /\ WriterAgrees' /\ Preemption'
    BY <1>27, <2>1 DEF WritePublish
  <2>10. QED  BY <2>8, <2>9
<1>28. ASSUME NEW c \in Handlers, HandleTransmit(c)
      PROVE  TxInv'
  <2>1. Out' = Out /\ Out \in Nat /\ Held = 0 /\ txBuffer' = txBuffer
    BY <1>28 DEF HandleTransmit, Out, InTransmitter
  <2>2. CASE available(txBuffer) > 0
    <3>1. txBuffer.aucBuffer[txBuffer.iTail] = Out + 1
      BY <2>1, <2>2, DropRemoves
    <3>2. ~isEmpty(txBuffer)
      BY <2>2, Counts
    <3>3. QED  BY <1>28, <2>1, <2>2, <3>1, <3>2, Counts DEF HandleTransmit
  <2>3. CASE available(txBuffer) = 0
    BY <1>28, <2>1, <2>3, Counts DEF HandleTransmit
  <2>4. QED  BY <2>2, <2>3, Counts
<1>29. ASSUME NEW c \in Handlers, HandleTail(c)
      PROVE  TxInv'
  <2>1. Out' = Out /\ Out \in Nat /\ Held = 0 /\ Held' = 1
    BY <1>29 DEF HandleTail, Out, InTransmitter
  <2>2. available(txBuffer) > 0 /\ txBuffer' = DropTail(txBuffer)
    BY <1>29 DEF HandleTail
  <2>3. /\ txBuffer' \in Rings(Nat) /\ available(txBuffer') = available(txBuffer) - 1
        /\ txBuffer'.iHead = txBuffer.iHead /\ txBuffer'.aucBuffer = txBuffer.aucBuffer
        /\ HoldsFrom(txBuffer', (Out + 1) + 1)
    BY <2>1, <2>2, DropRemoves
  <2>4. ~isFull(txBuffer')
    BY <2>3, Counts, NAssumption
  <2>5. NoneLost' /\ TxInOrder'
    BY <1>29, <2>1, <2>3, Counts DEF HandleTail
  <2>6. HandlerAgrees'
    BY <1>29, <2>1, <2>2, <2>3 DEF HandleTail
  <2>7. WriterAgrees' /\ Preemption'
    BY <1>29, <2>2, <2>3, <2>4 DEF HandleTail
  <2>8. QED  BY <2>5, <2>6, <2>7
<1>30. ASSUME NEW c \in Handlers, HandleData(c)
      PROVE  TxInv'
  <2>1. /\ dataReg = NoByte /\ dataReg' = popped[c] /\ popped[c] = Out + 1
        /\ txBuffer' = txBuffer /\ Held = 1 /\ Held' = 0
    BY <1>30 DEF HandleData, WriteData, DRE
  <2>2. Out \in Nat /\ Out' = Out + 1
    BY <1>30, <2>1 DEF HandleData, WriteData, Out, InTransmitter, NoByte
  <2>3. TxInOrder'
    BY <1>30, <2>1, <2>2 DEF HandleData, WriteData, Out, InTransmitter, NoByte
  <2>4. NoneLost'
    BY <1>30, <2>1, <2>2, Counts DEF HandleData, WriteData, NoByte
  <2>5. HandlerAgrees' /\ WriterAgrees' /\ Preemption'
    BY <1>30, <2>1 DEF HandleData, WriteData
  <2>6. QED  BY <2>3, <2>4, <2>5
<1>31. CASE Shift
  <2>1. Out' = Out /\ TxInOrder' /\ (txc' => dataReg' = NoByte /\ shiftReg' = NoByte)
    BY <1>31 DEF Shift, Out, InTransmitter, NoByte
  <2>2. QED  BY <1>31, <2>1 DEF Shift
<1>32. CASE Begin
  <2>1. Out' = Out
    BY <1>32 DEF Begin, ResetUART, Out, InTransmitter, NoByte
  <2>2. QED  BY <1>32, <2>1 DEF Begin, ResetUART
<1>33. CASE End
  <2>1. Out \in Nat /\ available(txBuffer) \in Nat /\ Held = 0
    <3>1. txBuffer \in Rings(Nat) /\ Held = 0
      BY <1>33 DEF End
    <3>2. available(txBuffer) \in Nat
      BY <3>1, Counts, NAssumption
    <3>3. Out \in Nat
      BY DEF Out, InTransmitter
    <3>4. QED  BY <3>1, <3>2, <3>3
  <2>2. Out' = Out + available(txBuffer)
    BY <1>33, <2>1 DEF End, ResetUART, Out, InTransmitter, NoByte
  <2>3. txBuffer' \in Rings(Nat) /\ available(txBuffer') = 0
    BY <1>33, Clears DEF End
  <2>4. HoldsFrom(txBuffer', Out' + 1)
    BY <2>1, <2>2, <2>3, EmptyHolds
  <2>5. QED  BY <1>33, <2>1, <2>2, <2>3, <2>4 DEF End, ResetUART
<1>34. QED
  BY <1>1, <1>2, <1>3, <1>4, <1>5, <1>6, <1>7, <1>8, <1>9, <1>10, <1>11, <1>12, <1>13, <1>14,
    <1>15, <1>16, <1>17, <1>18, <1>19, <1>20, <1>21, <1>22, <1>23, <1>24, <1>25, <1>26, <1>27,
    <1>28, <1>29, <1>30, <1>31, <1>32, <1>33 DEF Next, MainStep, MainCall, IrqStep, WriteStep,
    HandlerStep,
     ReadStep, FlushStep, CallRead, CallFlush, CallAvailableForWrite, Handlers

\* The initial state satisfies the inductive invariant.
LEMMA InitInv ==
    ASSUME Init
    PROVE  IInv
<1>1. NewRing \in Rings(Nat) /\ available(NewRing) = 0
  BY NewRingType
<1>2. TypeOK
  <2>1. /\ dataReg \in Nat /\ shiftReg \in Nat /\ gone \in Nat /\ nRx \in Nat /\ slack \in Nat
        /\ begins \in Nat /\ nWritten \in Nat /\ lastRead \in Int
    BY UartAssumption DEF Init, NoByte
  <2>2. /\ txc \in BOOLEAN /\ dreIE \in BOOLEAN /\ error \in BOOLEAN /\ rts \in BOOLEAN
        /\ enabled \in BOOLEAN /\ primask \in BOOLEAN /\ wrapped \in BOOLEAN
    BY DEF Init
  <2>3. val \in [Contexts -> Int] /\ popped \in [Contexts -> Nat] /\ nextI \in [Contexts -> Index]
    BY NAssumption DEF Init, NoByte, Index
  <2>4. rxFifo \in Seq(Received) /\ txBuffer \in Rings(Nat) /\ rxBuffer \in Rings(Nat)
    BY <1>1, EmptySeq DEF Init
  <2>5. QED  BY <2>1, <2>2, <2>3, <2>4 DEF Init, TypeOK
<1>3. HoldsFrom(txBuffer, 1)
  BY <1>1, EmptyHolds DEF Init
<1>4. Out = 0 /\ Held = 0 /\ ~Pending
  BY DEF Init, Out, InTransmitter, Held, Pending, HandlerSteps, Contexts
<1>5. NoneLost
  BY <1>1, <1>3, <1>4 DEF Init, NoneLost
<1>6. Preemption /\ HandlerAgrees /\ WriterAgrees /\ TxInOrder
  BY DEF Init, Preemption, HandlerAgrees, WriterAgrees, TxInOrder, Pending, HandlerSteps,
    Contexts
<1>7. QED  BY <1>2, <1>5, <1>6 DEF IInv, TxInv

\* Types and the transmit invariant hold in every reachable state.
LEMMA Invariance == Spec => []IInv
<1>1. Init => IInv
  BY InitInv
<1>2. IInv /\ [Next]_vars => IInv'
  BY TypeStep, TxStep DEF IInv
<1>3. QED  BY <1>1, <1>2, PTL DEF Spec

-----------------------------------------------------------------------------
(* The results *)

\* Every variable of the port keeps its type, whatever write(), read(), flush(),
\* begin(), end(), IrqHandler and the USART do.
THEOREM TypeCorrect == Spec => []TypeOK
<1>1. IInv => TypeOK
  BY DEF IInv
<1>2. QED  BY <1>1, Invariance, PTL

\* No byte handed to write() is lost, repeated or out of its place, and every
\* context's knowledge agrees with the ring when it is preempted.
THEOREM TransmitInvariant == Spec => []TxInv
<1>1. IInv => TxInv
  BY DEF IInv
<1>2. QED  BY <1>1, Invariance, PTL

\* Bytes are shifted out in the order of the write() calls.
THEOREM BytesInOrder == Spec => []TxInOrder
<1>1. IInv => TxInOrder
  BY DEF IInv, TxInv
<1>2. QED  BY <1>1, Invariance, PTL

\* Only the two steps that return from flush() take it back to the sketch.
LEMMA FlushReturnSteps ==
    ASSUME IInv, [Next]_vars, pc["main"] \in {"f_dre", "f_txc"}, pc'["main"] = "idle"
    PROVE  (FlushCheckDre /\ DRE) \/ (FlushComplete /\ txc)
<1> USE DEF IInv, TypeOK, Contexts, At, Goto, Runs
<1>1. ~WriteStep("main") /\ ~HandlerStep("main") /\ ~ReadStep /\ ~RoomCompare /\ ~RoomSpace
  BY DEF WriteStep, WriteCheckDre, WriteCheckAvailable, WriteDirect, WriteRoom, WritePoll,
    WriteStore,
         WritePublish, WriteEnable, HandlerStep, HandleFrameError, HandleReceive, HandleTransmit,
         HandleTail, HandleData, HandleDisable, HandleError, ReadStep, ReadLoad, ReadTail,
         ReadCompare, ReadSpace, ReadAssert, RoomCompare, RoomSpace
<1>2. ~MainCall
  BY DEF MainCall, CallWrite, CallRead, CallFlush, CallAvailableForWrite, Call, Begin, End
<1>3. ~IrqEnter /\ ~IrqStep
  BY DEF IrqEnter, IrqStep, HandlerStep, HandleFrameError, HandleReceive, HandleTransmit,
         HandleTail, HandleData, HandleDisable, HandleError
<1>4. ~Shift /\ ~Arrive /\ ~UNCHANGED vars
  BY DEF Shift, Arrive, vars
<1>5. FlushStep
  BY <1>1, <1>2, <1>3, <1>4 DEF Next, MainStep
<1>6. QED  BY <1>5 DEF FlushStep, FlushWait, FlushCheckDre, FlushComplete

\* When flush() returns, at most the byte in the shift register is still to go.
THEOREM FlushGuarantee == Spec => FlushLeavesOne
<1>1. ASSUME IInv, [Next]_vars, pc["main"] \in {"f_dre", "f_txc"}, pc'["main"] = "idle"
      PROVE  nWritten' - gone' <= 1 /\ dataReg' = NoByte /\ isEmpty(txBuffer')
  <2>1. (FlushCheckDre /\ DRE) \/ (FlushComplete /\ txc)
    BY <1>1, FlushReturnSteps
  <2>2. /\ txBuffer' = txBuffer /\ dataReg' = dataReg /\ gone' = gone /\ nWritten' = nWritten
        /\ pc["irq"] = "idle"
    BY <2>1 DEF FlushCheckDre, FlushComplete, txRegs, At, Runs
  <2>3. dataReg = NoByte
    BY <1>1, <2>1 DEF DRE, IInv, TxInv, NoneLost
  <2>4. available(txBuffer) = 0 /\ Held = 0 /\ ~Pending
    BY <1>1, <2>2 DEF IInv, TxInv, WriterAgrees, NothingLeft, Held, Pending, HandlerSteps
  <2>5. nWritten = gone + InTransmitter
    BY <1>1, <2>4 DEF IInv, TypeOK, TxInv, NoneLost, Out, InTransmitter
  <2>6. nWritten - gone <= 1
    BY <1>1, <2>3, <2>5 DEF IInv, TypeOK, InTransmitter
  <2>7. isEmpty(txBuffer)
    BY <1>1, <2>4, Counts DEF IInv, TypeOK
  <2>8. QED  BY <2>2, <2>3, <2>6, <2>7
<1>2. IInv /\ [Next]_vars =>
        [(pc["main"] \in {"f_dre", "f_txc"} /\ pc'["main"] = "idle")
            => /\ nWritten' - gone' <= 1
               /\ dataReg' = NoByte /\ isEmpty(txBuffer')]_vars
  BY <1>1
<1>3. QED  BY <1>2, Invariance, PTL DEF Spec, FlushLeavesOne

\* Only a begin() takes the port to a state with bytes stranded in the ring.
LEMMA StrandStep ==
    ASSUME IInv, [Next]_vars, Stranded', ~Stranded
    PROVE  begins' # begins
<1> USE DEF IInv, TypeOK, Stranded, Contexts, Handlers, At, Goto, Runs
<1>1. ~WriteEnable("main")
  BY DEF WriteEnable
<1>2. ~WritePublish("main")
  BY DEF WritePublish
<1>3. ~WriteStore("main")
  <2>1. ASSUME WriteStore("main")
        PROVE  available(txBuffer') = available(txBuffer)
    <3>1. ~isFull(txBuffer) /\ val["main"] \in Nat /\ HoldsFrom(txBuffer, Out + Held + 1)
      BY <2>1 DEF WriteStore, TxInv, WriterAgrees, NoneLost, Pending
    <3>2. Out + Held + 1 \in Nat
      BY DEF Out, Held, InTransmitter
    <3>3. QED  BY <2>1, <3>1, <3>2, StoreKeeps DEF WriteStore
  <2>2. QED  BY <2>1 DEF WriteStore
<1>4. ASSUME NEW c \in Handlers, HandleDisable(c)
      PROVE  FALSE
  BY <1>4 DEF HandleDisable, TxInv, HandlerAgrees
<1>5. ASSUME NEW c \in Handlers, HandleTail(c)
      PROVE  FALSE
  BY <1>5 DEF HandleTail, TxInv, HandlerAgrees
<1>6. ~End
  BY Clears DEF End
<1>7. ~WriteCheckDre("main") /\ ~WriteCheckAvailable("main") /\ ~WriteRoom("main")
      /\ ~WritePoll("main") /\ ~WriteDirect("main")
  BY DEF WriteCheckDre, WriteCheckAvailable, WriteRoom, WritePoll, WriteDirect, Return
<1>8. ASSUME NEW c \in Handlers
      PROVE  /\ ~HandleFrameError(c) /\ ~HandleReceive(c) /\ ~HandleTransmit(c)
             /\ ~HandleData(c) /\ ~HandleError(c)
  BY <1>8 DEF HandleFrameError, HandleReceive, HandleTransmit, HandleData, HandleError
<1>9. ~IrqEnter /\ ~ReadStep /\ ~FlushStep /\ ~RoomCompare /\ ~RoomSpace
  BY DEF IrqEnter, ReadStep, ReadLoad, ReadTail, ReadCompare, ReadSpace, ReadAssert,
         FlushStep, FlushWait, FlushCheckDre, FlushComplete, RoomCompare, RoomSpace
<1>10. ~CallWrite /\ ~CallRead /\ ~CallFlush /\ ~CallAvailableForWrite
  BY DEF CallWrite, CallRead, CallFlush, CallAvailableForWrite, Call
<1>11. ~Shift /\ ~Arrive /\ ~UNCHANGED vars
  BY DEF Shift, Arrive, vars
<1>12. Begin
  BY <1>1, <1>2, <1>3, <1>4, <1>5, <1>6, <1>7, <1>8, <1>9, <1>10, <1>11
     DEF Next, MainStep, MainCall, IrqStep, WriteStep, HandlerStep
<1>13. QED  BY <1>12 DEF Begin

\* Bytes are left in the ring with the data-register-empty interrupt off only
\* when begin() is called on a port in use: no interleaving of write() with
\* IrqHandler loses the wake-up.
THEOREM NoLostWakeup == Spec => StrandedOnlyByBegin
<1>1. IInv /\ [Next]_vars => [Stranded' => Stranded \/ begins' # begins]_vars
  BY StrandStep
<1>2. QED  BY <1>1, Invariance, PTL DEF Spec, StrandedOnlyByBegin

-----------------------------------------------------------------------------
(* The receive path *)

\* The calls of read() that work on the receive ring, behind the first load.
Reading == {"r_tail", "r_compare", "r_space", "r_assert"}

\* A step that leaves the receive side alone and takes the thread no further in
\* read().
RxQuiet ==
    /\ UNCHANGED <<rxBuffer, rxFifo, nRx, rts, slack, lastRead, enabled, begins>>
    /\ pc'["main"] \in Reading =>
           pc'["main"] = pc["main"] /\ val'["main"] = val["main"] /\ wrapped' = wrapped

\* Every step is quiet, or one of those that work on the receive side.
LEMMA RxCases ==
    ASSUME IInv, [Next]_vars
    PROVE  \/ RxQuiet
           \/ \E c \in Handlers : HandleFrameError(c) \/ HandleReceive(c)
           \/ ReadStep \/ Begin \/ End \/ Arrive
<1> USE DEF IInv, TypeOK, Handlers, Contexts, At, Goto, Runs, Reading, RxQuiet, rxHw, flow, life,
            local, txRegs
<1>1. ASSUME WriteStep("main")
      PROVE  RxQuiet
  BY <1>1 DEF WriteStep, WriteCheckDre, WriteCheckAvailable, WriteDirect, WriteRoom, WritePoll,
    WriteStore, WritePublish, WriteEnable, Return
<1>2. ASSUME NEW c \in Handlers,
             \/ HandleTransmit(c) \/ HandleTail(c) \/ HandleData(c)
             \/ HandleDisable(c) \/ HandleError(c)
      PROVE  RxQuiet
  BY <1>2 DEF HandleTransmit, HandleTail, HandleData, HandleDisable, HandleError
<1>3. ASSUME IrqEnter \/ Shift \/ UNCHANGED vars
      PROVE  RxQuiet
  BY <1>3 DEF IrqEnter, Shift, vars
<1>4. ASSUME FlushStep \/ RoomCompare \/ RoomSpace
      PROVE  RxQuiet
  BY <1>4 DEF FlushStep, FlushWait, FlushCheckDre, FlushComplete, RoomCompare, RoomSpace
<1>5. ASSUME CallWrite \/ CallRead \/ CallFlush \/ CallAvailableForWrite
      PROVE  RxQuiet
  BY <1>5 DEF CallWrite, CallRead, CallFlush, CallAvailableForWrite, Call
<1> QED
  BY <1>1, <1>2, <1>3, <1>4, <1>5
     DEF Next, MainStep, MainCall, IrqStep, HandlerStep

-----------------------------------------------------------------------------
(* The order of the bytes received *)

\* The bytes of a receive FIFO increase, and all are above lo and at most hi.
FifoIncreases(fifo, lo, hi) ==
    /\ \A k \in 1 .. Len(fifo) : lo < fifo[k].byte /\ fifo[k].byte <= hi
    /\ \A j, k \in 1 .. Len(fifo) : j < k => fifo[j].byte < fifo[k].byte

\* What has arrived, in its order: the bytes read, the ring, the FIFO.
RxOrder ==
    /\ \E h \in Nat : /\ lastRead <= h /\ h <= nRx
                      /\ Increases(rxBuffer, lastRead, h)
                      /\ FifoIncreases(rxFifo, h, nRx)
    /\ pc["main"] = "r_tail" =>
           available(rxBuffer) > 0 /\ val["main"] = rxBuffer.aucBuffer[rxBuffer.iTail]

\* What FIFOs hold.
LEMMA FifoBytes ==
    ASSUME NEW fifo \in Seq(Received)
    PROVE  /\ Len(fifo) \in Nat /\ fifo \in [1 .. Len(fifo) -> Received]
           /\ \A k \in 1 .. Len(fifo) : fifo[k] \in Received /\ fifo[k].byte \in Nat
<1>1. Len(fifo) \in Nat /\ fifo \in [1 .. Len(fifo) -> Received]
  BY LenProperties
<1>2. \A k \in 1 .. Len(fifo) : fifo[k] \in Received
  BY <1>1
<1>3. \A b \in Received : b.byte \in Nat
  BY DEF Received
<1> QED
  BY <1>1, <1>2, <1>3

\* A FIFO without its first byte, with a byte behind it, with a flag cleared.
LEMMA FifoFacts ==
    ASSUME NEW fifo \in Seq(Received), NEW lo \in Nat, NEW hi \in Nat,
           FifoIncreases(fifo, lo, hi)
    PROVE  /\ fifo # <<>> => /\ Len(fifo) \in Nat /\ Len(fifo) >= 1 /\ fifo[1].byte \in Nat
                             /\ lo < fifo[1].byte /\ fifo[1].byte <= hi
                             /\ Tail(fifo) \in Seq(Received) /\ Len(Tail(fifo)) = Len(fifo) - 1
                             /\ FifoIncreases(Tail(fifo), fifo[1].byte, hi)
           /\ ClearFrameError(fifo) \in Seq(Received)
           /\ Len(ClearFrameError(fifo)) = Len(fifo)
           /\ FifoIncreases(ClearFrameError(fifo), lo, hi)
<1>0. Len(fifo) \in Nat /\ \A k \in 1 .. Len(fifo) : fifo[k] \in Received /\ fifo[k].byte \in Nat
  BY FifoBytes
<1>1. ASSUME fifo # <<>>
      PROVE  /\ Len(fifo) >= 1 /\ fifo[1].byte \in Nat
             /\ lo < fifo[1].byte /\ fifo[1].byte <= hi
             /\ Tail(fifo) \in Seq(Received) /\ Len(Tail(fifo)) = Len(fifo) - 1
             /\ FifoIncreases(Tail(fifo), fifo[1].byte, hi)
  <2>1. Len(fifo) >= 1 /\ Tail(fifo) \in Seq(Received) /\ Len(Tail(fifo)) = Len(fifo) - 1
        /\ \A k \in 1 .. Len(fifo) - 1 : Tail(fifo)[k] = fifo[k + 1]
    BY <1>0, <1>1, EmptySeq, HeadTailProperties
  <2>2. FifoIncreases(Tail(fifo), fifo[1].byte, hi)
    BY <1>0, <2>1 DEF FifoIncreases
  <2> QED
    BY <1>0, <2>1, <2>2 DEF FifoIncreases
<1>2. /\ ClearFrameError(fifo) \in Seq(Received)
      /\ Len(ClearFrameError(fifo)) = Len(fifo)
      /\ FifoIncreases(ClearFrameError(fifo), lo, hi)
  <2>1. CASE fifo = <<>>
    BY <2>1, FifoType DEF ClearFrameError
  <2>2. CASE fifo # <<>>
    <3>1. /\ ClearFrameError(fifo) = [fifo EXCEPT ![1] = [fifo[1] EXCEPT !.ferr = FALSE]]
          /\ Len(fifo) >= 1 /\ fifo \in [1 .. Len(fifo) -> Received]
      BY <1>1, <2>2, LenProperties DEF ClearFrameError
    <3>2. [fifo[1] EXCEPT !.ferr = FALSE] \in Received
          /\ [fifo[1] EXCEPT !.ferr = FALSE].byte = fifo[1].byte
      <4>1. fifo[1] \in Received
        BY <1>0, <3>1
      <4> QED
        BY <4>1 DEF Received
    <3>3. ClearFrameError(fifo) \in Seq(Received) /\ Len(ClearFrameError(fifo)) = Len(fifo)
      BY <3>1, <3>2, ExceptSeq
    <3>4. \A k \in 1 .. Len(fifo) : ClearFrameError(fifo)[k].byte = fifo[k].byte
      BY <3>1, <3>2
    <3> QED
      BY <3>3, <3>4 DEF FifoIncreases
  <2> QED
    BY <2>1, <2>2
<1> QED
  BY <1>0, <1>1, <1>2

\* The limits may be widened.
LEMMA FifoWider ==
    ASSUME NEW fifo \in Seq(Received), NEW lo \in Nat, NEW lo2 \in Nat, NEW hi \in Nat,
           NEW hi2 \in Nat, FifoIncreases(fifo, lo, hi), lo2 <= lo, hi <= hi2
    PROVE  FifoIncreases(fifo, lo2, hi2)
<1>1. \A k \in 1 .. Len(fifo) : fifo[k].byte \in Nat
  BY FifoBytes
<1> QED
  BY <1>1 DEF FifoIncreases

LEMMA FifoAppend ==
    ASSUME NEW fifo \in Seq(Received), NEW lo \in Nat, NEW hi \in Nat, NEW ferr \in BOOLEAN,
           FifoIncreases(fifo, lo, hi), lo <= hi
    PROVE  FifoIncreases(Append(fifo, [byte |-> hi + 1, ferr |-> ferr]), lo, hi + 1)
<1> DEFINE b == [byte |-> hi + 1, ferr |-> ferr]
           f == Append(fifo, b)
<1>1. b \in Received /\ b.byte = hi + 1
  BY DEF Received
<1> HIDE DEF b
<1>2. /\ Len(fifo) \in Nat /\ Len(f) = Len(fifo) + 1 /\ f[Len(fifo) + 1] = b
      /\ \A k \in 1 .. Len(fifo) : f[k] = fifo[k]
  BY <1>1, AppendProperties, LenProperties
<1>3. \A k \in 1 .. Len(fifo) : fifo[k].byte \in Nat
  BY FifoBytes
<1> HIDE DEF f
<1>4. FifoIncreases(f, lo, hi + 1)
  <2>1. ASSUME NEW k \in 1 .. Len(f)
        PROVE  lo < f[k].byte /\ f[k].byte <= hi + 1
    BY <1>1, <1>2, <1>3 DEF FifoIncreases
  <2>2. ASSUME NEW j \in 1 .. Len(f), NEW k \in 1 .. Len(f), j < k
        PROVE  f[j].byte < f[k].byte
    <3>1. j \in 1 .. Len(fifo)
      BY <1>2, <2>2
    <3>2. CASE k \in 1 .. Len(fifo)
      BY <1>2, <2>2, <3>1, <3>2 DEF FifoIncreases
    <3>3. CASE k = Len(fifo) + 1
      BY <1>1, <1>2, <1>3, <3>1, <3>3 DEF FifoIncreases
    <3> QED
      BY <1>2, <3>2, <3>3
  <2> QED
    BY <2>1, <2>2 DEF FifoIncreases
<1> QED
  BY <1>4 DEF f, b

\* A FIFO that is still to be filled increases above any byte.
LEMMA FifoEmpty ==
    ASSUME NEW lo, NEW hi
    PROVE  FifoIncreases(<<>>, lo, hi)
  BY EmptySeq DEF FifoIncreases

\* Every step keeps the order of what has arrived.
LEMMA RxOrderStep ==
    ASSUME IInv, RxOrder, [Next]_vars
    PROVE  RxOrder'
<1> USE DEF IInv, TypeOK, Contexts, At, Goto, Runs, rxHw, flow, life, local
<1>0. PICK h \in Nat : /\ lastRead <= h /\ h <= nRx
                       /\ Increases(rxBuffer, lastRead, h)
                       /\ FifoIncreases(rxFifo, h, nRx)
  BY DEF RxOrder
<1>1. CASE RxQuiet
  BY <1>1 DEF RxQuiet, RxOrder, Reading
<1>2. ASSUME NEW c \in Handlers, HandleFrameError(c)
      PROVE  RxOrder'
  <2>1. /\ UNCHANGED <<rxBuffer, nRx, lastRead>>
        /\ pc'["main"] = "r_tail" => pc["main"] = "r_tail" /\ val' = val
    BY <1>2 DEF HandleFrameError, Handlers
  <2>2. FifoIncreases(rxFifo', h, nRx)
    <3>1. CASE rxFifo' = rxFifo
      BY <1>0, <3>1
    <3>2. CASE rxFifo # <<>> /\ rxFifo' = ClearFrameError(Tail(rxFifo))
      <4>1. /\ Tail(rxFifo) \in Seq(Received) /\ rxFifo[1].byte \in Nat /\ h <= rxFifo[1].byte
            /\ FifoIncreases(Tail(rxFifo), rxFifo[1].byte, nRx)
        BY <1>0, <3>2, FifoFacts
      <4>2. FifoIncreases(Tail(rxFifo), h, nRx)
        <5>1. nRx \in Nat /\ nRx <= nRx
          OBVIOUS
        <5> HIDE DEF IInv, TypeOK
        <5> QED
          BY <1>0, <4>1, <5>1, FifoWider
      <4> QED
        BY <1>0, <3>2, <4>1, <4>2, FifoFacts
    <3> QED
      BY <1>2, <3>1, <3>2 DEF HandleFrameError, RXC
  <2> QED
    BY <1>0, <2>1, <2>2 DEF RxOrder
<1>3. ASSUME NEW c \in Handlers, HandleReceive(c)
      PROVE  RxOrder'
  <2>1. UNCHANGED <<nRx, lastRead>>
    BY <1>3 DEF HandleReceive
  <2>2. CASE rxFifo = <<>>
    BY <1>0, <1>3, <2>1, <2>2 DEF HandleReceive, Handlers, RXC, RxOrder
  <2>3. CASE rxFifo # <<>>
    <3>1. /\ rxFifo[1].byte \in Nat /\ h < rxFifo[1].byte /\ rxFifo[1].byte <= nRx
          /\ FifoIncreases(Tail(rxFifo), rxFifo[1].byte, nRx)
      BY <1>0, <2>3, FifoFacts
    <3>2. rxFifo' = Tail(rxFifo) /\ rxBuffer' = store_char(rxBuffer, rxFifo[1].byte)
      BY <1>3, <2>3 DEF HandleReceive, RXC
    <3>3. Increases(rxBuffer', lastRead, rxFifo[1].byte)
      BY <1>0, <3>1, <3>2, StoreIncreases
    <3>4. pc'["main"] = "r_tail" =>
              available(rxBuffer') > 0 /\ val'["main"] = rxBuffer'.aucBuffer[rxBuffer'.iTail]
      <4>1. SUFFICES ASSUME pc'["main"] = "r_tail"
                     PROVE  available(rxBuffer') > 0
                            /\ val'["main"] = rxBuffer'.aucBuffer[rxBuffer'.iTail]
        OBVIOUS
      <4>2. pc["main"] = "r_tail" /\ val' = val
        BY <1>3, <4>1 DEF HandleReceive, Handlers
      <4>3. available(rxBuffer) > 0 /\ val["main"] = rxBuffer.aucBuffer[rxBuffer.iTail]
        BY <4>2 DEF RxOrder
      <4>4. available(rxBuffer') > 0 /\ rxBuffer'.iTail = rxBuffer.iTail
            /\ rxBuffer'.aucBuffer[rxBuffer.iTail] = rxBuffer.aucBuffer[rxBuffer.iTail]
        BY <1>0, <3>1, <3>2, <4>3, StoreKeepsTail, StoreIncreases
      <4> QED
        BY <4>2, <4>3, <4>4
    <3> QED
      BY <1>0, <2>1, <3>1, <3>2, <3>3, <3>4 DEF RxOrder
  <2> QED
    BY <2>2, <2>3
<1>4. CASE ReadLoad
  <2>1. UNCHANGED <<rxBuffer, rxFifo, nRx, lastRead>>
    BY <1>4 DEF ReadLoad
  <2>2. pc'["main"] = "r_tail" =>
            available(rxBuffer) > 0 /\ val'["main"] = rxBuffer.aucBuffer[rxBuffer.iTail]
    BY <1>4, Counts DEF ReadLoad, peek
  <2> QED
    BY <1>0, <2>1, <2>2 DEF RxOrder
<1>5. CASE ReadTail
  <2>1. /\ UNCHANGED <<rxFifo, nRx>> /\ rxBuffer' = DropTail(rxBuffer) /\ pc'["main"] # "r_tail"
        /\ lastRead' = rxBuffer.aucBuffer[rxBuffer.iTail] /\ available(rxBuffer) > 0
    BY <1>5 DEF ReadTail, RxOrder
  <2>2. /\ lastRead' \in Nat /\ lastRead' <= h
        /\ Increases(rxBuffer', lastRead', h)
    BY <1>0, <2>1, DropIncreases
  <2> QED
    BY <1>0, <2>1, <2>2 DEF RxOrder
<1>6. CASE ReadCompare \/ ReadSpace \/ ReadAssert
  <2>1. UNCHANGED <<rxBuffer, rxFifo, nRx, lastRead>> /\ pc'["main"] # "r_tail"
    BY <1>6 DEF ReadCompare, ReadSpace, ReadAssert
  <2> QED
    BY <1>0, <2>1 DEF RxOrder
<1>7. CASE Begin
  <2>1. UNCHANGED <<rxBuffer, nRx, lastRead, pc>> /\ rxFifo' = <<>> /\ pc["main"] = "idle"
    BY <1>7 DEF Begin, ResetUART
  <2> QED
    BY <1>0, <2>1, FifoEmpty DEF RxOrder
<1>8. CASE End
  <2>1. /\ UNCHANGED <<nRx, lastRead, pc>> /\ rxFifo' = <<>> /\ pc["main"] = "idle"
        /\ rxBuffer' = clear(rxBuffer)
    BY <1>8 DEF End, ResetUART
  <2>2. Increases(rxBuffer', lastRead, h)
    BY <2>1, Clears, EmptyIncreases
  <2> QED
    BY <1>0, <2>1, <2>2, FifoEmpty DEF RxOrder
<1>9. CASE Arrive
  <2>1. UNCHANGED <<rxBuffer, lastRead, pc, val>> /\ nRx' = nRx + 1
    BY <1>9 DEF Arrive
  <2>2. FifoIncreases(rxFifo', h, nRx + 1)
    <3>1. CASE rxFifo' = rxFifo
      <4>1. FifoIncreases(rxFifo, h, nRx + 1)
        BY <1>0, FifoWider
      <4> QED
        BY <3>1, <4>1
    <3>2. ASSUME NEW ferr \in BOOLEAN,
                 rxFifo' = Append(rxFifo, [byte |-> nRx + 1, ferr |-> ferr])
          PROVE  FifoIncreases(rxFifo', h, nRx + 1)
      BY <1>0, <3>2, FifoAppend
    <3> QED
      BY <1>9, <3>1, <3>2 DEF Arrive
  <2> QED
    BY <1>0, <2>1, <2>2 DEF RxOrder
<1> QED
  BY <1>1, <1>2, <1>3, <1>4, <1>5, <1>6, <1>7, <1>8, <1>9, RxCases DEF ReadStep

\* What has arrived is in order in every reachable state.
LEMMA RxOrderAlways == Spec => []RxOrder
<1>1. Init => RxOrder
  <2> SUFFICES ASSUME Init PROVE RxOrder
    OBVIOUS
  <2>1. Increases(rxBuffer, 0, 0)
    BY NewRingType, EmptyIncreases DEF Init
  <2> QED
    BY <2>1, FifoEmpty DEF Init, RxOrder, Contexts
<1>2. IInv /\ RxOrder /\ [Next]_vars => RxOrder'
  BY RxOrderStep
<1> QED
  BY <1>1, <1>2, Invariance, PTL DEF Spec

\* read() delivers the bytes in the order in which they arrived, none twice,
\* whatever IrqHandler stores while read() is preempted.
THEOREM ReadsIncrease == Spec => []ReadsInOrder
<1>1. IInv /\ RxOrder => ReadsInOrder
  <2> SUFFICES ASSUME IInv, RxOrder, pc["main"] = "r_tail" PROVE val["main"] > lastRead
    BY DEF ReadsInOrder
  <2>1. PICK h \in Nat : Increases(rxBuffer, lastRead, h)
    BY DEF RxOrder
  <2>2. lastRead < rxBuffer.aucBuffer[rxBuffer.iTail]
        /\ rxBuffer.aucBuffer[rxBuffer.iTail] \in Nat
    BY <2>1, DropIncreases DEF RxOrder, IInv, TypeOK
  <2> QED
    BY <2>2 DEF RxOrder, IInv, TypeOK
<1> QED
  BY <1>1, RxOrderAlways, Invariance, PTL

-----------------------------------------------------------------------------
(* Flow control *)

\* The bytes that can still come when RTS goes off.
Margin == FifoDepth + Slack

\* The threshold leaves room for them three times: for those under way when
\* read() decides, those that come before it asserts RTS, and those that come
\* once the handler has de-asserted it again.
ThresholdSuffices == HasRTS /\ Threshold >= 3 * Margin - 1 /\ Threshold < N

Space == availableForStore(rxBuffer)

\* The bytes that the handler may still have to store if RTS is not asserted
\* (again), and the slots that will be left when it has.
ToCome == IF rts THEN Margin ELSE Len(rxFifo) + (Slack - slack)
Left == Space - ToCome
Filled == Left < Threshold - Margin

\* The head is so near the start of the ring that it has just wrapped.
HeadBelow(n) == rxBuffer.iHead + ToCome < n

\* What the FIFO and the far end promise.
LineInv == Len(rxFifo) <= FifoDepth /\ slack <= Slack /\ (rts => slack = 0)

\* What is left when read() has asserted RTS: it may have used a space that was
\* N too large only if the head wrapped between its two looks at the indices.
LeftInv ==
    \/ Left >= Threshold - 2 * Margin
    \/ Left >= Threshold - 3 * Margin + 1 /\ HeadBelow(2 * Margin)

\* The same at each access of read(): what it knows of the ring, and how stale.
ReadInv ==
    /\ pc["main"] = "r_compare" =>
          \/ Left > Threshold - 2 * Margin
          \/ Left >= Threshold - 3 * Margin + 1 /\ HeadBelow(2 * Margin)
    /\ pc["main"] = "r_space" =>
          IF wrapped THEN isWrapped(rxBuffer)
          ELSE /\ Left > Threshold - 2 * Margin
               /\ Filled /\ isWrapped(rxBuffer) => HeadBelow(Margin)
    /\ pc["main"] = "r_assert" =>
          ~Filled \/ (Left > Threshold - 2 * Margin /\ HeadBelow(Margin))

FlowInv == LineInv /\ LeftInv /\ ReadInv

\* The numbers that flow control compares.
FlowRanges ==
    /\ Space \in 0 .. N - 1 /\ Margin \in Nat /\ Margin >= 2
    /\ ToCome \in 0 .. Margin /\ (rts => ToCome = Margin)
    /\ Threshold \in Nat /\ N \in Nat /\ N >= 2 /\ Slack \in Nat
    /\ rxBuffer.iHead \in 0 .. N - 1 /\ rxBuffer.iTail \in 0 .. N - 1
    /\ (isWrapped(rxBuffer) => rxBuffer.iTail = rxBuffer.iHead + Space + 1)
    /\ (~isWrapped(rxBuffer) => rxBuffer.iHead = rxBuffer.iTail + N - 1 - Space)

\* The FIFO has two places.
LEMMA FifoLength ==
    ASSUME TypeOK, LineInv
    PROVE  Len(rxFifo) \in 0 .. 2
<1>1. Len(rxFifo) \in Nat /\ Len(rxFifo) <= 2
  BY FifoBytes DEF TypeOK, LineInv, FifoDepth
<1>2. \A n \in Nat : n <= 2 => n \in 0 .. 2
  OBVIOUS
<1> QED
  BY <1>1, <1>2

LEMMA FlowNumbers == TypeOK /\ LineInv => FlowRanges
<1> SUFFICES ASSUME TypeOK, LineInv PROVE FlowRanges
  OBVIOUS
<1>1. Len(rxFifo) \in 0 .. 2 /\ Slack \in Nat /\ Threshold \in Nat /\ N \in Nat /\ N >= 2
  BY FifoLength, UartAssumption, NAssumption
<1>2. slack \in 0 .. Slack
  BY <1>1 DEF TypeOK, LineInv
<1>3. /\ rxBuffer \in Rings(Nat) /\ rts \in BOOLEAN
  BY DEF TypeOK
<1>4. /\ Margin \in Nat /\ Margin >= 2 /\ Margin = 2 + Slack
  BY <1>1 DEF Margin, FifoDepth
<1>5. ToCome \in 0 .. Margin /\ (rts => ToCome = Margin)
  <2>1. Len(rxFifo) + (Slack - slack) \in 0 .. Margin
    <3>1. \A n \in 0 .. 2 : n + (Slack - slack) \in 0 .. 2 + Slack
      BY <1>1, <1>2
    <3> QED
      BY <1>1, <1>4, <3>1
  <2> QED
    BY <1>4, <2>1 DEF ToCome
<1> QED
  BY <1>1, <1>3, <1>4, <1>5, WrappedSpace DEF Space, FlowRanges

LEMMA FlowNumbersNext == TypeOK' /\ LineInv' => FlowRanges' /\ Margin' = Margin
<1>1. TypeOK' /\ LineInv' => FlowRanges'
  BY FlowNumbers, PTL
<1>2. Margin' = Margin
  BY DEF Margin
<1> QED
  BY <1>1, <1>2

\* IrqHandler drops a bad byte: the FIFO is one shorter.
LEMMA FifoShorter ==
    ASSUME NEW fifo \in Seq(Received), fifo # <<>>
    PROVE  Len(ClearFrameError(Tail(fifo))) = Len(fifo) - 1 /\ Len(fifo) \in Nat /\ Len(fifo) >= 1
<1>1. /\ Tail(fifo) \in Seq(Received) /\ Len(Tail(fifo)) = Len(fifo) - 1
      /\ Len(fifo) \in Nat /\ Len(fifo) >= 1
  BY EmptySeq, HeadTailProperties, FifoBytes
<1>2. CASE Tail(fifo) = <<>>
  BY <1>1, <1>2 DEF ClearFrameError
<1>3. CASE Tail(fifo) # <<>>
  <2> DEFINE t == Tail(fifo)
             b == [t[1] EXCEPT !.ferr = FALSE]
  <2>1. t \in Seq(Received) /\ 1 \in 1 .. Len(t) /\ t[1] \in Received
    BY <1>1, <1>3, EmptySeq, FifoBytes
  <2>2. b \in Received
    BY <2>1 DEF Received
  <2>3. ClearFrameError(t) = [t EXCEPT ![1] = b]
    BY <1>3 DEF ClearFrameError
  <2> HIDE DEF b, t
  <2>4. Len([t EXCEPT ![1] = b]) = Len(t)
    BY <2>1, <2>2, ExceptSeq
  <2> QED
    BY <1>1, <2>3, <2>4 DEF t
<1> QED
  BY <1>2, <1>3

\* The invariant is what flow control is for.
LEMMA FlowSuffices ==
    ASSUME ThresholdSuffices, TypeOK, FlowInv, RXC
    PROVE  ~isFull(rxBuffer)
<1>1. Len(rxFifo) >= 1
  BY EmptySeq, LenProperties DEF TypeOK, RXC
<1>2. Left >= Threshold - 3 * Margin + 1
  BY FlowNumbers DEF FlowRanges, FlowInv, LeftInv, Left
<1>3. ToCome >= 1
  BY <1>1, FlowNumbers DEF FlowRanges, ToCome, FlowInv, LineInv, TypeOK
<1>4. Space >= 1
  BY <1>2, <1>3, FlowNumbers DEF FlowRanges, ThresholdSuffices, Left, FlowInv
<1> QED
  BY <1>4, Counts, NAssumption DEF Space, TypeOK

\* A step that leaves the ring and the thread's view of it alone and makes
\* neither the bytes to come more.
LEMMA FewerToCome ==
    ASSUME TypeOK, TypeOK', FlowInv, LineInv', rxBuffer' = rxBuffer, ToCome' <= ToCome,
           pc'["main"] \in Reading =>
               pc'["main"] = pc["main"] /\ wrapped' = wrapped
    PROVE  FlowInv'
<1>1. Space' = Space /\ isWrapped(rxBuffer)' = isWrapped(rxBuffer)
  BY DEF Space
<1>2. /\ Left \in Int /\ Left' \in Int /\ Left' >= Left
      /\ Margin \in Nat /\ Threshold \in Nat
  BY <1>1, FlowNumbers, FlowNumbersNext DEF FlowRanges, Left, FlowInv
<1>3. ASSUME NEW n \in Nat, HeadBelow(n)
      PROVE  HeadBelow(n)'
  BY <1>3, FlowNumbers, FlowNumbersNext DEF FlowRanges, HeadBelow, FlowInv
<1>4. Filled' => Filled
  BY <1>2 DEF Filled
<1>5. LeftInv'
  BY <1>2, <1>3 DEF LeftInv, FlowInv
<1>6. ReadInv'
  BY <1>1, <1>2, <1>3, <1>4 DEF ReadInv, FlowInv, Reading
<1> QED
  BY <1>5, <1>6 DEF FlowInv

\* The step that stores a byte: RTS goes off, or was off, or there is room enough.
LEMMA FlowReceive ==
    ASSUME ThresholdSuffices, IInv, FlowInv, TypeOK', NEW c \in Handlers, HandleReceive(c), RXC
    PROVE  FlowInv'
<1>0. /\ FlowRanges /\ FlowRanges' /\ LineInv' /\ Margin' = Margin
      /\ Space' = Space - 1 /\ rxBuffer'.iTail = rxBuffer.iTail
      /\ rxBuffer'.iHead = IF rxBuffer.iHead + 1 = N THEN 0 ELSE rxBuffer.iHead + 1
      /\ slack' = slack /\ wrapped' = wrapped
      /\ pc'["main"] \in Reading => pc'["main"] = pc["main"]
      /\ (rts' => rts /\ Space' >= Threshold)
      /\ (~rts' => ToCome' <= ToCome - 1 /\ ToCome' <= Margin - 1)
  <2>1. /\ rxBuffer' = store_char(rxBuffer, rxFifo[1].byte) /\ rxFifo' = Tail(rxFifo)
        /\ slack' = slack /\ wrapped' = wrapped
        /\ (rts' => rts /\ ~Deassert(rxBuffer'))
        /\ pc'["main"] \in Reading => pc'["main"] = pc["main"]
    BY DEF HandleReceive, Handlers, Reading, At, Goto, IInv, TypeOK, Contexts, local
  <2>2. /\ rxFifo \in Seq(Received) /\ rxBuffer \in Rings(Nat) /\ rxFifo # <<>>
        /\ slack \in Nat
    BY DEF IInv, TypeOK, RXC
  <2>3. /\ rxFifo[1].byte \in Nat /\ Len(rxFifo) \in Nat /\ Len(rxFifo) >= 1
        /\ Len(rxFifo') = Len(rxFifo) - 1
    <3>1. Len(rxFifo) \in Nat /\ Len(rxFifo) >= 1 /\ Len(rxFifo') = Len(rxFifo) - 1
      BY <2>1, <2>2, EmptySeq, HeadTailProperties, FifoBytes
    <3>2. 1 \in 1 .. Len(rxFifo)
      BY <3>1
    <3> QED
      BY <2>2, <3>1, <3>2, FifoBytes
  <2>4. ~isFull(rxBuffer)
    BY FlowSuffices DEF IInv
  <2>5. /\ Space' = Space - 1 /\ rxBuffer'.iTail = rxBuffer.iTail
        /\ rxBuffer'.iHead = IF rxBuffer.iHead + 1 = N THEN 0 ELSE rxBuffer.iHead + 1
    BY <2>1, <2>2, <2>3, <2>4, StoreSpace DEF Space
  <2>6. LineInv'
    <3>1. slack' <= Slack /\ (rts' => slack' = 0)
      BY <2>1 DEF LineInv, FlowInv
    <3>2. Len(rxFifo') <= FifoDepth
      BY <2>3 DEF LineInv, FlowInv, FifoDepth
    <3> QED
      BY <3>1, <3>2 DEF LineInv
  <2>7. FlowRanges /\ FlowRanges' /\ Margin' = Margin
    BY <2>6, FlowNumbers, FlowNumbersNext DEF IInv, FlowInv
  <2>8. rts' => rts /\ Space' >= Threshold
    <3>1. rts' => rts /\ ~(Space' < Threshold)
      BY <2>1 DEF Deassert, ThresholdSuffices, Space
    <3>2. Space' \in Int /\ Threshold \in Int
      BY <2>7 DEF FlowRanges
    <3> QED
      BY <3>1, <3>2
  <2>9. ~rts' => ToCome' <= ToCome - 1 /\ ToCome' <= Margin - 1
    <3>1. ToCome \in 0 .. Margin /\ (rts => ToCome = Margin) /\ Margin \in Nat /\ Slack \in Nat
      BY <2>7 DEF FlowRanges
    <3>2. /\ ~rts' => ToCome' = Len(rxFifo) - 1 + (Slack - slack)
          /\ ~rts => ToCome = Len(rxFifo) + (Slack - slack)
          /\ Len(rxFifo) <= 2 /\ slack <= Slack
      BY <2>1, <2>3 DEF ToCome, FlowInv, LineInv, FifoDepth
    <3>3. Margin = 2 + Slack
      BY <3>1 DEF Margin, FifoDepth
    <3>4. \A n \in Nat : n <= 2 => n - 1 + (Slack - slack) <= 2 + Slack - 1
      BY <2>2, <3>1
    <3> QED
      BY <2>2, <2>3, <3>1, <3>2, <3>3, <3>4
  <2> QED
    BY <2>1, <2>3, <2>5, <2>6, <2>7, <2>8, <2>9
<1>1. CASE rts'
  <2>1. ToCome' = Margin /\ Left' \in Int /\ Left' >= Threshold - Margin
    BY <1>0, <1>1 DEF FlowRanges, ToCome, Left
  <2>2. ~Filled' /\ Left' > Threshold - 2 * Margin /\ Left' >= Threshold - 2 * Margin
    BY <1>0, <2>1 DEF FlowRanges, Filled
  <2>3. isWrapped(rxBuffer) => isWrapped(rxBuffer')
    BY <1>0 DEF FlowRanges, isWrapped
  <2>4. LeftInv'
    BY <2>2 DEF LeftInv
  <2>5. ReadInv'
    BY <1>0, <2>2, <2>3 DEF ReadInv, FlowInv, Reading
  <2> QED
    BY <1>0, <2>4, <2>5 DEF FlowInv
<1>2. CASE ~rts'
  <2>1. ToCome' <= ToCome - 1 /\ ToCome' <= Margin - 1
    BY <1>0, <1>2
  <2>2. Left' >= Left /\ Left \in Int /\ Left' \in Int
    BY <1>0, <2>1 DEF FlowRanges, Left
  <2>a. /\ rxBuffer'.iHead = 0 \/ rxBuffer'.iHead = rxBuffer.iHead + 1
        /\ rxBuffer.iHead \in Nat /\ ToCome \in Int /\ ToCome' \in Int /\ Margin \in Int
    BY <1>0 DEF FlowRanges
  <2>3. ASSUME NEW n \in Nat, n >= Margin, HeadBelow(n)
        PROVE  HeadBelow(n)'
    BY <2>1, <2>3, <2>a DEF HeadBelow
  <2>4. Filled' => Filled
    BY <1>0, <2>2 DEF FlowRanges, Filled
  <2>5. isWrapped(rxBuffer) => isWrapped(rxBuffer')
    BY <1>0 DEF FlowRanges, isWrapped
  <2>6. ~isWrapped(rxBuffer) /\ isWrapped(rxBuffer') => HeadBelow(Margin)'
    <3>1. ~isWrapped(rxBuffer) /\ isWrapped(rxBuffer') => rxBuffer'.iHead = 0
      BY <1>0 DEF FlowRanges, isWrapped
    <3>2. rxBuffer'.iHead = 0 => HeadBelow(Margin)'
      BY <1>0, <2>1, <2>a DEF HeadBelow
    <3> QED
      BY <3>1, <3>2
  <2>7. /\ Margin \in Nat /\ 2 * Margin \in Nat /\ 2 * Margin >= Margin /\ Threshold \in Nat
        /\ Margin >= Margin
    BY <1>0 DEF FlowRanges
  <2>8. LeftInv'
    BY <2>2, <2>3, <2>7 DEF LeftInv, FlowInv
  <2>9. ReadInv'
    <3>1. /\ HeadBelow(Margin) => HeadBelow(Margin)'
          /\ HeadBelow(2 * Margin) => HeadBelow(2 * Margin)'
      BY <2>3, <2>7
    <3> QED
      BY <1>0, <2>2, <2>4, <2>5, <2>6, <2>7, <3>1 DEF ReadInv, FlowInv, Reading
  <2> QED
    BY <1>0, <2>8, <2>9 DEF FlowInv
<1> QED
  BY <1>1, <1>2

\* Every step keeps the invariant, if begin() is called on an empty ring only.
LEMMA FlowStep ==
    ASSUME ThresholdSuffices, IInv, IInv', RxOrder, FlowInv, [Next]_vars,
           begins' # begins => isEmpty(rxBuffer)
    PROVE  FlowInv'
<1> USE DEF Contexts, At, Goto, Runs, rxHw, flow, life, local
<1>00. PICK S : pc \in [Contexts -> S]
  BY DEF IInv, TypeOK
<1>0. /\ TypeOK /\ TypeOK' /\ FlowRanges /\ LineInv /\ LeftInv /\ ReadInv
      /\ rxBuffer \in Rings(Nat) /\ rxFifo \in Seq(Received) /\ HasRTS
      /\ pc \in [Contexts -> S] /\ Len(rxFifo) \in 0 .. 2
  BY <1>00, FlowNumbers, FifoLength DEF IInv, TypeOK, FlowInv, ThresholdSuffices
<1>1. CASE RxQuiet
  <2>1. LineInv' /\ ToCome' = ToCome /\ rxBuffer' = rxBuffer
    BY <1>0, <1>1 DEF RxQuiet, LineInv, ToCome
  <2>2. ToCome' <= ToCome
    BY <1>0, <2>1 DEF FlowRanges
  <2> QED
    BY <1>0, <1>1, <2>1, <2>2, FewerToCome DEF RxQuiet
<1>2. ASSUME NEW c \in Handlers, HandleFrameError(c)
      PROVE  FlowInv'
  <2>1. Len(rxFifo') \in 0 .. Len(rxFifo)
    <3>1. ASSUME rxFifo # <<>>, rxFifo' = ClearFrameError(Tail(rxFifo))
          PROVE  Len(rxFifo') = Len(rxFifo) - 1 /\ Len(rxFifo) >= 1
      BY <1>0, <3>1, FifoShorter
    <3> QED
      BY <1>0, <1>2, <3>1 DEF HandleFrameError, RXC, FlowRanges
  <2>2. /\ rxBuffer' = rxBuffer /\ rts' = rts /\ slack' = slack /\ wrapped' = wrapped
        /\ pc'["main"] \in Reading => pc'["main"] = pc["main"]
    BY <1>0, <1>2 DEF HandleFrameError, Handlers, Reading
  <2>3. LineInv' /\ ToCome' <= ToCome
    BY <1>0, <2>1, <2>2 DEF LineInv, ToCome, FlowRanges, FifoDepth, TypeOK
  <2> QED
    BY <1>0, <2>2, <2>3, FewerToCome
<1>3. ASSUME NEW c \in Handlers, HandleReceive(c)
      PROVE  FlowInv'
  <2>1. CASE RXC
    BY <1>0, <1>3, <2>1, FlowReceive
  <2>2. CASE ~RXC
    <3>1. /\ rxBuffer' = rxBuffer /\ rxFifo' = rxFifo /\ (rts' <=> rts) /\ slack' = slack
          /\ wrapped' = wrapped
          /\ pc'["main"] \in Reading => pc'["main"] = pc["main"]
      BY <1>0, <1>3, <2>2 DEF HandleReceive, Handlers, Reading, TypeOK
    <3>2. LineInv' /\ ToCome' = ToCome
      BY <1>0, <3>1 DEF LineInv, ToCome
    <3>3. ToCome' <= ToCome
      BY <1>0, <3>2 DEF FlowRanges
    <3> QED
      BY <1>0, <3>1, <3>2, <3>3, FewerToCome
  <2> QED
    BY <2>1, <2>2
<1>4. CASE ReadLoad
  <2>1. /\ rxBuffer' = rxBuffer /\ rxFifo' = rxFifo /\ rts' = rts /\ slack' = slack
        /\ pc'["main"] = IF isEmpty(rxBuffer) THEN "r_compare" ELSE "r_tail"
    BY <1>0, <1>4 DEF ReadLoad
  <2>2. Space' = Space /\ ToCome' = ToCome /\ LineInv' /\ LeftInv'
    BY <1>0, <2>1 DEF Space, ToCome, LineInv, LeftInv, Left, HeadBelow
  <2>3. isEmpty(rxBuffer) => Left > Threshold - 2 * Margin
    <3>1. isEmpty(rxBuffer) => Space = N - 1
      BY <1>0, Counts, NAssumption DEF Space
    <3> QED
      BY <1>0, <3>1 DEF Left, FlowRanges, ThresholdSuffices
  <2>4. ReadInv'
    BY <2>1, <2>2, <2>3 DEF ReadInv, Left
  <2> QED
    BY <2>2, <2>4 DEF FlowInv
<1>5. CASE ReadTail
  <2>1. /\ rxBuffer' = DropTail(rxBuffer) /\ rxFifo' = rxFifo /\ rts' = rts /\ slack' = slack
        /\ pc'["main"] = "r_compare" /\ available(rxBuffer) > 0
    BY <1>0, <1>5 DEF ReadTail, RxOrder
  <2>2. Space' = Space + 1 /\ rxBuffer'.iHead = rxBuffer.iHead
    BY <1>0, <2>1, DropSpace DEF Space
  <2>3. /\ ToCome' = ToCome /\ LineInv' /\ Left' = Left + 1
        /\ (HeadBelow(2 * Margin) => HeadBelow(2 * Margin)')
    BY <1>0, <2>1, <2>2 DEF ToCome, LineInv, Left, HeadBelow, FlowRanges
  <2>4. LeftInv' /\ ReadInv'
    BY <1>0, <2>1, <2>3 DEF LeftInv, ReadInv, Left, FlowRanges
  <2> QED
    BY <2>3, <2>4 DEF FlowInv
<1>6. CASE ReadCompare
  <2>1. /\ rxBuffer' = rxBuffer /\ rxFifo' = rxFifo /\ rts' = rts /\ slack' = slack
        /\ pc["main"] = "r_compare" /\ pc'["main"] = "r_space" /\ wrapped' = isWrapped(rxBuffer)
    BY <1>0, <1>6 DEF ReadCompare
  <2>2. Space' = Space /\ ToCome' = ToCome /\ LineInv' /\ LeftInv'
    BY <1>0, <2>1 DEF Space, ToCome, LineInv, LeftInv, Left, HeadBelow
  <2>3. ~isWrapped(rxBuffer) => Left > Threshold - 2 * Margin
    BY <1>0, <2>1 DEF ReadInv, Left, HeadBelow, FlowRanges, ThresholdSuffices
  <2>4. ReadInv'
    BY <2>1, <2>2, <2>3 DEF ReadInv, Left
  <2> QED
    BY <2>2, <2>4 DEF FlowInv
<1>7. CASE ReadSpace
  <2>1. /\ rxBuffer' = rxBuffer /\ rxFifo' = rxFifo /\ rts' = rts /\ slack' = slack
        /\ pc["main"] = "r_space"
        /\ pc'["main"] = IF SpaceSeen(rxBuffer, wrapped) > Threshold THEN "r_assert" ELSE "idle"
    BY <1>0, <1>7 DEF ReadSpace
  <2>2. Space' = Space /\ ToCome' = ToCome /\ LineInv' /\ LeftInv'
    BY <1>0, <2>1 DEF Space, ToCome, LineInv, LeftInv, Left, HeadBelow
  <2>3. wrapped = isWrapped(rxBuffer) =>
            SpaceSeen(rxBuffer, wrapped) = Space
    BY DEF Space, availableForStore
  <2>4. SpaceSeen(rxBuffer, wrapped) > Threshold =>
            ~Filled \/ (Left > Threshold - 2 * Margin /\ HeadBelow(Margin))
    <3>1. Space > Threshold => ~Filled
      BY <1>0 DEF Filled, Left, FlowRanges
    <3>2. CASE wrapped = isWrapped(rxBuffer)
      BY <2>3, <3>1, <3>2
    <3>3. CASE wrapped # isWrapped(rxBuffer)
      BY <1>0, <2>1, <3>3 DEF ReadInv, TypeOK, isWrapped
    <3> QED
      BY <3>2, <3>3
  <2>5. ReadInv'
    BY <2>1, <2>2, <2>4 DEF ReadInv, Left, Filled, HeadBelow
  <2> QED
    BY <2>2, <2>5 DEF FlowInv
<1>8. CASE ReadAssert
  <2>1. /\ rxBuffer' = rxBuffer /\ rxFifo' = rxFifo /\ rts' /\ slack' = 0
        /\ pc["main"] = "r_assert" /\ pc'["main"] = "idle"
    BY <1>0, <1>8 DEF ReadAssert
  <2>2. Space' = Space /\ ToCome' = Margin /\ LineInv'
    BY <1>0, <2>1 DEF Space, ToCome, LineInv, FlowRanges
  <2>3. /\ Left' = Left + ToCome - Margin /\ Left \in Int
        /\ (HeadBelow(Margin) => HeadBelow(2 * Margin)')
    BY <1>0, <2>1, <2>2 DEF Left, HeadBelow, FlowRanges
  <2>4. LeftInv'
    BY <1>0, <2>1, <2>3 DEF ReadInv, LeftInv, Filled, FlowRanges
  <2>5. ReadInv'
    BY <2>1 DEF ReadInv
  <2> QED
    BY <2>2, <2>4, <2>5 DEF FlowInv
<1>9. CASE Begin \/ End
  <2>1. /\ rxFifo' = <<>> /\ pc'["main"] = "idle" /\ rxBuffer' \in Rings(Nat)
        /\ (slack' = 0 \/ (slack' = slack /\ rts' = rts))
    BY <1>0, <1>9 DEF Begin, End, ResetUART, TypeOK
  <2>2. LineInv'
    BY <1>0, <2>1, EmptySeq DEF LineInv, FifoDepth, FlowRanges
  <2>3. available(rxBuffer') = 0
    <3>1. Begin => isEmpty(rxBuffer) /\ rxBuffer' = rxBuffer
      BY <1>0 DEF Begin, TypeOK
    <3> QED
      BY <1>0, <1>9, <3>1, Counts, Clears DEF End
  <2>4. Space' = N - 1
    BY <2>1, <2>3, Counts, NAssumption DEF Space
  <2>5. Left' >= Threshold - 2 * Margin
    <3>1. FlowRanges' /\ Margin' = Margin
      BY <1>0, <2>2, FlowNumbersNext
    <3>2. ToCome' \in 0 .. Margin /\ Margin \in Nat /\ Threshold \in Nat /\ N \in Nat
      BY <3>1 DEF FlowRanges
    <3>3. Threshold < N
      BY DEF ThresholdSuffices
    <3>4. \A t \in 0 .. Margin : (N - 1) - t >= Threshold - 2 * Margin
      BY <3>2, <3>3
    <3> QED
      BY <2>4, <3>2, <3>4 DEF Left
  <2> QED
    BY <2>1, <2>2, <2>5 DEF FlowInv, LeftInv, ReadInv
<1>10. CASE Arrive
  <2>1. /\ rxBuffer' = rxBuffer /\ rts' = rts /\ pc' = pc /\ wrapped' = wrapped
        /\ slack' = IF rts THEN slack ELSE slack + 1
        /\ rts \/ slack < Slack
    BY <1>0, <1>10 DEF Arrive
  <2>2. Len(rxFifo') \in 0 .. 2 /\ Len(rxFifo') <= Len(rxFifo) + 1
    <3>0. Len(rxFifo) \in 0 .. 2
      BY <1>0
    <3>2. ASSUME NEW ferr \in BOOLEAN, Len(rxFifo) < FifoDepth,
                 rxFifo' = Append(rxFifo, [byte |-> nRx + 1, ferr |-> ferr])
          PROVE  Len(rxFifo') = Len(rxFifo) + 1 /\ Len(rxFifo) < 2
      <4>1. [byte |-> nRx + 1, ferr |-> ferr] \in Received
        BY <1>0 DEF Received, TypeOK
      <4> QED
        BY <1>0, <3>2, <4>1, AppendProperties DEF FifoDepth
    <3>3. Len(rxFifo') = Len(rxFifo) \/ (Len(rxFifo') = Len(rxFifo) + 1 /\ Len(rxFifo) < 2)
      BY <1>10, <3>2 DEF Arrive
    <3> QED
      BY <3>0, <3>3
  <2>3. slack \in Nat /\ Slack \in Nat /\ Margin \in Nat /\ Len(rxFifo) \in 0 .. 2
    BY <1>0 DEF TypeOK, FlowRanges
  <2>4. LineInv'
    <3>1. \A n \in 0 .. 2 : n <= FifoDepth
      BY DEF FifoDepth
    <3>2. slack' <= Slack /\ (rts' => slack' = 0)
      BY <1>0, <2>1, <2>3 DEF LineInv
    <3> QED
      BY <2>2, <3>1, <3>2 DEF LineInv
  <2>5. ToCome' <= ToCome
    <3>1. CASE rts
      BY <2>1, <2>3, <3>1 DEF ToCome, Margin
    <3>2. CASE ~rts
      BY <2>1, <2>2, <2>3, <3>2 DEF ToCome
    <3> QED
      BY <3>1, <3>2
  <2> QED
    BY <1>0, <2>1, <2>4, <2>5, FewerToCome
<1> QED
  BY <1>1, <1>2, <1>3, <1>4, <1>5, <1>6, <1>7, <1>8, <1>9, <1>10, RxCases DEF ReadStep

\* Flow control holds in every reachable state, if begin() is called on an
\* empty ring only.
LEMMA FlowAlways ==
    ASSUME ThresholdSuffices
    PROVE  Spec /\ [][begins' # begins => isEmpty(rxBuffer)]_vars => []FlowInv
<1>1. Init => FlowInv
  <2> SUFFICES ASSUME Init PROVE FlowInv
    OBVIOUS
  <2>1. /\ TypeOK /\ rxBuffer = NewRing /\ rxFifo = <<>> /\ ~rts /\ slack = Slack
        /\ pc["main"] = "idle"
    BY InitInv DEF IInv, Init, Contexts
  <2>2. LineInv
    BY <2>1, UartAssumption DEF LineInv, FifoDepth
  <2>3. Space = N - 1 /\ N \in Nat /\ Threshold \in Nat /\ Margin \in Nat
    BY <2>1, <2>2, NewRingType, Counts, NAssumption, FlowNumbers DEF Space, FlowRanges
  <2>4. ToCome = 0
    BY <2>1, UartAssumption DEF ToCome
  <2> QED
    BY <2>1, <2>2, <2>3, <2>4 DEF FlowInv, LeftInv, ReadInv, Left, ThresholdSuffices
<1>2. /\ IInv /\ IInv' /\ RxOrder /\ FlowInv /\ [Next]_vars
      /\ [begins' # begins => isEmpty(rxBuffer)]_vars
      => FlowInv'
  <2>1. [begins' # begins => isEmpty(rxBuffer)]_vars => (begins' # begins => isEmpty(rxBuffer))
    BY DEF vars, life
  <2> QED
    BY <2>1, FlowStep
<1> QED
  BY <1>1, <1>2, Invariance, RxOrderAlways, PTL DEF Spec

\* With RTS, a far end that stops within Slack bytes, and a threshold of three
\* times the FIFO and these bytes less one, the handler never meets a full ring,
\* whatever it interrupts, as long as begin() finds nothing unread.
THEOREM RingNeverOverflows ==
    ASSUME ThresholdSuffices
    PROVE  Spec /\ [][begins' # begins => isEmpty(rxBuffer)]_vars => []RxNeverDropped
<1>1. IInv /\ FlowInv => RxNeverDropped
  BY FlowSuffices DEF IInv, RxNeverDropped
<1> QED
  BY <1>1, FlowAlways, Invariance, PTL

\* The port before its first begin().
Unused ==
    begins = 0 => /\ ~enabled /\ rxBuffer = NewRing /\ rxFifo = <<>> /\ ~error
                  /\ pc["main"] = "idle" /\ pc["irq"] = "idle"

\* Only begin() counts.
LEMMA BeginCounts ==
    ASSUME IInv, [Next]_vars
    PROVE  begins' = begins \/ (Begin /\ begins' = begins + 1)
<1>1. RxQuiet => begins' = begins
  BY DEF RxQuiet
<1>2. ASSUME \/ \E c \in Handlers : HandleFrameError(c) \/ HandleReceive(c)
             \/ ReadStep \/ End \/ Arrive
      PROVE  begins' = begins
  BY <1>2
     DEF HandleFrameError, HandleReceive, ReadStep, ReadLoad, ReadTail, ReadCompare, ReadSpace,
         ReadAssert, End, Arrive, life
<1>3. Begin => begins' = begins + 1
  BY DEF Begin
<1> QED
  BY <1>1, <1>2, <1>3, RxCases

\* Before the first begin() nothing else can happen.
LEMMA FirstBegin ==
    ASSUME IInv, Unused, begins = 0, [Next]_vars
    PROVE  Begin \/ UNCHANGED vars
<1> USE DEF Handlers, At, Runs
<1>1. ~enabled /\ ~RXC /\ ~error /\ pc["main"] = "idle" /\ pc["irq"] = "idle"
  BY DEF Unused, RXC
<1>2. ~WriteStep("main") /\ ~ReadStep /\ ~FlushStep /\ ~RoomCompare /\ ~RoomSpace
  BY <1>1 DEF WriteStep, WriteCheckDre, WriteCheckAvailable, WriteDirect, WriteRoom, WritePoll,
    WriteStore, WritePublish, WriteEnable, ReadStep, ReadLoad, ReadTail, ReadCompare, ReadSpace,
    ReadAssert, FlushStep, FlushWait, FlushCheckDre, FlushComplete, RoomCompare, RoomSpace
<1>3. ASSUME NEW c \in Handlers
      PROVE  ~HandlerStep(c)
  BY <1>1
     DEF HandlerStep, HandleFrameError, HandleReceive, HandleTransmit, HandleTail, HandleData,
         HandleDisable, HandleError
<1>4. ~CallWrite /\ ~CallRead /\ ~CallFlush /\ ~CallAvailableForWrite /\ ~End
  BY <1>1 DEF CallWrite, CallRead, CallFlush, CallAvailableForWrite, Call, End
<1>5. ~IrqEnter /\ ~Shift /\ ~Arrive
  BY <1>1 DEF IrqEnter, DRE, Shift, Arrive
<1> QED
  BY <1>2, <1>3, <1>4, <1>5 DEF Next, MainStep, MainCall, IrqStep

\* So it is for a port that is begun once.
THEOREM BegunOnceNeverOverflows ==
    ASSUME ThresholdSuffices, MaxBegins <= 1
    PROVE  Spec => []RxNeverDropped
<1>1. Init => Unused
  BY DEF Init, Unused, Contexts
<1>2. IInv /\ Unused /\ [Next]_vars => Unused'
  <2> SUFFICES ASSUME IInv, Unused, [Next]_vars, begins' = 0 PROVE Unused'
    BY DEF Unused
  <2>1. begins = 0 /\ ~Begin
    <3>1. begins \in Nat /\ (Begin => begins' = begins + 1)
      BY DEF IInv, TypeOK, Begin
    <3> QED
      BY <3>1, BeginCounts
  <2>2. UNCHANGED vars
    BY <2>1, FirstBegin
  <2> QED
    BY <2>2 DEF Unused, vars, rxHw, life
<1>3. IInv /\ Unused /\ [Next]_vars => [begins' # begins => isEmpty(rxBuffer)]_vars
  <2> SUFFICES ASSUME IInv, Unused, [Next]_vars, begins' # begins PROVE isEmpty(rxBuffer)
    OBVIOUS
  <2>1. begins < MaxBegins /\ begins \in Nat
    BY BeginCounts DEF Begin, IInv, TypeOK
  <2>2. begins = 0
    BY <2>1, UartAssumption
  <2> QED
    BY <2>2 DEF Unused, NewRing, isEmpty
<1> QED
  BY <1>1, <1>2, <1>3, RingNeverOverflows, Invariance, PTL DEF Spec

-----------------------------------------------------------------------------
(* The room that availableForWrite() reports *)

\* IrqHandler may move the tail between the two looks at the indices, but it
\* cannot take it past the head: a tail that was below the head stays there.
RoomInv == pc["main"] = "a_space" /\ ~wrapped => txBuffer.iHead >= txBuffer.iTail

\* A step that is neither one of availableForWrite() nor a move of the tail
\* leaves what that call works on alone.
RoomQuiet ==
    /\ pc["main"] = "a_space" =>
           txBuffer' = txBuffer /\ wrapped' = wrapped /\ pc'["main"] = "a_space"
    /\ pc'["main"] = "a_space" => pc["main"] = "a_space"

LEMMA RoomCases ==
    ASSUME IInv, [Next]_vars
    PROVE  RoomQuiet \/ RoomCompare \/ RoomSpace \/ HandleTail("irq")
<1> USE DEF IInv, TypeOK, Handlers, Contexts, At, Goto, Runs, RoomQuiet, rxHw, flow, life, local
<1>1. ASSUME WriteStep("main")
      PROVE  RoomQuiet
  BY <1>1 DEF WriteStep, WriteCheckDre, WriteCheckAvailable, WriteDirect, WriteRoom, WritePoll,
    WriteStore, WritePublish, WriteEnable, Return
<1>2. ASSUME NEW c \in Handlers, HandlerStep(c)
      PROVE  RoomQuiet \/ HandleTail("irq")
  BY <1>2
     DEF HandlerStep, HandleFrameError, HandleReceive, HandleTransmit, HandleTail, HandleData,
         HandleDisable, HandleError
<1>3. ASSUME IrqEnter \/ Shift \/ Arrive \/ UNCHANGED vars
      PROVE  RoomQuiet
  BY <1>3 DEF IrqEnter, Shift, Arrive, vars
<1>4. ASSUME FlushStep \/ ReadStep
      PROVE  RoomQuiet
  BY <1>4 DEF FlushStep, FlushWait, FlushCheckDre, FlushComplete, ReadStep, ReadLoad, ReadTail,
    ReadCompare, ReadSpace, ReadAssert
<1>5. ASSUME MainCall
      PROVE  RoomQuiet
  BY <1>5 DEF MainCall, CallWrite, CallRead, CallFlush, CallAvailableForWrite, Call, Begin, End
<1> QED
  BY <1>1, <1>2, <1>3, <1>4, <1>5 DEF Next, MainStep, IrqStep

LEMMA RoomStep ==
    ASSUME IInv, RoomInv, [Next]_vars
    PROVE  RoomInv'
<1>1. CASE RoomQuiet
  BY <1>1 DEF RoomQuiet, RoomInv
<1>2. CASE RoomCompare
  BY <1>2 DEF RoomCompare, RoomInv, isWrapped
<1>3. CASE RoomSpace
  BY <1>3 DEF RoomSpace, RoomInv, Goto, IInv, TypeOK, Contexts
<1>4. CASE HandleTail("irq")
  <2>1. /\ txBuffer' = DropTail(txBuffer) /\ wrapped' = wrapped /\ pc'["main"] = pc["main"]
        /\ available(txBuffer) > 0 /\ txBuffer \in Rings(Nat)
    BY <1>4 DEF HandleTail, At, Goto, local, IInv, TypeOK, TxInv, HandlerAgrees, Contexts
  <2>2. /\ txBuffer.iHead \in Index /\ txBuffer.iTail \in Index
        /\ txBuffer'.iHead = txBuffer.iHead /\ txBuffer'.iTail = nextIndex(txBuffer.iTail)
    BY <2>1, DropSpace DEF Rings
  <2>3. txBuffer.iHead >= txBuffer.iTail => txBuffer'.iHead >= txBuffer'.iTail
    BY <2>1, <2>2, NextIndex, NAssumption DEF Index, available
  <2> QED
    BY <2>1, <2>3 DEF RoomInv
<1> QED
  BY <1>1, <1>2, <1>3, <1>4, RoomCases

\* availableForWrite() never promises room that is not there, wherever
\* IrqHandler interrupts it between its accesses to the indices.
THEOREM RoomIsThere == Spec => RoomNotOverstated
<1>1. Init => RoomInv
  BY DEF Init, RoomInv, Contexts
<1>2. IInv /\ RoomInv /\ [Next]_vars => RoomInv'
  BY RoomStep
<1>3. IInv /\ RoomInv /\ [Next]_vars =>
          [(pc["main"] = "a_space" /\ pc'["main"] = "idle")
              => val'["main"] <= N - 1 - available(txBuffer)]_vars
  <2> SUFFICES ASSUME IInv, RoomInv, [Next]_vars, pc["main"] = "a_space", pc'["main"] = "idle"
               PROVE  val'["main"] <= N - 1 - available(txBuffer)
    OBVIOUS
  <2>1. RoomSpace
    BY RoomCases DEF RoomQuiet, RoomCompare, At, HandleTail, Goto, IInv, TypeOK, Contexts
  <2>2. val'["main"] = SpaceSeen(txBuffer, wrapped) /\ txBuffer \in Rings(Nat)
    BY <2>1 DEF RoomSpace, IInv, TypeOK, Contexts
  <2>3. /\ txBuffer.iHead \in 0 .. N - 1 /\ txBuffer.iTail \in 0 .. N - 1
        /\ N \in Nat /\ (~wrapped => txBuffer.iHead >= txBuffer.iTail)
    BY <2>2, NAssumption DEF RoomInv, Rings, Index
  <2> QED
    BY <2>2, <2>3 DEF SpaceSeen, available
<1> QED
  BY <1>1, <1>2, <1>3, Invariance, PTL DEF Spec, RoomNotOverstated

-----------------------------------------------------------------------------
(* The transmitter is a bounded queue *)

\* The n numbers that follow m.
Run(m, n) == [k \in 1 .. n |-> m + k]

LEMMA RunFacts ==
    ASSUME NEW m \in Nat, NEW n \in Nat
    PROVE  /\ Run(m, n) \in Seq(Nat) /\ Len(Run(m, n)) = n
           /\ \A k \in 1 .. n : Run(m, n)[k] = m + k
           /\ DOMAIN Run(m, n) = 1 .. n
<1>1. Run(m, n) \in [1 .. n -> Nat] /\ \A k \in 1 .. n : Run(m, n)[k] = m + k
  BY DEF Run
<1> QED
  BY <1>1, IsASeq, LenProperties DEF Run

\* A sequence is known by its length and its elements.
LEMMA RunEqual ==
    ASSUME NEW s \in Seq(Nat), NEW m \in Nat, NEW n \in Nat, Len(s) = n,
           \A k \in 1 .. n : s[k] = m + k
    PROVE  s = Run(m, n)
<1> DEFINE t == Run(m, n)
<1>1. t \in Seq(Nat) /\ Len(t) = n /\ \A k \in 1 .. n : t[k] = m + k
  BY RunFacts
<1> HIDE DEF t
<1>2. s = t
  BY <1>1, SeqEqual
<1> QED
  BY <1>2 DEF t

\* One sequence behind another, under a name of its own: the SMT backend does not
\* match a fact about \o.
Joined(x, y) == x \o y

LEMMA RunConcat ==
    ASSUME NEW m \in Nat, NEW a \in Nat, NEW b \in Nat, NEW m2 \in Nat, m2 = m + a,
           NEW n \in Nat, n = a + b
    PROVE  Joined(Run(m, a), Run(m2, b)) = Run(m, n)
<1> DEFINE x == Run(m, a)
           y == Run(m2, b)
           s == x \o y
<1>1. /\ x \in Seq(Nat) /\ Len(x) = a /\ \A k \in 1 .. a : x[k] = m + k
      /\ y \in Seq(Nat) /\ Len(y) = b /\ \A k \in 1 .. b : y[k] = m + a + k
  BY RunFacts
<1> HIDE DEF x, y
<1>2. /\ s \in Seq(Nat) /\ Len(s) = a + b
      /\ \A k \in 1 .. a + b : s[k] = IF k <= a THEN x[k] ELSE y[k - a]
  <2>1. /\ s \in Seq(Nat) /\ Len(s) = Len(x) + Len(y)
        /\ \A k \in 1 .. Len(x) + Len(y) : s[k] = IF k <= Len(x) THEN x[k] ELSE y[k - Len(x)]
    <3>1. x \in Seq(Nat) /\ y \in Seq(Nat)
      BY <1>1
    <3> QED
      BY <3>1, ConcatProperties DEF s
  <2> HIDE DEF s
  <2> QED
    BY <1>1, <2>1
<1> HIDE DEF s
<1>3. ASSUME NEW k \in 1 .. a + b
      PROVE  s[k] = m + k
  <2>1. CASE k <= a
    BY <1>1, <1>2, <2>1
  <2>2. CASE k > a
    <3>1. k - a \in 1 .. b
      BY <2>2
    <3>2. y[k - a] = m + a + (k - a)
      BY <1>1, <3>1
    <3> QED
      BY <1>2, <2>2, <3>2
  <2> QED
    BY <2>1, <2>2
<1>4. s = Run(m, n)
  BY <1>2, <1>3, RunEqual
<1> QED
  BY <1>4 DEF s, x, y, Joined

\* What the abstract queue does to such a run.
LEMMA RunSteps ==
    ASSUME NEW m \in Nat, NEW n \in Nat
    PROVE  /\ Append(Run(m, n), m + n + 1) = Run(m, n + 1)
           /\ n > 0 => Run(m, n) # <<>> /\ Tail(Run(m, n)) = Run(m + 1, n - 1)
           /\ \A k \in 1 .. n : SubSeq(Run(m, n), k + 1, Len(Run(m, n))) = Run(m + k, n - k)
<1> DEFINE s == Run(m, n)
<1>1. s \in Seq(Nat) /\ Len(s) = n /\ \A k \in 1 .. n : s[k] = m + k
  BY RunFacts
<1> HIDE DEF s
<1>2. Append(s, m + n + 1) = Run(m, n + 1)
  <2> DEFINE t == Append(s, m + n + 1)
  <2>1. /\ t \in Seq(Nat) /\ Len(t) = n + 1 /\ t[n + 1] = m + n + 1
        /\ \A k \in 1 .. n : t[k] = s[k]
    BY <1>1, AppendProperties
  <2> HIDE DEF t
  <2>2. \A k \in 1 .. n + 1 : t[k] = m + k
    BY <1>1, <2>1
  <2>3. t = Run(m, n + 1)
    BY <2>1, <2>2, RunEqual
  <2> QED
    BY <2>3 DEF t
<1>3. ASSUME n > 0
      PROVE  s # <<>> /\ Tail(s) = Run(m + 1, n - 1)
  <2>1. s # <<>>
    BY <1>1, <1>3, EmptySeq
  <2>2. /\ Tail(s) \in Seq(Nat) /\ Len(Tail(s)) = n - 1
        /\ \A k \in 1 .. n - 1 : Tail(s)[k] = s[k + 1]
    BY <1>1, <2>1, HeadTailProperties
  <2>3. \A k \in 1 .. n - 1 : Tail(s)[k] = m + 1 + k
    BY <1>1, <2>2
  <2>4. n - 1 \in Nat /\ m + 1 \in Nat
    BY <1>3
  <2> QED
    BY <2>1, <2>2, <2>3, <2>4, RunEqual
<1>4. ASSUME NEW k \in 1 .. n
      PROVE  SubSeq(s, k + 1, Len(s)) = Run(m + k, n - k)
  <2> DEFINE t == SubSeq(s, k + 1, n)
  <2>1. /\ t \in Seq(Nat) /\ Len(t) = n - k
        /\ \A i \in 1 .. n - k : t[i] = s[k + i]
    BY <1>1, SubSeqProperties
  <2> HIDE DEF t
  <2>2. \A i \in 1 .. n - k : t[i] = m + k + i
    BY <1>1, <2>1
  <2>3. t = Run(m + k, n - k)
    BY <2>1, <2>2, RunEqual
  <2> QED
    BY <1>1, <2>3 DEF t
<1> QED
  BY <1>2, <1>3, <1>4 DEF s

\* The unread bytes of a ring that holds consecutive numbers.
LEMMA ContentsRun ==
    ASSUME NEW r \in Rings(Nat), NEW first \in Nat, HoldsFrom(r, first + 1)
    PROVE  Contents(r) = Run(first, available(r))
<1>1. available(r) \in 0 .. N - 1 /\ N \in Nat
  BY Counts, NAssumption
<1>2. \A k \in 1 .. available(r) : r.aucBuffer[Slot(r, k - 1)] = first + k
  <2> TAKE k \in 1 .. available(r)
  <2>1. k - 1 \in Index /\ k - 1 < available(r)
    BY <1>1 DEF Index
  <2>2. r.aucBuffer[Slot(r, k - 1)] = first + 1 + (k - 1)
    BY <2>1 DEF HoldsFrom
  <2> QED
    BY <1>1, <2>2
<1> QED
  BY <1>2 DEF Contents, Run

\* One number, or none.
LEMMA RunOne ==
    ASSUME NEW m \in Nat
    PROVE  <<m + 1>> = Run(m, 1) /\ <<>> = Run(m, 0)
<1> DEFINE t == <<m + 1>>
<1>1. t \in Seq(Nat) /\ Len(t) = 1 /\ t[1] = m + 1
  OBVIOUS
<1> HIDE DEF t
<1>2. \A k \in 1 .. 1 : t[k] = m + k
  BY <1>1
<1>3. t = Run(m, 1)
  BY <1>1, <1>2, RunEqual
<1>4. <<>> = Run(m, 0)
  <2>1. <<>> \in Seq(Nat) /\ Len(<<>>) = 0 /\ \A k \in 1 .. 0 : <<>>[k] = m + k
    BY EmptySeq
  <2> QED
    BY <2>1, RunEqual
<1> QED
  BY <1>3, <1>4 DEF t

\* The transmitter holds the bytes from the one behind those that are gone to
\* the last one accepted, in their order.
PipelineRun ==
    /\ gone \in Nat /\ Accepted - gone \in Nat
    /\ Pipeline = Run(gone, Accepted - gone)
    /\ Accepted = gone + InTransmitter + Held + available(txBuffer)

LEMMA PipelineHolds == IInv => PipelineRun
<1> SUFFICES ASSUME IInv PROVE PipelineRun
  OBVIOUS
<1> DEFINE s == IF shiftReg = NoByte THEN 0 ELSE 1
           d == IF dataReg = NoByte THEN 0 ELSE 1
           a == available(txBuffer)
           H == \E c \in Contexts : pc[c] = "h_data"
           held == IF H THEN <<popped[CHOOSE c \in Contexts : pc[c] = "h_data"]>> ELSE <<>>
<1>1. /\ gone \in Nat /\ a \in Nat /\ s \in {0, 1} /\ d \in {0, 1} /\ Held \in {0, 1}
      /\ txBuffer \in Rings(Nat)
  BY Counts, NAssumption DEF IInv, TypeOK, Held
<1>2. Out = gone + s + d /\ InTransmitter = s + d
  BY <1>1 DEF Out, InTransmitter
<1>3. Accepted = gone + InTransmitter + Held + a
  BY <1>1, <1>2 DEF Accepted, IInv, TypeOK, TxInv, NoneLost
<1>4. Opt(shiftReg) = Run(gone, s)
  BY <1>1, RunOne DEF Opt, IInv, TxInv, TxInOrder
<1>5. Opt(dataReg) = Run(gone + s, d)
  BY <1>1, RunOne DEF Opt, IInv, TxInv, TxInOrder
<1>6. held = Run(gone + s + d, Held)
  <2>1. H <=> pc["main"] = "h_data" \/ pc["irq"] = "h_data"
    BY DEF Contexts, IInv, TxInv, Preemption
  <2>2. ASSUME H
        PROVE  popped[CHOOSE c \in Contexts : pc[c] = "h_data"] = Out + 1
    BY <2>2 DEF Contexts, IInv, TxInv, Preemption, HandlerAgrees
  <2>3. gone + s + d \in Nat
    BY <1>1
  <2> QED
    BY <1>2, <2>1, <2>2, <2>3, RunOne DEF Held
<1>7. Contents(txBuffer) = Run(gone + s + d + Held, a)
  <2>1. HoldsFrom(txBuffer, (gone + s + d + Held) + 1) /\ gone + s + d + Held \in Nat
    BY <1>1, <1>2 DEF IInv, TxInv, NoneLost
  <2> QED
    BY <1>1, <2>1, ContentsRun
<1>8. Pipeline = Joined(Joined(Joined(Run(gone, s), Run(gone + s, d)), Run(gone + s + d, Held)),
                        Run(gone + s + d + Held, a))
  BY <1>4, <1>5, <1>6, <1>7 DEF Pipeline, Joined
<1> HIDE DEF s, d, a
<1>9. Pipeline = Run(gone, s + d + Held + a)
  <2> DEFINE m1 == gone + s
             m2 == gone + s + d
             m3 == gone + s + d + Held
             n2 == s + d
             n3 == s + d + Held
             n4 == s + d + Held + a
  <2>1. /\ s \in Nat /\ d \in Nat /\ Held \in Nat /\ a \in Nat /\ gone \in Nat
        /\ m1 \in Nat /\ m1 = gone + s /\ m2 \in Nat /\ m2 = gone + n2
        /\ m3 \in Nat /\ m3 = gone + n3
        /\ n2 \in Nat /\ n2 = s + d /\ n3 \in Nat /\ n3 = n2 + Held /\ n4 \in Nat
        /\ n4 = n3 + a
    BY <1>1
  <2>2. Pipeline = Joined(Joined(Joined(Run(gone, s), Run(m1, d)), Run(m2, Held)), Run(m3, a))
    BY <1>8
  <2> HIDE DEF m1, m2, m3, n2, n3, n4
  <2>3. Joined(Run(gone, s), Run(m1, d)) = Run(gone, n2)
    BY <2>1, RunConcat
  <2>4. Joined(Run(gone, n2), Run(m2, Held)) = Run(gone, n3)
    BY <2>1, RunConcat
  <2>5. Joined(Run(gone, n3), Run(m3, a)) = Run(gone, n4)
    BY <2>1, RunConcat
  <2>6. Pipeline = Run(gone, n4)
    BY <2>2, <2>3, <2>4, <2>5
  <2> QED
    BY <2>6 DEF n4
<1>10. Accepted - gone = s + d + Held + a
  BY <1>1, <1>2, <1>3
<1> QED
  BY <1>1, <1>3, <1>9, <1>10 DEF PipelineRun, a

\* A step that changes neither what has been accepted nor what is gone.
QueueQuiet == UNCHANGED <<gone, nWritten>> /\ (Pending' <=> Pending)

\* Every step but these is quiet.
LEMMA QueueCases ==
    ASSUME IInv, [Next]_vars
    PROVE  QueueQuiet \/ CallWrite \/ WriteDirect("main") \/ WritePublish("main")
           \/ Begin \/ End \/ Shift
<1> USE DEF IInv, TypeOK, TxInv, Preemption, Handlers, Contexts, At, Goto, Runs, QueueQuiet,
            Pending, HandlerSteps, txRegs
<1>1. ASSUME WriteCheckDre("main") \/ WriteCheckAvailable("main") \/ WriteRoom("main")
             \/ WritePoll("main")
      PROVE  QueueQuiet
  BY <1>1 DEF WriteCheckDre, WriteCheckAvailable, WriteRoom, WritePoll
<1>2. ASSUME WriteEnable("main")
      PROVE  QueueQuiet
  BY <1>2 DEF WriteEnable, Return
<1>7. ASSUME WriteStore("main")
      PROVE  QueueQuiet
  <2>1. pc["main"] = "w_store" /\ ~isFull(txBuffer)
    BY <1>7 DEF WriteStore, WriterAgrees
  <2> QED
    BY <1>7, <2>1 DEF WriteStore
<1>3. ASSUME NEW c \in Handlers, HandlerStep(c)
      PROVE  QueueQuiet
  BY <1>3
     DEF HandlerStep, HandleFrameError, HandleReceive, HandleTransmit, HandleTail, HandleData,
         HandleDisable, HandleError, WriteData
<1>4. ASSUME IrqEnter \/ RoomCompare \/ RoomSpace
      PROVE  QueueQuiet
  BY <1>4 DEF IrqEnter, RoomCompare, RoomSpace
<1>8. ASSUME Arrive \/ UNCHANGED vars
      PROVE  QueueQuiet
  BY <1>8 DEF Arrive, vars
<1>5. ASSUME FlushStep \/ ReadStep
      PROVE  QueueQuiet
  BY <1>5 DEF FlushStep, FlushWait, FlushCheckDre, FlushComplete, ReadStep, ReadLoad, ReadTail,
    ReadCompare, ReadSpace, ReadAssert
<1>6. ASSUME CallRead \/ CallFlush \/ CallAvailableForWrite
      PROVE  QueueQuiet
  BY <1>6 DEF CallRead, CallFlush, CallAvailableForWrite, Call
<1> QED
  BY <1>1, <1>2, <1>3, <1>4, <1>5, <1>6, <1>7, <1>8
     DEF Next, MainStep, MainCall, IrqStep, WriteStep

\* What the steps do to the numbers of bytes accepted and gone.
LEMMA QueueNumbers ==
    ASSUME IInv, PipelineRun, [Next]_vars
    PROVE  \/ gone' = gone /\ Accepted' = Accepted
           \/ gone' = gone /\ Accepted' = Accepted + 1 /\ Accepted - gone < N + 1
           \/ gone' = gone + 1 /\ Accepted' = Accepted /\ Accepted - gone > 0
           \/ /\ Accepted' = Accepted
              /\ \E k \in 1 .. Accepted - gone : gone' = gone + k
<1>0. /\ gone \in Nat /\ nWritten \in Nat /\ available(txBuffer) \in 0 .. N - 1 /\ N \in Nat
      /\ Held \in {0, 1} /\ InTransmitter \in 0 .. 2 /\ Accepted - gone \in Nat
      /\ Accepted = gone + InTransmitter + Held + available(txBuffer) /\ Accepted \in Int
  BY Counts, NAssumption DEF IInv, TypeOK, Held, InTransmitter, PipelineRun, Accepted
<1>1. CASE QueueQuiet
  BY <1>1 DEF QueueQuiet, Accepted
<1>2. CASE CallWrite
  <2>1. gone' = gone /\ nWritten' = nWritten + 1 /\ ~Pending /\ Pending'
    BY <1>2 DEF CallWrite, At, Goto, txRegs, Pending, HandlerSteps, IInv, TypeOK, Contexts
  <2> QED
    BY <1>0, <2>1 DEF Accepted
<1>3. CASE WriteDirect("main")
  <2>1. gone' = gone /\ nWritten' = nWritten /\ Pending /\ ~Pending'
    BY <1>3 DEF WriteDirect, WriteData, Return, At, Goto, Pending, HandlerSteps, IInv, TypeOK,
      Contexts
  <2>2. Accepted' = Accepted + 1
    BY <1>0, <2>1 DEF Accepted
  <2>3. dataReg = NoByte /\ available(txBuffer) = 0 /\ Held = 0
    BY <1>3
       DEF WriteDirect, WriteData, DRE, At, Runs, Held, IInv, TxInv, WriterAgrees, NothingLeft
  <2>4. InTransmitter \in 0 .. 1
    BY <2>3 DEF InTransmitter
  <2> QED
    BY <1>0, <2>1, <2>2, <2>3, <2>4
<1>4. CASE WritePublish("main")
  <2>1. gone' = gone /\ nWritten' = nWritten /\ Pending /\ ~Pending'
    BY <1>4 DEF WritePublish, At, Goto, Pending, HandlerSteps, txRegs, IInv, TypeOK, Contexts
  <2>2. Accepted' = Accepted + 1
    BY <1>0, <2>1 DEF Accepted
  <2>3. ~isFull(txBuffer) /\ Held = 0
    BY <1>4 DEF WritePublish, At, Runs, Held, IInv, TxInv, WriterAgrees
  <2>4. available(txBuffer) # N - 1
    BY <2>3, Counts DEF IInv, TypeOK
  <2> QED
    BY <1>0, <2>1, <2>2, <2>3, <2>4
<1>5. CASE Begin \/ End
  <2>1. (Pending' <=> Pending) /\ nWritten' = nWritten
    BY <1>5 DEF Begin, End, Pending
  <2>2. Accepted' = Accepted
    BY <2>1 DEF Accepted
  <2>3. gone' = gone + InTransmitter \/ gone' = gone + InTransmitter + available(txBuffer)
    BY <1>0, <1>5 DEF Begin, End, ResetUART
  <2>4. gone' - gone \in 0 .. Accepted - gone /\ gone' = gone + (gone' - gone)
    BY <1>0, <2>3
  <2> QED
    BY <1>0, <2>2, <2>4
<1>6. CASE Shift
  <2>1. /\ nWritten' = nWritten /\ (Pending' <=> Pending)
        /\ gone' = IF shiftReg = NoByte THEN gone ELSE gone + 1
    BY <1>6 DEF Shift, Pending
  <2>2. shiftReg # NoByte => InTransmitter >= 1
    BY DEF InTransmitter
  <2> QED
    BY <1>0, <2>1, <2>2 DEF Accepted
<1> QED
  BY <1>1, <1>2, <1>3, <1>4, <1>5, <1>6, QueueCases

\* Every step of the port is a step of the bounded queue, or none.
LEMMA QueueStep ==
    ASSUME IInv, PipelineRun, PipelineRun', [Next]_vars
    PROVE  [Queue!Next]_<<Pipeline, Accepted>>
<1> DEFINE n == Accepted - gone
<1>0. /\ gone \in Nat /\ n \in Nat /\ Accepted \in Int /\ Pipeline = Run(gone, n)
      /\ Pipeline' = Run(gone', Accepted' - gone')
  <2>1. gone \in Nat /\ n \in Nat /\ Pipeline = Run(gone, n)
    BY DEF PipelineRun
  <2>2. Pipeline' = Run(gone', Accepted' - gone')
    BY DEF PipelineRun, Run
  <2>3. Accepted \in Int
    BY DEF Accepted, IInv, TypeOK
  <2> QED
    BY <2>1, <2>2, <2>3
<1>a. Accepted = gone + n
  BY <1>0
<1> HIDE DEF n
<1>b. Len(Pipeline) = n
  <2>1. Len(Run(gone, n)) = n
    BY <1>0, RunFacts
  <2> QED
    BY <1>0, <2>1
<1>1. /\ gone \in Nat /\ n \in Nat /\ Pipeline = Run(gone, n) /\ Len(Pipeline) = n
      /\ Pipeline' = Run(gone', Accepted' - gone') /\ Accepted = gone + n /\ Accepted \in Nat
  BY <1>0, <1>a, <1>b
<1>2. CASE gone' = gone /\ Accepted' = Accepted
  BY <1>1, <1>2 DEF n
<1>3. CASE gone' = gone /\ Accepted' = Accepted + 1 /\ n < N + 1
  <2>1. Accepted' - gone' = n + 1 /\ Accepted + 1 = gone + n + 1
    BY <1>1, <1>3
  <2>2. Pipeline' = Append(Pipeline, Accepted + 1)
    <3>1. Append(Run(gone, n), gone + n + 1) = Run(gone, n + 1)
      BY <1>1, RunSteps
    <3>2. Pipeline' = Run(gone, n + 1)
      BY <1>1, <1>3, <2>1
    <3> QED
      BY <1>1, <2>1, <3>1, <3>2
  <2> QED
    BY <1>1, <1>3, <2>2 DEF Queue!Next, Queue!Put
<1>4. CASE gone' = gone + 1 /\ Accepted' = Accepted /\ n > 0
  <2>1. Accepted' - gone' = n - 1
    BY <1>1, <1>4
  <2>2. Pipeline # <<>> /\ Pipeline' = Tail(Pipeline)
    <3>1. Run(gone, n) # <<>> /\ Tail(Run(gone, n)) = Run(gone + 1, n - 1)
      BY <1>1, <1>4, RunSteps
    <3>2. Pipeline' = Run(gone + 1, n - 1)
      BY <1>1, <1>4, <2>1
    <3> QED
      BY <1>1, <3>1, <3>2
  <2> QED
    BY <1>4, <2>2 DEF Queue!Next, Queue!Take
<1>5. CASE Accepted' = Accepted /\ \E k \in 1 .. n : gone' = gone + k
  <2>1. PICK k \in 1 .. n : gone' = gone + k
    BY <1>5
  <2>2. Accepted' - gone' = n - k
    BY <1>1, <1>5, <2>1
  <2>3. Pipeline' = SubSeq(Pipeline, k + 1, Len(Pipeline))
    <3>1. SubSeq(Run(gone, n), k + 1, Len(Run(gone, n))) = Run(gone + k, n - k)
      BY <1>1, <2>1, RunSteps
    <3>2. Pipeline' = Run(gone + k, n - k)
      BY <1>1, <2>1, <2>2
    <3> QED
      BY <1>1, <3>1, <3>2
  <2> QED
    BY <1>1, <1>5, <2>1, <2>3 DEF Queue!Next, Queue!Discard
<1> QED
  BY <1>2, <1>3, <1>4, <1>5, QueueNumbers DEF n

\* The port is a bounded first-in first-out queue of the bytes written, for every
\* size of the ring: the two registers, the byte IrqHandler has in its hand and
\* the ring together hold the bytes accepted and not yet gone, in their order.
THEOREM PortIsQueue == Spec => QueueSpec
<1>1. Init => Queue!Init
  <2> SUFFICES ASSUME Init PROVE Queue!Init
    OBVIOUS
  <2>1. PipelineRun /\ gone = 0
    BY InitInv, PipelineHolds DEF Init
  <2>2. Accepted = 0
    <3>1. ~Pending /\ nWritten = 0
      BY DEF Init, Pending, HandlerSteps, Contexts
    <3>2. Accepted = nWritten - 0
      BY <3>1 DEF Accepted
    <3> QED
      BY <3>1, <3>2
  <2>3. Pipeline = Run(0, 0)
    BY <2>1, <2>2 DEF PipelineRun
  <2> QED
    BY <2>2, <2>3, RunOne DEF Queue!Init
<1>2. IInv => PipelineRun
  BY PipelineHolds
<1>3. IInv /\ PipelineRun /\ PipelineRun' /\ [Next]_vars => [Queue!Next]_<<Pipeline, Accepted>>
  BY QueueStep
<1> QED
  BY <1>1, <1>2, <1>3, Invariance, PTL DEF Spec, QueueSpec, Queue!Spec
=============================================================================

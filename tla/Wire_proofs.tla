------------------------------ MODULE Wire_proofs ------------------------------
(***************************************************************************)
(* The slave hands each transfer over whole and answers each request with  *)
(* its own reply, for every size of the rings and every number of          *)
(* transfers and bytes.                                                    *)
(***************************************************************************)
EXTENDS Wire, SequenceTheorems, TLAPS

USE DEF buffers, calls, flags, slave, counts

(***************************************************************************)
(* The inductive invariant.                                                *)
(***************************************************************************)
Writing == {"address_w", "write", "data_w"}
Reading == {"address_r", "data_r"}

\* Which flags the slave's SERCOM can show in each phase of the master.
BusInv ==
    /\ mpc \in Writing => ~DIR /\ owner
    /\ mpc \in Reading => DIR /\ owner
    /\ AMATCH => mpc \in {"address_w", "address_r"}
    /\ mpc = "address_r" => AMATCH
    /\ PREC => mpc = "idle" \/ AMATCH
    /\ mpc = "write" => ~DRDY
    /\ DRDY /\ ~DIR => mpc = "data_w" \/ AMATCH
    /\ mpc \in Reading => wanted >= 1

\* What the master has still to send: the bytes of this transfer from the
\* first that is not acknowledged on.
Unsent(n) == \A k \in 1 .. Len(txBuffer) : txBuffer[k] = [transfer |-> transfers, place |-> n + k]

MasterInv ==
    /\ mpc \in Writing => lastWrite = transfers
    /\ mpc = "address_w" => Unsent(0) /\ acked = 0
    /\ mpc = "write" => Unsent(acked)
    /\ mpc = "data_w" => Unsent(acked + 1) /\ (DRDY => line = [transfer |-> transfers, place |-> acked + 1])
    /\ lastWrite <= transfers /\ lastRead <= transfers
    /\ mpc \in Reading => lastRead = transfers

\* The slave has the acknowledged bytes of the transfer under way, or those of
\* an earlier one until it sees the stop or the restart behind it: if it does.
Received(n) == Len(slaveRx) = n /\ \A k \in 1 .. n : slaveRx[k] = [transfer |-> lastWrite, place |-> k]

SlaveInv == ~abandoned =>
    /\ \A k \in 1 .. Len(slaveRx) :
           /\ slaveRx[k] = [transfer |-> slaveRx[1].transfer, place |-> k]
           /\ slaveRx[k].transfer <= lastWrite
    /\ mpc = "idle" /\ slaveRx # <<>> => owner \/ PREC
    /\ mpc = "address_w" /\ slaveRx # <<>> => AMATCH /\ (SR \/ PREC)
    /\ mpc = "address_w" /\ AMATCH => \A k \in 1 .. Len(slaveRx) : slaveRx[k].transfer < lastWrite
    /\ mpc = "write" => Received(acked)
    /\ mpc = "data_w" => IF DRDY \/ nack THEN Received(acked) ELSE Received(acked + 1)
    /\ mpc \in {"idle"} \cup Reading /\ slaveRx # <<>> /\ slaveRx[1].transfer = lastWrite
           => Len(slaveRx) = acked

\* The n-th byte that a request reads, and a buffer with those from the n-th on,
\* when the callback has written length bytes.
ReplyByte(transfer, length, n) ==
    IF n <= length THEN [transfer |-> transfer, place |-> n] ELSE Filler

RestOfReply(ring, transfer, length, n) ==
    /\ Len(ring) = IF n <= length THEN length - n + 1 ELSE 0
    /\ \A k \in 1 .. Len(ring) : ring[k] = ReplyByte(transfer, length, n + k - 1)

ReplyInv ==
    /\ ~late => \A k \in 1 .. Len(rxBuffer) : rxBuffer[k] = ReplyByte(lastRead, replied, k)
    /\ mpc = "address_r" => rxBuffer = <<>> /\ (~late => ~PREC)
    /\ mpc = "data_r" /\ ~late /\ Len(rxBuffer) < Capacity =>
        IF DRDY THEN RestOfReply(slaveTx, lastRead, replied, Len(rxBuffer) + 1)
        ELSE /\ line = ReplyByte(lastRead, replied, Len(rxBuffer) + 1)
             /\ RestOfReply(slaveTx, lastRead, replied, Len(rxBuffer) + 2)

IInv == TypeOK /\ BusInv /\ MasterInv /\ SlaveInv /\ ReplyInv

-----------------------------------------------------------------------------
\* The sequences of the state, as functions.
LEMMA Types ==
    ASSUME TypeOK
    PROVE  /\ txBuffer \in Seq(Byte) /\ rxBuffer \in Seq(Byte)
           /\ slaveTx \in Seq(Byte) /\ slaveRx \in Seq(Byte)
           /\ Len(txBuffer) \in Nat /\ Len(rxBuffer) \in 0 .. Capacity
           /\ Len(slaveTx) \in Nat /\ Len(slaveRx) \in 0 .. Capacity
           /\ transfers \in Nat /\ acked \in Nat /\ lastWrite \in Nat /\ lastRead \in Nat
  BY DEF TypeOK, Ring

LEMMA EmptyRing == Len(<<>>) = 0 /\ \A n \in Nat : <<>> \in Ring(n)
  BY EmptySeq DEF Ring

LEMMA FillerIsByte == Filler \in Byte
  BY DEF Filler, Byte

\* Taking the first byte of a ring.
LEMMA Taken ==
    ASSUME NEW n \in Nat, NEW r \in Ring(n), r # <<>>
    PROVE  /\ Tail(r) \in Ring(n) /\ Len(Tail(r)) = Len(r) - 1 /\ Len(r) \in Nat /\ Len(r) >= 1
           /\ Head(r) = r[1] /\ Head(r) \in Byte
           /\ \A k \in 1 .. Len(r) - 1 : Tail(r)[k] = r[k + 1]
<1>1. r \in Seq(Byte) /\ Len(r) <= n
  BY DEF Ring
<1>2. /\ Tail(r) \in Seq(Byte) /\ Len(Tail(r)) = Len(r) - 1 /\ Len(r) \in Nat
      /\ Head(r) = r[1] /\ Head(r) \in Byte
      /\ \A k \in 1 .. Len(r) - 1 : Tail(r)[k] = r[k + 1]
  BY <1>1, HeadTailProperties
<1>3. Len(r) >= 1 /\ Len(r) - 1 <= n
  BY <1>1, <1>2, EmptySeq
<1> QED
  BY <1>2, <1>3 DEF Ring

LEMMA ElementOfRing == ASSUME NEW n, NEW r \in Ring(n), NEW k \in 1 .. Len(r) PROVE r[k] \in Byte
  BY ElementOfSeq DEF Ring

\* store_char keeps what is in the ring and adds what fits.
LEMMA StoredIs ==
    ASSUME NEW r \in Ring(Capacity), NEW b \in Byte
    PROVE  /\ Stored(r, b) \in Ring(Capacity)
           /\ Len(r) = Capacity => Stored(r, b) = r
           /\ Len(r) # Capacity =>
                /\ Len(Stored(r, b)) = Len(r) + 1 /\ Stored(r, b)[Len(r) + 1] = b
                /\ \A k \in 1 .. Len(r) : Stored(r, b)[k] = r[k]
<1>1. CASE Len(r) = Capacity
  BY <1>1 DEF Stored, Full
<1>2. CASE Len(r) # Capacity
  <2>1. Stored(r, b) = Append(r, b) /\ r \in Seq(Byte) /\ Len(r) \in Nat /\ Len(r) < Capacity
    BY <1>2, WireAssumption DEF Stored, Full, Ring
  <2>2. /\ Append(r, b) \in Seq(Byte) /\ Len(Append(r, b)) = Len(r) + 1
        /\ \A k \in 1 .. Len(r) : Append(r, b)[k] = r[k]
        /\ Append(r, b)[Len(r) + 1] = b
    BY <2>1, AppendProperties
  <2> QED
    BY <1>2, <2>1, <2>2, WireAssumption DEF Ring
<1> QED
  BY <1>1, <1>2

\* onService sends the next byte of the reply, and 0xff after the last.
LEMMA TakenFromReply ==
    ASSUME NEW ring \in Seq(Byte), NEW transfer, NEW length \in Nat, NEW n \in Nat \ {0},
           RestOfReply(ring, transfer, length, n)
    PROVE  /\ ring = <<>> => /\ ReplyByte(transfer, length, n) = Filler
                             /\ RestOfReply(ring, transfer, length, n + 1)
           /\ ring # <<>> => /\ Head(ring) = ReplyByte(transfer, length, n)
                             /\ RestOfReply(Tail(ring), transfer, length, n + 1)
<1>1. CASE ring = <<>>
  BY <1>1 DEF RestOfReply, ReplyByte
<1>2. CASE ring # <<>>
  <2>1. /\ Len(Tail(ring)) = Len(ring) - 1 /\ Head(ring) = ring[1]
        /\ \A k \in 1 .. Len(ring) - 1 : Tail(ring)[k] = ring[k + 1]
        /\ Len(ring) \in Nat /\ Len(ring) >= 1
    <3>1. Len(ring) \in Nat /\ ring \in Ring(Len(ring))
      BY LenProperties DEF Ring
    <3> QED
      BY <1>2, <3>1
  <2>2. n <= length /\ Len(ring) = length - n + 1
    BY <2>1 DEF RestOfReply
  <2>3. \A k \in 1 .. Len(ring) : ring[k] = [transfer |-> transfer, place |-> n + k - 1]
    BY <2>1, <2>2 DEF RestOfReply, ReplyByte
  <2>a. length - n = IF n + 1 <= length THEN length - (n + 1) + 1 ELSE 0
    BY <2>2
  <2>4. Len(Tail(ring)) = IF n + 1 <= length THEN length - (n + 1) + 1 ELSE 0
    <3>1. Len(Tail(ring)) = length - n
      BY <2>1, <2>2
    <3> QED
      BY <2>a, <3>1
  <2>5. ASSUME NEW k \in 1 .. Len(Tail(ring))
        PROVE  Tail(ring)[k] = ReplyByte(transfer, length, (n + 1) + k - 1)
    <3>1. k + 1 \in 1 .. Len(ring) /\ n + (k + 1) - 1 = (n + 1) + k - 1 /\ k \in 1 .. Len(ring) - 1
      BY <2>1
    <3>2. Tail(ring)[k] = [transfer |-> transfer, place |-> (n + 1) + k - 1]
      BY <2>1, <2>3, <3>1
    <3>3. (n + 1) + k - 1 <= length
      BY <2>2, <3>1
    <3> QED
      BY <3>2, <3>3 DEF ReplyByte
  <2>6. Head(ring) = ReplyByte(transfer, length, n)
    BY <2>1, <2>2, <2>3 DEF ReplyByte
  <2> QED
    BY <1>2, <2>4, <2>5, <2>6 DEF RestOfReply
<1> QED
  BY <1>1, <1>2

\* store_char adds the next byte of the reply to those before it.
LEMMA StoredReply ==
    ASSUME NEW ring \in Seq(Byte), NEW next \in Seq(Byte), NEW transfer, NEW length \in Nat,
           Len(next) = Len(ring) + 1, \A k \in 1 .. Len(ring) : next[k] = ring[k],
           \A k \in 1 .. Len(ring) : ring[k] = ReplyByte(transfer, length, k),
           next[Len(ring) + 1] = ReplyByte(transfer, length, Len(ring) + 1)
    PROVE  \A k \in 1 .. Len(next) : next[k] = ReplyByte(transfer, length, k)
<1>1. Len(ring) \in Nat
  BY LenProperties
<1>2. \A k \in 1 .. Len(next) : k \in 1 .. Len(ring) \/ k = Len(ring) + 1
  BY <1>1
<1> QED
  BY <1>2

LEMMA InitIInv == Init => IInv
<1> SUFFICES ASSUME Init PROVE IInv
  OBVIOUS
<1>1. TypeOK
  <2>1. /\ txBuffer \in Ring(TxCapacity) /\ rxBuffer \in Ring(Capacity)
        /\ slaveTx \in Ring(Capacity) /\ slaveRx \in Ring(Capacity)
    BY EmptyRing, WireAssumption DEF Init
  <2>2. 0 \in 0 .. MaxQuantity /\ 0 \in 0 .. Capacity
    BY WireAssumption
  <2> QED
    BY <2>1, <2>2, FillerIsByte DEF Init, TypeOK
<1> QED
  BY <1>1 DEF Init, IInv, BusInv, MasterInv, SlaveInv, ReplyInv, Writing, Reading

LEMMA BeginTransmissionStep == IInv /\ BeginTransmission => IInv'
<1> SUFFICES ASSUME IInv, BeginTransmission PROVE IInv'
  OBVIOUS
<1>1. TypeOK'
  BY WireAssumption DEF IInv, BeginTransmission, TypeOK, Ring
<1>2. BusInv'
  BY DEF IInv, BeginTransmission, BusInv
<1>3. MasterInv'
  BY DEF IInv, BeginTransmission, MasterInv
<1>4. SlaveInv'
  BY DEF IInv, BeginTransmission, SlaveInv
<1>5. ReplyInv'
  BY DEF IInv, BeginTransmission, ReplyInv
<1> QED
  BY <1>1, <1>2, <1>3, <1>4, <1>5 DEF IInv

LEMMA WriteStep == IInv /\ Write => IInv'
<1> SUFFICES ASSUME IInv, Write PROVE IInv'
  OBVIOUS
<1>1. TypeOK'
  BY WireAssumption DEF IInv, Write, TypeOK, Ring, Byte
<1>2. BusInv'
  BY DEF IInv, Write, BusInv
<1>3. MasterInv'
  BY DEF IInv, Write, MasterInv
<1>4. SlaveInv'
  BY DEF IInv, Write, SlaveInv
<1>5. ReplyInv'
  BY DEF IInv, Write, ReplyInv
<1> QED
  BY <1>1, <1>2, <1>3, <1>4, <1>5 DEF IInv

\* endTransmission numbers its bytes without a change to how many there are.
LEMMA NumberedIs ==
    ASSUME NEW n \in Nat, NEW ring \in Ring(n), transfers \in Nat
    PROVE  /\ Numbered(ring) \in Ring(n) /\ Len(Numbered(ring)) = Len(ring)
           /\ \A k \in 1 .. Len(ring) :
                  Numbered(ring)[k] = [transfer |-> transfers + 1, place |-> k]
<1>1. Len(ring) \in Nat /\ Len(ring) <= n /\ DOMAIN ring = 1 .. Len(ring)
  BY LenProperties DEF Ring
<1>2. Numbered(ring) = [k \in 1 .. Len(ring) |-> [transfer |-> transfers + 1, place |-> k]]
  BY <1>1 DEF Numbered
<1>3. Numbered(ring) \in [1 .. Len(ring) -> Byte]
  BY <1>1, <1>2 DEF Byte
<1>4. Numbered(ring) \in Seq(Byte)
  BY <1>1, <1>3, SeqDef
<1>5. Len(Numbered(ring)) = Len(ring)
  BY <1>1, <1>3, <1>4
<1> QED
  BY <1>1, <1>2, <1>4, <1>5 DEF Ring

LEMMA EndTransmissionStep ==
    ASSUME NEW stop \in BOOLEAN, IInv, EndTransmission(stop) PROVE IInv'
<1>a. /\ txBuffer' \in Ring(TxCapacity) /\ Len(txBuffer') = Len(txBuffer)
      /\ \A k \in 1 .. Len(txBuffer) : txBuffer'[k] = [transfer |-> transfers + 1, place |-> k]
  BY NumberedIs, WireAssumption DEF IInv, TypeOK, EndTransmission
<1>1. TypeOK'
  <2>1. /\ txBuffer' \in Ring(TxCapacity) /\ rxBuffer' \in Ring(Capacity)
        /\ slaveTx' \in Ring(Capacity) /\ slaveRx' \in Ring(Capacity)
    BY <1>a DEF IInv, TypeOK, EndTransmission
  <2>2. /\ transmissionBegun' \in BOOLEAN /\ stopBit' \in BOOLEAN /\ owner' \in BOOLEAN
        /\ PREC' \in BOOLEAN /\ AMATCH' \in BOOLEAN /\ DRDY' \in BOOLEAN /\ SR' \in BOOLEAN
        /\ DIR' \in BOOLEAN /\ nack' \in BOOLEAN /\ late' \in BOOLEAN /\ abandoned' \in BOOLEAN
    BY DEF IInv, TypeOK, EndTransmission, Start
  <2>3. /\ mpc' \in {"idle", "address_w", "write", "data_w", "address_r", "data_r"}
        /\ wanted' \in 0 .. MaxQuantity /\ line' \in Byte
        /\ transfers' \in Nat /\ lastWrite' \in Nat /\ lastRead' \in Nat /\ acked' \in Nat
        /\ replied' \in 0 .. Capacity
    BY DEF IInv, TypeOK, EndTransmission, Start
  <2> QED
    BY <2>1, <2>2, <2>3 DEF TypeOK
<1>2. BusInv'
  BY DEF EndTransmission, Start, BusInv, Reading
<1>3. MasterInv'
  <2>1. /\ transfers' = transfers + 1 /\ lastWrite' = transfers + 1 /\ acked' = 0
        /\ mpc' = "address_w" /\ UNCHANGED lastRead
    BY DEF EndTransmission, Start
  <2>2. Unsent(0)'
    BY <1>a, <2>1 DEF Unsent
  <2>3. lastRead' <= transfers' /\ lastWrite' <= transfers'
    BY <2>1, Types DEF IInv, MasterInv
  <2> QED
    BY <2>1, <2>2, <2>3 DEF MasterInv, Reading
<1>4. SlaveInv'
  <2>0. SUFFICES ASSUME ~abandoned PROVE SlaveInv'
    BY DEF EndTransmission, SlaveInv
  <2>1. slaveRx # <<>> => SR' \/ PREC'
    BY <2>0 DEF IInv, SlaveInv, EndTransmission, Start
  <2>2. \A k \in 1 .. Len(slaveRx) : slaveRx[k].transfer < lastWrite'
    <3>1. \A k \in 1 .. Len(slaveRx) : slaveRx[k] \in Byte /\ slaveRx[k].transfer <= lastWrite
      BY <2>0, ElementOfRing DEF IInv, TypeOK, SlaveInv
    <3>2. \A k \in 1 .. Len(slaveRx) : slaveRx[k].transfer \in Nat
      BY <3>1 DEF Byte
    <3>3. lastWrite \in Nat /\ transfers \in Nat /\ lastWrite <= transfers /\ lastWrite' = transfers + 1
      BY DEF IInv, TypeOK, MasterInv, EndTransmission
    <3> QED
      BY <3>1, <3>2, <3>3
  <2>3. mpc' = "address_w" /\ AMATCH' /\ UNCHANGED slaveRx
    BY DEF EndTransmission, Start
  <2> QED
    <3>1. \A k \in 1 .. Len(slaveRx) : slaveRx[k] \in Byte
      BY ElementOfRing DEF IInv, TypeOK
    <3>2. \A k \in 1 .. Len(slaveRx) : slaveRx[k].transfer <= lastWrite'
      <4>1. lastWrite' \in Nat /\ \A k \in 1 .. Len(slaveRx) : slaveRx[k].transfer \in Nat
        BY <3>1 DEF Byte, IInv, TypeOK, EndTransmission
      <4> QED
        BY <2>2, <4>1
    <3>3. \A k \in 1 .. Len(slaveRx) : slaveRx[k] = [transfer |-> slaveRx[1].transfer, place |-> k]
      BY <2>0 DEF IInv, SlaveInv
    <3> QED
      BY <2>0, <2>1, <2>2, <2>3, <3>2, <3>3 DEF SlaveInv, Reading
<1>5. ReplyInv'
  BY DEF IInv, EndTransmission, ReplyInv
<1> QED
  BY <1>1, <1>2, <1>3, <1>4, <1>5 DEF IInv

LEMMA EndTransmissionAloneStep == IInv /\ EndTransmissionAlone => IInv'
<1> SUFFICES ASSUME IInv, EndTransmissionAlone PROVE IInv'
  OBVIOUS
<1>a. PREC' \in BOOLEAN /\ (PREC => PREC') /\ abandoned' \in BOOLEAN
  BY DEF IInv, TypeOK, EndTransmissionAlone, NoAnswer
<1>1. TypeOK'
  BY <1>a DEF IInv, EndTransmissionAlone, NoAnswer, TypeOK
<1>2. BusInv'
  BY DEF IInv, EndTransmissionAlone, NoAnswer, BusInv, Writing, Reading
<1>3. MasterInv'
  BY DEF IInv, EndTransmissionAlone, MasterInv, Writing, Reading
<1>4. SlaveInv'
  BY <1>a DEF IInv, TypeOK, EndTransmissionAlone, NoAnswer, SlaveInv
<1>5. ReplyInv'
  BY DEF IInv, EndTransmissionAlone, ReplyInv
<1> QED
  BY <1>1, <1>2, <1>3, <1>4, <1>5 DEF IInv

LEMMA RequestFromAloneStep == IInv /\ RequestFromAlone => IInv'
<1> SUFFICES ASSUME IInv, RequestFromAlone PROVE IInv'
  OBVIOUS
<1>a. PREC' \in BOOLEAN /\ (PREC => PREC') /\ abandoned' \in BOOLEAN
  BY DEF IInv, TypeOK, RequestFromAlone, NoAnswer
<1>1. TypeOK'
  BY <1>a, EmptyRing, WireAssumption DEF IInv, RequestFromAlone, NoAnswer, TypeOK
<1>2. BusInv'
  BY DEF IInv, RequestFromAlone, NoAnswer, BusInv, Writing, Reading
<1>3. MasterInv'
  BY DEF IInv, RequestFromAlone, MasterInv, Writing, Reading
<1>4. SlaveInv'
  BY <1>a DEF IInv, TypeOK, RequestFromAlone, NoAnswer, SlaveInv
<1>5. ReplyInv'
  BY EmptyRing DEF IInv, RequestFromAlone, ReplyInv
<1> QED
  BY <1>1, <1>2, <1>3, <1>4, <1>5 DEF IInv

LEMMA AddressSentStep == IInv /\ AddressSent => IInv'
<1> SUFFICES ASSUME IInv, AddressSent PROVE IInv'
  OBVIOUS
<1>1. TypeOK'
  BY DEF IInv, AddressSent, TypeOK
<1>2. BusInv'
  BY DEF IInv, AddressSent, Held, BusInv, Writing, Reading
<1>3. MasterInv'
  BY DEF IInv, AddressSent, MasterInv, Writing, Reading, Unsent
<1>4. SlaveInv'
  BY DEF IInv, AddressSent, Held, SlaveInv, MasterInv, Received
<1>5. ReplyInv'
  BY DEF IInv, AddressSent, ReplyInv
<1> QED
  BY <1>1, <1>2, <1>3, <1>4, <1>5 DEF IInv

LEMMA SendByteStep == IInv /\ SendByte => IInv'
<1> SUFFICES ASSUME IInv, SendByte PROVE IInv'
  OBVIOUS
<1>a. /\ Tail(txBuffer) \in Ring(TxCapacity) /\ Len(Tail(txBuffer)) = Len(txBuffer) - 1
      /\ \A k \in 1 .. Len(txBuffer) - 1 : Tail(txBuffer)[k] = txBuffer[k + 1]
      /\ Head(txBuffer) = txBuffer[1] /\ Head(txBuffer) \in Byte /\ Len(txBuffer) >= 1
  BY Taken, WireAssumption DEF IInv, TypeOK, SendByte
<1>1. TypeOK'
  <2>1. /\ txBuffer' \in Ring(TxCapacity) /\ rxBuffer' \in Ring(Capacity)
        /\ slaveTx' \in Ring(Capacity) /\ slaveRx' \in Ring(Capacity)
    BY <1>a DEF IInv, TypeOK, SendByte
  <2>2. /\ transmissionBegun' \in BOOLEAN /\ stopBit' \in BOOLEAN /\ owner' \in BOOLEAN
        /\ PREC' \in BOOLEAN /\ AMATCH' \in BOOLEAN /\ DRDY' \in BOOLEAN /\ SR' \in BOOLEAN
        /\ DIR' \in BOOLEAN /\ nack' \in BOOLEAN /\ late' \in BOOLEAN /\ abandoned' \in BOOLEAN
    BY DEF IInv, TypeOK, SendByte
  <2>3. /\ mpc' \in {"idle", "address_w", "write", "data_w", "address_r", "data_r"}
        /\ wanted' \in 0 .. MaxQuantity /\ line' \in Byte
        /\ transfers' \in Nat /\ lastWrite' \in Nat /\ lastRead' \in Nat /\ acked' \in Nat
        /\ replied' \in 0 .. Capacity
    BY <1>a DEF IInv, TypeOK, SendByte
  <2> QED
    BY <2>1, <2>2, <2>3 DEF TypeOK
<1>2. BusInv'
  BY DEF IInv, SendByte, BusInv, Writing, Reading
<1>3. MasterInv'
  <2>1. /\ mpc = "write" /\ mpc' = "data_w"
        /\ UNCHANGED <<transfers, acked, lastWrite, lastRead>>
        /\ line' = Head(txBuffer) /\ txBuffer' = Tail(txBuffer)
    BY DEF SendByte
  <2>2. Len(txBuffer) \in Nat /\ acked \in Nat
    BY Types DEF IInv
  <2>3. \A k \in 1 .. Len(txBuffer) : txBuffer[k] = [transfer |-> transfers, place |-> acked + k]
    BY <2>1 DEF IInv, MasterInv, Unsent
  <2>4. line' = [transfer |-> transfers, place |-> acked + 1]
    <3>1. 1 \in 1 .. Len(txBuffer)
      BY <1>a, <2>2
    <3> QED
      BY <1>a, <2>1, <2>3, <3>1
  <2>5. \A k \in 1 .. Len(txBuffer) - 1 :
            Tail(txBuffer)[k] = [transfer |-> transfers, place |-> acked + 1 + k]
    <3> SUFFICES ASSUME NEW k \in 1 .. Len(txBuffer) - 1
                 PROVE  Tail(txBuffer)[k] = [transfer |-> transfers, place |-> acked + 1 + k]
      OBVIOUS
    <3>1. k + 1 \in 1 .. Len(txBuffer) /\ acked + (k + 1) = acked + 1 + k
      BY <2>2
    <3> QED
      BY <1>a, <2>3, <3>1
  <2>6. lastWrite = transfers /\ lastRead <= transfers /\ lastWrite <= transfers
    BY <2>1 DEF IInv, MasterInv, Writing
  <2> QED
    BY <1>a, <2>1, <2>4, <2>5, <2>6 DEF MasterInv, Unsent, Reading
<1>4. SlaveInv'
  BY DEF IInv, SendByte, SlaveInv, Received
<1>5. ReplyInv'
  BY DEF IInv, SendByte, ReplyInv
<1> QED
  BY <1>1, <1>2, <1>3, <1>4, <1>5 DEF IInv

LEMMA ByteSentStep == IInv /\ ByteSent => IInv'
<1> SUFFICES ASSUME IInv, ByteSent PROVE IInv'
  OBVIOUS
<1>1. TypeOK'
  BY DEF IInv, ByteSent, TypeOK
<1>2. BusInv'
  BY DEF IInv, ByteSent, Held, BusInv, Writing, Reading
<1>3. MasterInv'
  BY DEF IInv, ByteSent, MasterInv, Writing, Reading, Unsent
<1>4. SlaveInv'
  BY DEF IInv, ByteSent, Held, SlaveInv, Received
<1>5. ReplyInv'
  BY DEF IInv, ByteSent, ReplyInv
<1> QED
  BY <1>1, <1>2, <1>3, <1>4, <1>5 DEF IInv

LEMMA ByteRefusedStep == IInv /\ ByteRefused => IInv'
<1> SUFFICES ASSUME IInv, ByteRefused PROVE IInv'
  OBVIOUS
<1>1. TypeOK'
  BY DEF IInv, ByteRefused, Finish, TypeOK
<1>2. BusInv'
  BY DEF ByteRefused, Held, Finish, BusInv, Writing, Reading
<1>3. MasterInv'
  BY DEF IInv, ByteRefused, Finish, MasterInv, Writing, Reading
<1>4. SlaveInv'
  BY DEF IInv, ByteRefused, Finish, SlaveInv, Received
<1>5. ReplyInv'
  BY DEF IInv, ByteRefused, Finish, ReplyInv
<1> QED
  BY <1>1, <1>2, <1>3, <1>4, <1>5 DEF IInv

LEMMA AllSentStep == IInv /\ AllSent => IInv'
<1> SUFFICES ASSUME IInv, AllSent PROVE IInv'
  OBVIOUS
<1>1. TypeOK'
  BY DEF IInv, AllSent, Finish, TypeOK
<1>2. BusInv'
  BY DEF IInv, AllSent, Finish, BusInv, Writing, Reading
<1>3. MasterInv'
  BY DEF IInv, AllSent, Finish, MasterInv, Writing, Reading
<1>4. SlaveInv'
  BY DEF IInv, AllSent, Finish, SlaveInv, Received
<1>5. ReplyInv'
  BY DEF IInv, AllSent, Finish, ReplyInv
<1> QED
  BY <1>1, <1>2, <1>3, <1>4, <1>5 DEF IInv

LEMMA RequestFromStep ==
    ASSUME NEW quantity \in 1 .. MaxQuantity, NEW stop \in BOOLEAN, IInv, RequestFrom(quantity, stop) PROVE IInv'
<1>1. TypeOK'
  <2>1. /\ txBuffer' \in Ring(TxCapacity) /\ rxBuffer' \in Ring(Capacity)
        /\ slaveTx' \in Ring(Capacity) /\ slaveRx' \in Ring(Capacity)
    BY EmptyRing, WireAssumption DEF IInv, TypeOK, RequestFrom
  <2>2. /\ transmissionBegun' \in BOOLEAN /\ stopBit' \in BOOLEAN /\ owner' \in BOOLEAN
        /\ PREC' \in BOOLEAN /\ AMATCH' \in BOOLEAN /\ DRDY' \in BOOLEAN /\ SR' \in BOOLEAN
        /\ DIR' \in BOOLEAN /\ nack' \in BOOLEAN /\ late' \in BOOLEAN /\ abandoned' \in BOOLEAN
    BY DEF IInv, TypeOK, RequestFrom, Start
  <2>3. /\ mpc' \in {"idle", "address_w", "write", "data_w", "address_r", "data_r"}
        /\ wanted' \in 0 .. MaxQuantity /\ line' \in Byte
        /\ transfers' \in Nat /\ lastWrite' \in Nat /\ lastRead' \in Nat /\ acked' \in Nat
        /\ replied' \in 0 .. Capacity
    BY WireAssumption DEF IInv, TypeOK, RequestFrom, Start
  <2> QED
    BY <2>1, <2>2, <2>3 DEF TypeOK
<1>2. BusInv'
  BY DEF RequestFrom, Start, BusInv, Writing
<1>3. MasterInv'
  BY Types DEF IInv, RequestFrom, Start, MasterInv, Writing
<1>4. SlaveInv'
  BY DEF IInv, RequestFrom, SlaveInv
<1>5. ReplyInv'
  BY DEF RequestFrom, Start, ReplyInv
<1> QED
  BY <1>1, <1>2, <1>3, <1>4, <1>5 DEF IInv

LEMMA ReadByteStep == IInv /\ ReadByte => IInv'
<1> SUFFICES ASSUME IInv, ReadByte PROVE IInv'
  OBVIOUS
<1>a. /\ Len(rxBuffer) = Capacity => rxBuffer' = rxBuffer
      /\ Len(rxBuffer) # Capacity =>
           /\ Len(rxBuffer') = Len(rxBuffer) + 1 /\ rxBuffer'[Len(rxBuffer) + 1] = line
           /\ \A k \in 1 .. Len(rxBuffer) : rxBuffer'[k] = rxBuffer[k]
  BY StoredIs DEF IInv, TypeOK, ReadByte
<1>1. TypeOK'
  <2>1. /\ txBuffer' \in Ring(TxCapacity) /\ rxBuffer' \in Ring(Capacity)
        /\ slaveTx' \in Ring(Capacity) /\ slaveRx' \in Ring(Capacity)
    BY StoredIs DEF IInv, TypeOK, ReadByte
  <2>2. /\ transmissionBegun' \in BOOLEAN /\ stopBit' \in BOOLEAN /\ owner' \in BOOLEAN
        /\ PREC' \in BOOLEAN /\ AMATCH' \in BOOLEAN /\ DRDY' \in BOOLEAN /\ SR' \in BOOLEAN
        /\ DIR' \in BOOLEAN /\ nack' \in BOOLEAN /\ late' \in BOOLEAN /\ abandoned' \in BOOLEAN
    BY DEF IInv, TypeOK, ReadByte, Finish
  <2>a. wanted' \in 0 .. MaxQuantity /\ mpc' \in {"idle", "data_r"}
    <3>1. wanted \in 0 .. MaxQuantity /\ wanted >= 1 /\ wanted' = wanted - 1
      BY DEF IInv, TypeOK, BusInv, Reading, ReadByte
    <3>2. mpc' \in {"idle", "data_r"}
      BY DEF ReadByte, Finish
    <3> QED
      BY <3>1, <3>2, WireAssumption
  <2>3. /\ mpc' \in {"idle", "address_w", "write", "data_w", "address_r", "data_r"}
        /\ wanted' \in 0 .. MaxQuantity /\ line' \in Byte
        /\ transfers' \in Nat /\ lastWrite' \in Nat /\ lastRead' \in Nat /\ acked' \in Nat
        /\ replied' \in 0 .. Capacity
    BY <2>a DEF IInv, TypeOK, ReadByte
  <2> QED
    BY <2>1, <2>2, <2>3 DEF TypeOK
<1>2. BusInv'
  <2>1. CASE wanted > 1
    BY <2>1 DEF IInv, ReadByte, TypeOK, BusInv, Reading
  <2>2. CASE ~(wanted > 1)
    BY <2>2 DEF IInv, ReadByte, Finish, BusInv, Writing, Reading
  <2> QED
    BY <2>1, <2>2
<1>3. MasterInv'
  BY DEF IInv, ReadByte, Finish, MasterInv, Writing, Reading
<1>4. SlaveInv'
  BY DEF IInv, ReadByte, Finish, SlaveInv, Reading
<1>5. ReplyInv'
  <2>1. /\ UNCHANGED <<late, lastRead, replied, slaveTx, line>> /\ mpc = "data_r" /\ ~DRDY
        /\ mpc' \in {"idle", "data_r"} /\ (mpc' = "data_r" => DRDY')
    BY DEF ReadByte, Held, Finish
  <2>2. CASE Len(rxBuffer) = Capacity
    <3>1. rxBuffer' = rxBuffer
      BY <1>a, <2>2
    <3> QED
      BY <2>1, <2>2, <3>1 DEF IInv, ReplyInv
  <2>3. CASE Len(rxBuffer) # Capacity
    <3>1. Len(rxBuffer') = Len(rxBuffer) + 1 /\ Len(rxBuffer) \in Nat /\ Len(rxBuffer) < Capacity
      BY <2>3, <1>a, Types, WireAssumption DEF IInv
    <3>2. ~late => /\ line = ReplyByte(lastRead, replied, Len(rxBuffer) + 1)
                   /\ RestOfReply(slaveTx, lastRead, replied, Len(rxBuffer) + 2)
      BY <2>1, <3>1 DEF IInv, ReplyInv
    <3>3. ~late => \A k \in 1 .. Len(rxBuffer') : rxBuffer'[k] = ReplyByte(lastRead, replied, k)
      <4>1. rxBuffer' \in Seq(Byte) /\ rxBuffer \in Seq(Byte) /\ replied \in Nat
        BY <1>1 DEF IInv, TypeOK, Ring
      <4>2. ~late => \A k \in 1 .. Len(rxBuffer) : rxBuffer[k] = ReplyByte(lastRead, replied, k)
        BY DEF IInv, ReplyInv
      <4> QED
        BY <1>a, <2>3, <3>1, <3>2, <4>1, <4>2, StoredReply
    <3>4. Len(rxBuffer') + 1 = Len(rxBuffer) + 2
      BY <3>1
    <3> QED
      BY <2>1, <3>2, <3>3, <3>4 DEF ReplyInv
  <2> QED
    BY <2>2, <2>3
<1> QED
  BY <1>1, <1>2, <1>3, <1>4, <1>5 DEF IInv

LEMMA ServiceStopStep == IInv /\ ServiceStop => IInv'
<1> SUFFICES ASSUME IInv, ServiceStop PROVE IInv'
  OBVIOUS
<1>1. TypeOK'
  <2>1. /\ txBuffer' \in Ring(TxCapacity) /\ rxBuffer' \in Ring(Capacity)
        /\ slaveTx' \in Ring(Capacity) /\ slaveRx' \in Ring(Capacity)
    BY EmptyRing, WireAssumption DEF IInv, TypeOK, ServiceStop
  <2>2. /\ transmissionBegun' \in BOOLEAN /\ stopBit' \in BOOLEAN /\ owner' \in BOOLEAN
        /\ PREC' \in BOOLEAN /\ AMATCH' \in BOOLEAN /\ DRDY' \in BOOLEAN /\ SR' \in BOOLEAN
        /\ DIR' \in BOOLEAN /\ nack' \in BOOLEAN /\ late' \in BOOLEAN /\ abandoned' \in BOOLEAN
    BY DEF IInv, TypeOK, ServiceStop, Acknowledge
  <2>3. /\ mpc' \in {"idle", "address_w", "write", "data_w", "address_r", "data_r"}
        /\ wanted' \in 0 .. MaxQuantity /\ line' \in Byte
        /\ transfers' \in Nat /\ lastWrite' \in Nat /\ lastRead' \in Nat /\ acked' \in Nat
        /\ replied' \in 0 .. Capacity
    BY DEF IInv, TypeOK, ServiceStop, ServiceAddressed
  <2> QED
    BY <2>1, <2>2, <2>3 DEF TypeOK
<1>2. BusInv'
  BY DEF IInv, ServiceStop, Acknowledge, ServiceAddressed, BusInv, Writing, Reading
<1>3. MasterInv'
  BY DEF IInv, ServiceStop, StopOrRestart, ServiceAddressed, MasterInv, BusInv, Writing,
         Reading, Unsent
<1>4. SlaveInv'
  BY DEF IInv, ServiceStop, StopOrRestart, ServiceAddressed, SlaveInv, BusInv
<1>5. ReplyInv'
  BY DEF IInv, ServiceStop, StopOrRestart, ServiceAddressed, ReplyInv, BusInv, Reading
<1> QED
  BY <1>1, <1>2, <1>3, <1>4, <1>5 DEF IInv

LEMMA ServiceRequestStep ==
    ASSUME NEW count \in 0 .. MaxReply, IInv, ServiceRequest(count) PROVE IInv'
<1>a. /\ replied' \in 0 .. Capacity /\ slaveTx' \in Ring(Capacity) /\ Len(slaveTx') = replied'
      /\ \A k \in 1 .. replied' : slaveTx'[k] = [transfer |-> transfers, place |-> k]
  <2>1. replied' \in 0 .. Capacity
    BY WireAssumption DEF ServiceRequest, Least
  <2>2. slaveTx' = [k \in 1 .. replied' |-> [transfer |-> transfers, place |-> k]]
    BY DEF ServiceRequest
  <2>3. slaveTx' \in [1 .. replied' -> Byte]
    BY <2>1, <2>2, Types DEF IInv, Byte
  <2>4. slaveTx' \in Seq(Byte)
    BY <2>1, <2>3, SeqDef
  <2>5. Len(slaveTx') = replied'
    BY <2>1, <2>3, <2>4
  <2> QED
    BY <2>1, <2>2, <2>4, <2>5 DEF Ring
<1>1. TypeOK'
  <2>1. /\ txBuffer' \in Ring(TxCapacity) /\ rxBuffer' \in Ring(Capacity)
        /\ slaveTx' \in Ring(Capacity) /\ slaveRx' \in Ring(Capacity)
    BY <1>a DEF IInv, TypeOK, ServiceRequest
  <2>2. /\ transmissionBegun' \in BOOLEAN /\ stopBit' \in BOOLEAN /\ owner' \in BOOLEAN
        /\ PREC' \in BOOLEAN /\ AMATCH' \in BOOLEAN /\ DRDY' \in BOOLEAN /\ SR' \in BOOLEAN
        /\ DIR' \in BOOLEAN /\ nack' \in BOOLEAN /\ late' \in BOOLEAN /\ abandoned' \in BOOLEAN
    BY DEF IInv, TypeOK, ServiceRequest, Acknowledge
  <2>3. /\ mpc' \in {"idle", "address_w", "write", "data_w", "address_r", "data_r"}
        /\ wanted' \in 0 .. MaxQuantity /\ line' \in Byte
        /\ transfers' \in Nat /\ lastWrite' \in Nat /\ lastRead' \in Nat /\ acked' \in Nat
        /\ replied' \in 0 .. Capacity
    BY <1>a DEF IInv, TypeOK, ServiceRequest, ServiceAddressed
  <2> QED
    BY <2>1, <2>2, <2>3 DEF TypeOK
<1>2. BusInv'
  BY DEF IInv, ServiceRequest, Acknowledge, ServiceAddressed, BusInv, Writing, Reading
<1>3. MasterInv'
  BY DEF IInv, ServiceRequest, ServiceAddressed, MasterInv, BusInv, Writing, Reading
<1>4. SlaveInv'
  BY DEF IInv, ServiceRequest, ServiceAddressed, SlaveInv, BusInv, Writing, Reading
<1>5. ReplyInv'
  <2>1. mpc = "address_r" /\ mpc' = "data_r" /\ DRDY' /\ lastRead = transfers /\ rxBuffer = <<>>
    BY DEF IInv, ServiceRequest, Acknowledge, ServiceAddressed, BusInv, MasterInv, ReplyInv,
           Writing, Reading
  <2>2. Len(rxBuffer) = 0 /\ UNCHANGED <<rxBuffer, lastRead, late>>
    BY <2>1 DEF ServiceRequest
  <2>3. RestOfReply(slaveTx', lastRead, replied', 1)
    <3>a. replied' \in 0 .. Capacity
      BY <1>a
    <3>b. \A m \in 0 .. Capacity : m \in Nat /\ m = IF 1 <= m THEN m - 1 + 1 ELSE 0
      BY WireAssumption
    <3>1. replied' \in Nat /\ replied' = IF 1 <= replied' THEN replied' - 1 + 1 ELSE 0
      BY <3>a, <3>b
    <3>2. \A k \in 1 .. replied' : k = 1 + k - 1 /\ k <= replied'
      BY <3>1
    <3> QED
      BY <1>a, <2>1, <3>1, <3>2 DEF RestOfReply, ReplyByte
  <2> QED
    BY <2>1, <2>2, <2>3 DEF ReplyInv
<1> QED
  BY <1>1, <1>2, <1>3, <1>4, <1>5 DEF IInv

LEMMA ServiceAddressStep == IInv /\ ServiceAddress => IInv'
<1> SUFFICES ASSUME IInv, ServiceAddress PROVE IInv'
  OBVIOUS
<1>1. TypeOK'
  BY DEF IInv, ServiceAddress, Acknowledge, TypeOK
<1>2. BusInv'
  BY DEF IInv, ServiceAddress, Acknowledge, BusInv, Reading
<1>3. MasterInv'
  BY DEF IInv, ServiceAddress, Acknowledge, MasterInv, Unsent
<1>4. SlaveInv'
  BY DEF IInv, ServiceAddress, StopOrRestart, SlaveInv, BusInv
<1>5. ReplyInv'
  BY DEF IInv, ServiceAddress, Acknowledge, ReplyInv, BusInv
<1> QED
  BY <1>1, <1>2, <1>3, <1>4, <1>5 DEF IInv

LEMMA ServiceSendStep == IInv /\ ServiceSend => IInv'
<1> SUFFICES ASSUME IInv, ServiceSend PROVE IInv'
  OBVIOUS
<1>a. slaveTx # <<>> => Tail(slaveTx) \in Ring(Capacity) /\ Head(slaveTx) \in Byte
  BY Taken, WireAssumption DEF IInv, TypeOK
<1>1. TypeOK'
  <2>1. /\ txBuffer' \in Ring(TxCapacity) /\ rxBuffer' \in Ring(Capacity)
        /\ slaveTx' \in Ring(Capacity) /\ slaveRx' \in Ring(Capacity)
    BY <1>a DEF IInv, TypeOK, ServiceSend
  <2>2. /\ transmissionBegun' \in BOOLEAN /\ stopBit' \in BOOLEAN /\ owner' \in BOOLEAN
        /\ PREC' \in BOOLEAN /\ AMATCH' \in BOOLEAN /\ DRDY' \in BOOLEAN /\ SR' \in BOOLEAN
        /\ DIR' \in BOOLEAN /\ nack' \in BOOLEAN /\ late' \in BOOLEAN /\ abandoned' \in BOOLEAN
    BY DEF IInv, TypeOK, ServiceSend
  <2>3. /\ mpc' \in {"idle", "address_w", "write", "data_w", "address_r", "data_r"}
        /\ wanted' \in 0 .. MaxQuantity /\ line' \in Byte
        /\ transfers' \in Nat /\ lastWrite' \in Nat /\ lastRead' \in Nat /\ acked' \in Nat
        /\ replied' \in 0 .. Capacity
    BY <1>a, FillerIsByte DEF IInv, TypeOK, ServiceSend
  <2> QED
    BY <2>1, <2>2, <2>3 DEF TypeOK
<1>2. BusInv'
  BY DEF IInv, ServiceSend, BusInv
<1>3. MasterInv'
  BY DEF IInv, ServiceSend, MasterInv, Unsent
<1>4. SlaveInv'
  BY DEF IInv, ServiceSend, SlaveInv, BusInv, Writing
<1>5. ReplyInv'
  <2>1. /\ UNCHANGED <<rxBuffer, late, lastRead, replied, mpc>> /\ DRDY /\ ~DRDY'
        /\ IF slaveTx = <<>> THEN line' = Filler /\ slaveTx' = slaveTx
                             ELSE line' = Head(slaveTx) /\ slaveTx' = Tail(slaveTx)
    BY DEF ServiceSend
  <2>2. Len(rxBuffer) + 1 \in Nat \ {0} /\ Len(rxBuffer) + 1 + 1 = Len(rxBuffer) + 2
    BY Types
  <2>3. slaveTx \in Seq(Byte) /\ replied \in Nat
    BY Types DEF IInv, TypeOK
  <2>4. mpc # "address_r"
    BY DEF IInv, ServiceSend, BusInv
  <2>5. ASSUME RestOfReply(slaveTx, lastRead, replied, Len(rxBuffer) + 1)
        PROVE  /\ line' = ReplyByte(lastRead, replied, Len(rxBuffer) + 1)
               /\ RestOfReply(slaveTx', lastRead, replied, Len(rxBuffer) + 2)
    <3>1. PICK n \in Nat \ {0} : n = Len(rxBuffer) + 1
      BY <2>2
    <3>2. RestOfReply(slaveTx, lastRead, replied, n)
      BY <2>5, <3>1
    <3>3. /\ slaveTx = <<>> => /\ ReplyByte(lastRead, replied, n) = Filler
                              /\ RestOfReply(slaveTx, lastRead, replied, n + 1)
          /\ slaveTx # <<>> => /\ Head(slaveTx) = ReplyByte(lastRead, replied, n)
                              /\ RestOfReply(Tail(slaveTx), lastRead, replied, n + 1)
      BY <2>3, <3>2, TakenFromReply
    <3>4. line' = ReplyByte(lastRead, replied, n) /\ RestOfReply(slaveTx', lastRead, replied, n + 1)
      BY <2>1, <3>3
    <3> QED
      BY <2>2, <3>1, <3>4
  <2> QED
    BY <2>1, <2>4, <2>5 DEF IInv, ReplyInv
<1> QED
  BY <1>1, <1>2, <1>3, <1>4, <1>5 DEF IInv

LEMMA ServiceReceiveStep == IInv /\ ServiceReceive => IInv'
<1> SUFFICES ASSUME IInv, ServiceReceive PROVE IInv'
  OBVIOUS
<1>a. /\ Len(slaveRx) = Capacity => slaveRx' = slaveRx
      /\ Len(slaveRx) # Capacity =>
           /\ Len(slaveRx') = Len(slaveRx) + 1 /\ slaveRx'[Len(slaveRx) + 1] = line
           /\ \A k \in 1 .. Len(slaveRx) : slaveRx'[k] = slaveRx[k]
  BY StoredIs DEF IInv, TypeOK, ServiceReceive
<1>1. TypeOK'
  <2>1. /\ txBuffer' \in Ring(TxCapacity) /\ rxBuffer' \in Ring(Capacity)
        /\ slaveTx' \in Ring(Capacity) /\ slaveRx' \in Ring(Capacity)
    BY StoredIs DEF IInv, TypeOK, ServiceReceive
  <2>2. /\ transmissionBegun' \in BOOLEAN /\ stopBit' \in BOOLEAN /\ owner' \in BOOLEAN
        /\ PREC' \in BOOLEAN /\ AMATCH' \in BOOLEAN /\ DRDY' \in BOOLEAN /\ SR' \in BOOLEAN
        /\ DIR' \in BOOLEAN /\ nack' \in BOOLEAN /\ late' \in BOOLEAN /\ abandoned' \in BOOLEAN
    BY DEF IInv, TypeOK, ServiceReceive, Acknowledge, Full
  <2>3. /\ mpc' \in {"idle", "address_w", "write", "data_w", "address_r", "data_r"}
        /\ wanted' \in 0 .. MaxQuantity /\ line' \in Byte
        /\ transfers' \in Nat /\ lastWrite' \in Nat /\ lastRead' \in Nat /\ acked' \in Nat
        /\ replied' \in 0 .. Capacity
    BY DEF IInv, TypeOK, ServiceReceive
  <2> QED
    BY <2>1, <2>2, <2>3 DEF TypeOK
<1>2. BusInv'
  BY DEF IInv, ServiceReceive, Acknowledge, BusInv
<1>3. MasterInv'
  BY DEF IInv, ServiceReceive, MasterInv, Unsent
<1>4. SlaveInv'
  <2>0. SUFFICES ASSUME ~abandoned PROVE SlaveInv'
    BY DEF ServiceReceive, SlaveInv
  <2>1. mpc = "data_w" /\ DRDY /\ ~DRDY' /\ UNCHANGED <<mpc, lastWrite, acked>>
    BY DEF IInv, ServiceReceive, Acknowledge, BusInv
  <2>2. /\ Received(acked) /\ lastWrite = transfers
        /\ line = [transfer |-> lastWrite, place |-> acked + 1] /\ acked \in Nat
    BY <2>0, <2>1, Types DEF IInv, SlaveInv, MasterInv, Writing
  <2>3. CASE Len(slaveRx) = Capacity
    <3>1. slaveRx' = slaveRx /\ nack'
      BY <1>a, <2>3 DEF ServiceReceive, Full
    <3> QED
      BY <2>0, <2>1, <2>2, <3>1 DEF IInv, SlaveInv, Received
  <2>4. CASE Len(slaveRx) # Capacity
    <3>1. ~nack' /\ Len(slaveRx') = acked + 1
      BY <1>a, <2>2, <2>4 DEF ServiceReceive, Full, Received
    <3>2. \A k \in 1 .. acked + 1 : slaveRx'[k] = [transfer |-> lastWrite, place |-> k]
      BY <1>a, <2>2, <2>4 DEF Received
    <3>3. Received(acked + 1)'
      BY <2>1, <3>1, <3>2 DEF Received
    <3>4. \A k \in 1 .. Len(slaveRx') :
              /\ slaveRx'[k] = [transfer |-> slaveRx'[1].transfer, place |-> k]
              /\ slaveRx'[k].transfer <= lastWrite'
      BY <2>1, <2>2, <3>1, <3>2, Types DEF IInv
    <3> QED
      BY <2>1, <3>1, <3>3, <3>4 DEF SlaveInv, Reading
  <2> QED
    BY <2>3, <2>4
<1>5. ReplyInv'
  BY DEF IInv, ServiceReceive, ReplyInv, BusInv
<1> QED
  BY <1>1, <1>2, <1>3, <1>4, <1>5 DEF IInv

LEMMA StutterStep == IInv /\ UNCHANGED vars => IInv'
  BY DEF IInv, vars, TypeOK, BusInv, MasterInv, SlaveInv, ReplyInv, Unsent, Received

LEMMA StepIInv == IInv /\ [Next]_vars => IInv'
  BY BeginTransmissionStep, WriteStep, EndTransmissionStep, EndTransmissionAloneStep,
     RequestFromAloneStep,
     AddressSentStep, SendByteStep, ByteSentStep, ByteRefusedStep, AllSentStep, RequestFromStep,
     ReadByteStep, ServiceStopStep, ServiceRequestStep, ServiceAddressStep, ServiceSendStep,
     ServiceReceiveStep, StutterStep
     DEF Next, Call, Proceed, Service

THEOREM Invariance == Spec => []IInv
  BY InitIInv, StepIInv, PTL DEF Spec

\* Every variable keeps its type; in particular no ring overflows.
THEOREM TypeCorrect == Spec => []TypeOK
<1>1. IInv => TypeOK
  BY DEF IInv
<1> QED
  BY Invariance, <1>1, PTL

\* onReceiveCallback gets one transfer from its first byte on: the bytes that
\* the slave acknowledged; unless the master has turned to another address
\* without a stop between.
THEOREM TransferWhole == Spec => []OneTransfer
<1>1. ASSUME IInv, ~abandoned, NEW k \in DOMAIN slaveRx
      PROVE  /\ slaveRx[k] = [transfer |-> slaveRx[1].transfer, place |-> k]
             /\ slaveRx[k].transfer = lastWrite /\ mpc \notin {"data_w", "address_w"}
                    => Len(slaveRx) = acked
  <2>1. k \in 1 .. Len(slaveRx) /\ slaveRx # <<>>
    BY <1>1, EmptySeq
  <2>2. slaveRx[k] = [transfer |-> slaveRx[1].transfer, place |-> k]
    BY <1>1, <2>1 DEF IInv, SlaveInv
  <2>3. slaveRx[k].transfer = slaveRx[1].transfer
    BY <2>2
  <2>4. mpc \in {"idle", "address_w", "write", "data_w", "address_r", "data_r"}
    BY <1>1 DEF IInv, TypeOK
  <2> QED
    BY <1>1, <2>1, <2>2, <2>3, <2>4 DEF IInv, SlaveInv, Received, Reading
<1>2. IInv => OneTransfer
  BY <1>1 DEF OneTransfer, Whole
<1> QED
  BY Invariance, <1>2, PTL

\* requestFrom reads what onRequestCallback wrote for this request, unless the
\* slave had not yet served the stop before it.
THEOREM ReplyOwn == Spec => []OwnReply
<1>1. IInv => OwnReply
  BY Types, LenProperties DEF IInv, ReplyInv, ReplyByte, OwnReply
<1> QED
  BY Invariance, <1>1, PTL
=============================================================================

---------------------------------- MODULE Wire ---------------------------------
(***************************************************************************)
(* I2C: two TwoWire objects on one bus, a master whose sketch calls        *)
(* beginTransmission, write, endTransmission and requestFrom, and a slave  *)
(* whose onService runs in the SERCOM interrupt (libraries/Wire/Wire.cpp,  *)
(* the WIRE part of cores/arduino/SERCOM.cpp).  The slave's SERCOM holds   *)
(* the clock from an address match or a data byte until it is served, and  *)
(* only then: a stop can be followed by the next start before onService    *)
(* has seen it.                                                            *)
(* A byte is numbered: the transfer it belongs to and its place in it.     *)
(***************************************************************************)
EXTENDS Integers, Sequences

CONSTANTS
    Capacity,       \* what the rings of the slave and of requestFrom hold
    TxCapacity,     \* what the master's txBuffer holds
    MaxQuantity,    \* bound on the argument of requestFrom
    MaxReply,       \* bound on the bytes that onRequestCallback writes
    MaxTransfers    \* bound on the transfers

ASSUME WireAssumption ==
    /\ Capacity \in Nat \ {0} /\ TxCapacity \in Nat \ {0} /\ MaxQuantity \in Nat \ {0}
    /\ MaxReply \in Nat /\ MaxTransfers \in Nat

Byte == [transfer : Nat, place : Nat]
Filler == [transfer |-> 0, place |-> 0]   \* 0xff: the slave has nothing to send

VARIABLES
    txBuffer, rxBuffer, transmissionBegun,   \* the master's object
    mpc,        \* where the master's thread is
    wanted,     \* bytes that requestFrom has still to read
    stopBit,    \* its argument
    owner,      \* the master owns the bus: its last call sent no stop
    transfers,  \* transfers begun
    PREC, AMATCH, DRDY,   \* the slave's interrupt flags
    SR, DIR,              \* repeated start, master reads
    line, nack,           \* the byte on the bus and the answer to it
    slaveTx, slaveRx,     \* the slave's txBuffer and rxBuffer
    lastWrite, acked,     \* the last writing transfer, its acknowledged bytes
    lastRead, late, replied,  \* the last reading transfer, whether it began on an
                              \* unserved stop, the length of the reply
    abandoned   \* the slave has seen no end of a transfer: the master has turned to
                \* another address without a stop

buffers == <<txBuffer, rxBuffer, transmissionBegun>>
calls == <<mpc, wanted, stopBit>>
flags == <<PREC, AMATCH, DRDY, SR, DIR>>
slave == <<slaveTx, slaveRx>>
counts == <<transfers, lastWrite, acked, lastRead, late, replied, abandoned>>
vars == <<buffers, calls, owner, flags, line, nack, slave, counts>>

Ring(n) == {r \in Seq(Byte) : Len(r) <= n}

TypeOK ==
    /\ txBuffer \in Ring(TxCapacity) /\ rxBuffer \in Ring(Capacity) /\ transmissionBegun \in BOOLEAN
    /\ mpc \in {"idle", "address_w", "write", "data_w", "address_r", "data_r"}
    /\ wanted \in 0 .. MaxQuantity /\ stopBit \in BOOLEAN /\ owner \in BOOLEAN
    /\ PREC \in BOOLEAN /\ AMATCH \in BOOLEAN /\ DRDY \in BOOLEAN
    /\ SR \in BOOLEAN /\ DIR \in BOOLEAN /\ line \in Byte /\ nack \in BOOLEAN
    /\ slaveTx \in Ring(Capacity) /\ slaveRx \in Ring(Capacity)
    /\ transfers \in Nat /\ lastWrite \in Nat /\ lastRead \in Nat /\ acked \in Nat
    /\ late \in BOOLEAN /\ replied \in 0 .. Capacity /\ abandoned \in BOOLEAN

Init ==
    /\ txBuffer = <<>> /\ rxBuffer = <<>> /\ transmissionBegun = FALSE
    /\ mpc = "idle" /\ wanted = 0 /\ stopBit = TRUE /\ owner = FALSE
    /\ PREC = FALSE /\ AMATCH = FALSE /\ DRDY = FALSE /\ SR = FALSE /\ DIR = FALSE
    /\ line = Filler /\ nack = FALSE
    /\ slaveTx = <<>> /\ slaveRx = <<>>
    /\ transfers = 0 /\ lastWrite = 0 /\ acked = 0 /\ lastRead = 0 /\ late = FALSE /\ replied = 0
    /\ abandoned = FALSE

-----------------------------------------------------------------------------
Full(ring) == Len(ring) = Capacity

\* Mutant: the oldest byte gives way.
StoredNewest(ring, byte) == IF Full(ring) THEN Append(Tail(ring), byte) ELSE Append(ring, byte)

\* store_char drops what does not fit.
Stored(ring, byte) == IF Full(ring) THEN ring ELSE Append(ring, byte)

Least(a, b) == IF a < b THEN a ELSE b

-----------------------------------------------------------------------------
(* The bus, as the slave's SERCOM shows it *)

\* Start and address.
Start(read) ==
    /\ transfers < MaxTransfers
    /\ transfers' = transfers + 1
    /\ AMATCH' = TRUE /\ SR' = owner /\ DIR' = read
    /\ owner' = TRUE
    /\ UNCHANGED <<PREC, DRDY>>

\* The master's last command, with a stop or without one.
Finish(stop) ==
    /\ mpc' = "idle"
    /\ owner' = ~stop
    /\ PREC' = (PREC \/ stop)

\* A start and an address that nobody answers to, and a stop.  After a repeated
\* start ours is not addressed any more: whether it sees the stop is left open.
NoAnswer ==
    /\ owner' = FALSE
    /\ PREC' \in {PREC, PREC \/ owner}
    /\ abandoned' = (abandoned \/ (owner /\ ~PREC'))

\* The slave holds the clock.
Held == AMATCH \/ DRDY

-----------------------------------------------------------------------------
(* The master's thread *)

BeginTransmission ==
    /\ mpc = "idle"
    /\ txBuffer' = <<>> /\ transmissionBegun' = TRUE
    /\ UNCHANGED <<rxBuffer, calls, owner, flags, line, nack, slave, counts>>

\* write(); it returns 0 outside a transmission or with a full buffer.
Write ==
    /\ mpc = "idle" /\ transmissionBegun /\ Len(txBuffer) < TxCapacity
    /\ txBuffer' = Append(txBuffer, [transfer |-> transfers + 1, place |-> Len(txBuffer) + 1])
    /\ UNCHANGED <<rxBuffer, transmissionBegun, calls, owner, flags, line, nack, slave, counts>>

\* The bytes get the number of the transfer in which they go out: those that an
\* endTransmission refused by the slave has left may go with the next.
Numbered(ring) == [k \in DOMAIN ring |-> [transfer |-> transfers + 1, place |-> k]]

EndTransmission(stop) ==
    /\ mpc = "idle"
    /\ Start(FALSE)
    /\ transmissionBegun' = FALSE
    /\ txBuffer' = Numbered(txBuffer)
    /\ mpc' = "address_w" /\ stopBit' = stop
    /\ lastWrite' = transfers + 1 /\ acked' = 0
    /\ UNCHANGED <<rxBuffer, wanted, line, nack, slave, lastRead, late, replied, abandoned>>

\* Nobody answers to the address: endTransmission returns 2.
EndTransmissionAlone ==
    /\ mpc = "idle"
    /\ NoAnswer
    /\ transmissionBegun' = FALSE
    /\ UNCHANGED <<txBuffer, rxBuffer, calls, AMATCH, DRDY, SR, DIR, line, nack, slave,
                   transfers, lastWrite, acked, lastRead, late, replied>>

\* The slave has answered to the address.
AddressSent ==
    /\ mpc = "address_w" /\ ~Held
    /\ mpc' = "write"
    /\ UNCHANGED <<buffers, wanted, stopBit, owner, flags, line, nack, slave, counts>>

SendByte ==
    /\ mpc = "write" /\ txBuffer # <<>>
    /\ line' = Head(txBuffer) /\ txBuffer' = Tail(txBuffer)
    /\ DRDY' = TRUE
    /\ mpc' = "data_w"
    /\ UNCHANGED <<rxBuffer, transmissionBegun, wanted, stopBit, owner, PREC, AMATCH, SR, DIR,
                   nack, slave, counts>>

ByteSent ==
    /\ mpc = "data_w" /\ ~Held /\ ~nack
    /\ mpc' = "write"
    /\ acked' = acked + 1
    /\ UNCHANGED <<buffers, wanted, stopBit, owner, flags, line, nack, slave, transfers,
                   lastWrite, lastRead, late, replied, abandoned>>

\* endTransmission returns 3 and leaves the rest in the buffer.
ByteRefused ==
    /\ mpc = "data_w" /\ ~Held /\ nack
    /\ Finish(TRUE)
    /\ UNCHANGED <<buffers, wanted, stopBit, AMATCH, DRDY, SR, DIR, line, nack, slave, counts>>

AllSent ==
    /\ mpc = "write" /\ txBuffer = <<>>
    /\ Finish(stopBit)
    /\ UNCHANGED <<buffers, wanted, stopBit, AMATCH, DRDY, SR, DIR, line, nack, slave, counts>>

RequestFrom(quantity, stop) ==
    /\ mpc = "idle"
    /\ rxBuffer' = <<>>
    /\ Start(TRUE)
    /\ mpc' = "address_r" /\ wanted' = quantity /\ stopBit' = stop
    /\ lastRead' = transfers + 1 /\ late' = PREC /\ replied' = 0
    /\ UNCHANGED <<txBuffer, transmissionBegun, line, nack, slave, lastWrite, acked, abandoned>>

\* Nobody answers to the address: requestFrom returns 0.
RequestFromAlone ==
    /\ mpc = "idle"
    /\ NoAnswer
    /\ rxBuffer' = <<>>
    /\ UNCHANGED <<txBuffer, transmissionBegun, calls, AMATCH, DRDY, SR, DIR, line, nack, slave,
                   transfers, lastWrite, acked, lastRead, late, replied>>

\* readDataWIRE, then the answer to the byte: ACK for another, or NACK, at
\* which the slave's SERCOM may or may not ask for one more.
ReadByte ==
    /\ mpc = "data_r" /\ ~Held
    /\ rxBuffer' = Stored(rxBuffer, line)
    /\ wanted' = wanted - 1
    /\ IF wanted > 1
       THEN DRDY' = TRUE /\ UNCHANGED <<mpc, owner, PREC>>
       ELSE Finish(stopBit) /\ DRDY' \in BOOLEAN
    /\ UNCHANGED <<txBuffer, transmissionBegun, stopBit, AMATCH, SR, DIR, line, nack, slave,
                   counts>>

-----------------------------------------------------------------------------
(* The slave's onService, one action for each of its branches *)

\* Mutant: a repeated start is not looked for.
StopOnly == PREC

StopOrRestart == PREC \/ (AMATCH /\ SR /\ ~DIR)

\* Mutant: the address is not answered.
AcknowledgeByte == PREC' = FALSE /\ DRDY' = FALSE /\ UNCHANGED AMATCH

\* The command clears the flags and answers to the address if there is one:
\* a master that reads then waits for data.
Acknowledge == PREC' = FALSE /\ AMATCH' = FALSE /\ DRDY' = (AMATCH /\ DIR)

ServiceAddressed ==
    mpc' = IF mpc = "address_r" /\ AMATCH THEN "data_r" ELSE mpc

\* onReceiveCallback gets rxBuffer, and what it leaves is dropped.
ServiceStop ==
    /\ StopOrRestart
    /\ Acknowledge
    /\ ServiceAddressed
    /\ slaveRx' = <<>> /\ abandoned' = FALSE
    /\ UNCHANGED <<buffers, wanted, stopBit, owner, SR, DIR, line, nack, slaveTx, transfers,
                   lastWrite, acked, lastRead, late, replied>>

\* onRequestCallback writes count bytes into the emptied buffer.
ServiceRequest(count) ==
    /\ ~StopOrRestart /\ AMATCH /\ DIR
    /\ Acknowledge
    /\ ServiceAddressed
    /\ replied' = Least(count, Capacity)
    /\ slaveTx' = [k \in 1 .. Least(count, Capacity) |-> [transfer |-> transfers, place |-> k]]
    /\ UNCHANGED <<buffers, wanted, stopBit, owner, SR, DIR, line, nack, slaveRx, transfers,
                   lastWrite, acked, lastRead, late, abandoned>>

ServiceAddress ==
    /\ ~StopOrRestart /\ AMATCH /\ ~DIR
    /\ Acknowledge
    /\ UNCHANGED <<buffers, calls, owner, SR, DIR, line, nack, slave, counts>>

ServiceSend ==
    /\ ~StopOrRestart /\ ~AMATCH /\ DRDY /\ DIR
    /\ DRDY' = FALSE
    /\ IF slaveTx = <<>>
       THEN line' = Filler /\ UNCHANGED slaveTx
       ELSE line' = Head(slaveTx) /\ slaveTx' = Tail(slaveTx)
    /\ UNCHANGED <<buffers, calls, owner, PREC, AMATCH, SR, DIR, nack, slaveRx, counts>>

ServiceReceive ==
    /\ ~StopOrRestart /\ ~AMATCH /\ DRDY /\ ~DIR
    /\ Acknowledge
    /\ nack' = Full(slaveRx)
    /\ slaveRx' = Stored(slaveRx, line)
    /\ UNCHANGED <<buffers, calls, owner, SR, DIR, line, slaveTx, counts>>

Service == \/ ServiceStop \/ ServiceAddress \/ ServiceSend \/ ServiceReceive
           \/ \E count \in 0 .. MaxReply : ServiceRequest(count)

-----------------------------------------------------------------------------
Proceed == AddressSent \/ SendByte \/ ByteSent \/ ByteRefused \/ AllSent \/ ReadByte

Call == \/ BeginTransmission \/ Write \/ EndTransmissionAlone \/ RequestFromAlone
        \/ \E stop \in BOOLEAN : EndTransmission(stop)
        \/ \E quantity \in 1 .. MaxQuantity, stop \in BOOLEAN : RequestFrom(quantity, stop)

Next == Call \/ Proceed \/ Service

Spec == Init /\ [][Next]_vars

\* The interrupt is served and a call that has begun goes on.
FairSpec == Spec /\ WF_vars(Service) /\ WF_vars(Proceed)

-----------------------------------------------------------------------------
(* Properties *)

\* The slave has bytes of one transfer only, all that were acknowledged.  Not so
\* after a transfer without a stop and a start to another address: what it has
\* then goes to the callback together with the next transfer.
Whole ==
    \A k \in DOMAIN slaveRx :
        /\ slaveRx[k] = [transfer |-> slaveRx[1].transfer, place |-> k]
        /\ slaveRx[k].transfer = lastWrite /\ mpc \notin {"data_w", "address_w"}
               => Len(slaveRx) = acked

\* What onReceiveCallback gets is one transfer from its first byte on, without
\* a gap: the bytes that the slave acknowledged, which the master counts; unless
\* the master has turned to another address without a stop between.
OneTransfer == abandoned \/ Whole

\* requestFrom reads what onRequestCallback wrote for this request, in order,
\* then 0xff, unless the slave had not yet served the stop before it.
OwnReply ==
    ~late =>
        \A k \in DOMAIN rxBuffer :
            rxBuffer[k] = IF k <= replied THEN [transfer |-> lastRead, place |-> k] ELSE Filler

\* endTransmission and requestFrom return.
Returns == mpc # "idle" ~> mpc = "idle"

\* A request finds all that the master wrote before it handed over.
WrittenBeforeRead == AMATCH /\ DIR /\ ~PREC => slaveRx = <<>>
=============================================================================

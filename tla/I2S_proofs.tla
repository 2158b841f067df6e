------------------------------- MODULE I2S_proofs ------------------------------
(***************************************************************************)
(* The double buffer of I2S, proved for every size and every bound: the    *)
(* sketch and the DMA channel never work on the same half, samples go out  *)
(* and come in in order, and none that waits is forgotten.  The inductive  *)
(* invariant says which samples are where: behind the DMA's position, then *)
(* in the sketch's half.                                                   *)
(***************************************************************************)
EXTENDS I2S, TLAPS

USE DEF doubleBuffer, channel, flags, life, counts

\* The channel: what its flags say of one another and of what I2SClass believes.
ChannelAgrees ==
    /\ running => valid /\ dmaPos < dmaEnd
    /\ tcmpl => valid /\ ~running /\ ~terr /\ dmaPos = dmaEnd
    /\ terr => ~running /\ errors > 0
    /\ state # "IDLE" => begun
    /\ dmaTransferInProgress => state # "IDLE"
    /\ begun /\ ~dmaTransferInProgress => ~valid /\ ~tcmpl /\ ~terr
    /\ begun /\ valid => index # dmaHalf
    /\ begun /\ state = "IDLE" => \A h \in Halves : length[h] = 0
    /\ state # "TRANSMITTER" => nOut = nWritten
    /\ \A h \in Halves : readOffset[h] <= length[h]
    /\ ending => begun

\* What has been written and not sent: the rest of the transfer under way,
\* then the sketch's half.
UnderWay == running \/ tcmpl

SendingInv ==
    state = "TRANSMITTER" =>
        /\ \A h \in Halves : readOffset[h] = 0
        /\ ~dmaTransferInProgress => length[index] = 0 /\ nWritten = nOut
        /\ dmaTransferInProgress /\ ~UnderWay => errors > 0 \/ ending
        /\ UnderWay =>
            /\ nWritten = nOut + (dmaEnd - dmaPos) + length[index]
            /\ \A s \in Slots : s >= dmaPos /\ s < dmaEnd
                   => buffer[dmaHalf][s] = nOut + 1 + (s - dmaPos)
            /\ \A s \in Slots : s < length[index]
                   => buffer[index][s] = nOut + (dmaEnd - dmaPos) + 1 + s

\* The slots of a half from a to b - 1 hold one run of samples, all of them
\* newer than old and arrived.
Run(half, a, b, old) ==
    \A s \in Slots : s >= a /\ s < b =>
        /\ buffer[half][s] = buffer[half][b - 1] - (b - 1 - s)
        /\ old < buffer[half][s] /\ buffer[half][s] <= nIn

\* The newest sample the sketch has or will read before the transfer under way.
NewestSeen == IF available = 0 THEN lastRead ELSE buffer[index][length[index] - 1]

ReceivingInv ==
    /\ lastRead <= nIn
    /\ state = "RECEIVER" =>
        /\ Run(index, readOffset[index], length[index], lastRead)
        /\ UnderWay => /\ dmaEnd = Size
                       /\ Run(dmaHalf, 0, dmaPos, NewestSeen)
        /\ running /\ dmaPos > 0 => buffer[dmaHalf][dmaPos - 1] = nIn

IInv == TypeOK /\ ChannelAgrees /\ SendingInv /\ ReceivingInv

-----------------------------------------------------------------------------
LEMMA BeginStep ==
    ASSUME IInv, Begin
    PROVE  IInv'
<1> USE I2SAssumption DEF IInv
<1>1. TypeOK'
  <2>1. /\ index' \in Halves
        /\ length' \in [Halves -> 0 .. Size]
        /\ readOffset' \in [Halves -> 0 .. Size]
        /\ begins' \in Nat
    BY DEF TypeOK, Begin, Halves
  <2>2. QED  BY <2>1, Zenon DEF TypeOK, Begin
<1>2. ChannelAgrees'
  BY DEF TypeOK, ChannelAgrees, Halves, Slots, States, Begin
<1>3. SendingInv'
  BY DEF TypeOK, ChannelAgrees, SendingInv, UnderWay, Halves, Slots, States, Begin
<1>4. ReceivingInv'
  BY DEF TypeOK, ChannelAgrees, SendingInv, ReceivingInv, UnderWay, Run, NewestSeen, Halves,
         Slots, States, Begin, available
<1>5. QED  BY <1>1, <1>2, <1>3, <1>4

LEMMA AvailableForWriteStep ==
    ASSUME IInv, AvailableForWrite
    PROVE  IInv'
<1> USE I2SAssumption DEF IInv
<1>1. TypeOK'
  BY DEF TypeOK, Halves, Slots, States, AvailableForWrite, Open
<1>2. ChannelAgrees'
  BY DEF TypeOK, ChannelAgrees, Halves, Slots, States, AvailableForWrite, Open
<1>3. SendingInv'
  BY DEF TypeOK, ChannelAgrees, SendingInv, UnderWay, Halves, Slots, States, AvailableForWrite,
         Open
<1>4. ReceivingInv'
  BY DEF TypeOK, ChannelAgrees, SendingInv, ReceivingInv, UnderWay, Run, NewestSeen, Halves,
         Slots, States, AvailableForWrite, Open, available
<1>5. QED  BY <1>1, <1>2, <1>3, <1>4

LEMMA EndFreeStep ==
    ASSUME IInv, EndFree
    PROVE  IInv'
<1> USE I2SAssumption DEF IInv
<1>1. TypeOK'
  BY DEF TypeOK, Halves, Slots, States, EndFree
<1>2. ChannelAgrees'
  BY DEF TypeOK, ChannelAgrees, Halves, Slots, States, EndFree
<1>3. SendingInv'
  BY DEF TypeOK, ChannelAgrees, SendingInv, UnderWay, Halves, Slots, States, EndFree
<1>4. ReceivingInv'
  BY DEF TypeOK, ChannelAgrees, SendingInv, ReceivingInv, UnderWay, Run, NewestSeen, Halves,
         Slots, States, EndFree, available
<1>5. QED  BY <1>1, <1>2, <1>3, <1>4

LEMMA EndClearStep ==
    ASSUME IInv, EndClear
    PROVE  IInv'
<1> USE I2SAssumption DEF IInv
<1>1. TypeOK'
  BY DEF TypeOK, Halves, Slots, States, EndClear
<1>2. ChannelAgrees'
  BY DEF TypeOK, ChannelAgrees, Halves, Slots, States, EndClear
<1>3. SendingInv'
  BY DEF TypeOK, ChannelAgrees, SendingInv, UnderWay, Halves, Slots, States, EndClear
<1>4. ReceivingInv'
  BY DEF TypeOK, ChannelAgrees, SendingInv, ReceivingInv, UnderWay, Run, NewestSeen, Halves,
         Slots, States, EndClear, available
<1>5. QED  BY <1>1, <1>2, <1>3, <1>4

LEMMA SendBeatStep ==
    ASSUME IInv, SendBeat
    PROVE  IInv'
<1> USE I2SAssumption DEF IInv
<1>1. TypeOK'
  <2>1. /\ dmaPos' \in 0 .. Size
        /\ running' \in BOOLEAN
        /\ tcmpl' \in BOOLEAN
        /\ nOut' \in Nat
    BY DEF TypeOK, ChannelAgrees, SendBeat, Advance
  <2>2. QED  BY <2>1, Zenon DEF TypeOK, SendBeat
<1>2. ChannelAgrees'
  BY DEF TypeOK, ChannelAgrees, Halves, Slots, States, SendBeat, Advance
<1>3. SendingInv'
  BY DEF TypeOK, ChannelAgrees, SendingInv, UnderWay, Halves, Slots, States, SendBeat, Advance
<1>4. ReceivingInv'
  BY DEF TypeOK, ChannelAgrees, SendingInv, ReceivingInv, UnderWay, Run, NewestSeen, Halves,
         Slots, States, SendBeat, Advance, available
<1>5. QED  BY <1>1, <1>2, <1>3, <1>4

LEMMA ArriveStep ==
    ASSUME IInv, Arrive
    PROVE  IInv'
<1> USE I2SAssumption DEF IInv
<1>s. /\ state = "RECEIVER" /\ state' = state /\ index' = index /\ nIn' = nIn + 1
      /\ length' = length /\ readOffset' = readOffset /\ lastRead' = lastRead
      /\ dmaTransferInProgress' = dmaTransferInProgress /\ valid' = valid
      /\ dmaHalf' = dmaHalf /\ dmaEnd' = dmaEnd /\ terr' = terr
      /\ nWritten' = nWritten /\ nOut' = nOut /\ errors' = errors
      /\ begun' = begun /\ ending' = ending /\ begins' = begins
      /\ ~running => UNCHANGED <<buffer, dmaPos, running, tcmpl>>
      /\ running => /\ buffer' = [buffer EXCEPT ![dmaHalf][dmaPos] = nIn + 1]
                    /\ dmaPos' = dmaPos + 1
                    /\ running' = (dmaPos + 1 < dmaEnd) /\ tcmpl' = (dmaPos + 1 = dmaEnd)
  BY DEF Arrive, Advance
<1>t. /\ index \in Halves /\ dmaHalf \in Halves /\ dmaPos \in 0 .. Size /\ dmaEnd \in 0 .. Size
      /\ \A h \in Halves : length[h] \in 0 .. Size /\ readOffset[h] \in 0 .. Size
      /\ nIn \in Nat /\ lastRead \in Nat
      /\ buffer \in [Halves -> [Slots -> Nat]]
      /\ \A h \in Halves : \A s \in Slots : buffer[h][s] \in Nat
  BY DEF TypeOK
<1>1. TypeOK'
  <2>1. CASE running
    <3>1. dmaPos \in Slots /\ dmaPos' \in 0 .. Size
      BY <1>s, <1>t, <2>1 DEF ChannelAgrees, Slots
    <3>2. buffer' \in [Halves -> [Slots -> Nat]]
      <4>1. nIn + 1 \in Nat
        BY <1>t
      <4>2. buffer' = [buffer EXCEPT ![dmaHalf] = [buffer[dmaHalf] EXCEPT ![dmaPos] = nIn + 1]]
        BY <1>s, <2>1
      <4>3. [buffer[dmaHalf] EXCEPT ![dmaPos] = nIn + 1] \in [Slots -> Nat]
        BY <1>t, <3>1, <4>1
      <4>4. QED  BY <1>t, <4>2, <4>3
    <3>3. running' \in BOOLEAN /\ tcmpl' \in BOOLEAN /\ nIn' \in Nat
      BY <1>s, <1>t, <2>1
    <3>4. QED  BY <1>s, <3>1, <3>2, <3>3, Zenon DEF TypeOK
  <2>2. CASE ~running
    <3>1. nIn' \in Nat
      BY <1>s, <1>t
    <3>2. QED  BY <1>s, <2>2, <3>1, Zenon DEF TypeOK
  <2>3. QED  BY <2>1, <2>2
<1>2. ChannelAgrees'
  BY DEF TypeOK, ChannelAgrees, Halves, Slots, States, Arrive, Advance
<1>3. SendingInv'
  BY DEF TypeOK, ChannelAgrees, SendingInv, UnderWay, Halves, Slots, States, Arrive, Advance
<1>4. ReceivingInv'
  <2>1. lastRead' <= nIn'
    BY <1>s, <1>t DEF ReceivingInv
  <2>2. CASE ~running
    <3>1. /\ Run(index, readOffset[index], length[index], lastRead)'
      BY <1>s, <1>t, <2>2 DEF ReceivingInv, Run
    <3>2. UnderWay' => dmaEnd' = Size /\ Run(dmaHalf, 0, dmaPos, NewestSeen)'
      <4>1. UnderWay' = UnderWay /\ NewestSeen' = NewestSeen
        BY <1>s, <2>2 DEF UnderWay, NewestSeen, available
      <4>2. QED  BY <1>s, <1>t, <2>2, <4>1 DEF ReceivingInv, Run
    <3>3. QED  BY <1>s, <2>1, <2>2, <3>1, <3>2 DEF ReceivingInv
  <2>3. CASE running
    <3>1. /\ index # dmaHalf /\ dmaPos \in Slots /\ dmaPos' = dmaPos + 1 /\ dmaEnd = Size
      BY <1>s, <1>t, <2>3 DEF ChannelAgrees, ReceivingInv, UnderWay, Slots
    <3>2. /\ buffer'[index] = buffer[index]
          /\ buffer'[dmaHalf][dmaPos] = nIn + 1
          /\ \A s \in Slots : s # dmaPos => buffer'[dmaHalf][s] = buffer[dmaHalf][s]
      BY <1>s, <1>t, <2>3, <3>1
    <3>a. Run(index, readOffset[index], length[index], lastRead)
      BY <1>s DEF ReceivingInv
    <3>b. length[index] >= readOffset[index] /\ lastRead <= nIn
      BY <1>t DEF ChannelAgrees, ReceivingInv
    <3>3. NewestSeen \in Nat /\ NewestSeen <= nIn /\ NewestSeen' = NewestSeen
      <4>1. NewestSeen' = NewestSeen
        BY <1>s, <3>2 DEF NewestSeen, available
      <4>2. CASE available = 0
        BY <1>t, <3>b, <4>1, <4>2 DEF NewestSeen
      <4>3. CASE available # 0
        <5>1. length[index] - 1 \in Slots /\ length[index] - 1 >= readOffset[index]
          BY <1>t, <3>b, <4>3 DEF available, Slots
        <5>2. NewestSeen = buffer[index][length[index] - 1]
          BY <4>3 DEF NewestSeen
        <5>3. QED  BY <1>t, <3>a, <4>1, <5>1, <5>2 DEF Run
      <4>4. QED  BY <4>2, <4>3
    <3>4. Run(index, readOffset[index], length[index], lastRead)'
      <4>1. \A s \in Slots : buffer[index][s] <= nIn => buffer[index][s] <= nIn + 1
        BY <1>t
      <4>2. QED  BY <1>s, <3>2, <3>a, <4>1 DEF Run
    <3>5. \A s \in Slots : s < dmaPos =>
              buffer[dmaHalf][s] = nIn - (dmaPos - 1 - s) /\ NewestSeen < buffer[dmaHalf][s]
      <4>1. Run(dmaHalf, 0, dmaPos, NewestSeen) /\ (dmaPos > 0 => buffer[dmaHalf][dmaPos - 1] = nIn)
        BY <1>s, <2>3 DEF ReceivingInv, UnderWay
      <4> SUFFICES ASSUME NEW s \in Slots, s < dmaPos
                   PROVE  buffer[dmaHalf][s] = nIn - (dmaPos - 1 - s) /\ NewestSeen < buffer[dmaHalf][s]
        OBVIOUS
      <4>2. s >= 0 /\ dmaPos > 0
        BY <1>t DEF Slots
      <4>3. QED  BY <4>1, <4>2 DEF Run
    <3>6. Run(dmaHalf, 0, dmaPos, NewestSeen)'
      <4> SUFFICES ASSUME NEW s \in Slots, s < dmaPos + 1
                   PROVE  /\ buffer'[dmaHalf][s] = buffer'[dmaHalf][dmaPos] - (dmaPos - s)
                          /\ NewestSeen < buffer'[dmaHalf][s] /\ buffer'[dmaHalf][s] <= nIn + 1
        <5>1. (dmaHalf' = dmaHalf /\ nIn' = nIn + 1 /\ NewestSeen' = NewestSeen) /\ dmaPos' - 1 = dmaPos
          BY <1>s, <1>t, <3>1, <3>3
        <5>2. \A s \in Slots : dmaPos' - 1 - s = dmaPos - s
          BY <1>t, <3>1 DEF Slots
        <5>3. QED  BY <3>1, <5>1, <5>2 DEF Run
      <4>1. CASE s = dmaPos
        BY <1>t, <3>1, <3>2, <3>3, <4>1 DEF Slots
      <4>2. CASE s < dmaPos
        <5>1. /\ buffer'[dmaHalf][s] = nIn - (dmaPos - 1 - s) /\ NewestSeen < buffer'[dmaHalf][s]
              /\ buffer'[dmaHalf][dmaPos] = nIn + 1
          <6>1. s # dmaPos
            BY <1>t, <4>2
          <6>2. QED  BY <3>1, <3>2, <3>5, <4>2, <6>1
        <5>2. s \in Int /\ dmaPos \in Int /\ nIn \in Int /\ s < dmaPos
          BY <1>t, <4>2 DEF Slots
        <5>3. nIn - (dmaPos - 1 - s) = nIn + 1 - (dmaPos - s) /\ nIn - (dmaPos - 1 - s) <= nIn + 1
          BY <5>2
        <5>4. QED  BY <5>1, <5>2, <5>3
      <4>3. QED  BY <1>t, <3>1, <4>1, <4>2 DEF Slots
    <3>7. buffer'[dmaHalf'][dmaPos' - 1] = nIn'
      BY <1>s, <1>t, <3>1, <3>2
    <3>9. QED  BY <1>s, <2>1, <3>1, <3>4, <3>6, <3>7 DEF ReceivingInv
  <2>4. QED  BY <2>2, <2>3
<1>5. QED  BY <1>1, <1>2, <1>3, <1>4

LEMMA TransferErrorStep ==
    ASSUME IInv, TransferError
    PROVE  IInv'
<1> USE I2SAssumption DEF IInv
<1>1. TypeOK'
  <2>1. /\ errors' \in Nat
    BY DEF TypeOK, TransferError
  <2>2. QED  BY <2>1, Zenon DEF TypeOK, TransferError
<1>2. ChannelAgrees'
  BY DEF TypeOK, ChannelAgrees, Halves, Slots, States, TransferError
<1>3. SendingInv'
  BY DEF TypeOK, ChannelAgrees, SendingInv, UnderWay, Halves, Slots, States, TransferError
<1>4. ReceivingInv'
  BY DEF TypeOK, ChannelAgrees, SendingInv, ReceivingInv, UnderWay, Run, NewestSeen, Halves,
         Slots, States, TransferError, available
<1>5. QED  BY <1>1, <1>2, <1>3, <1>4

LEMMA ServiceErrorStep ==
    ASSUME IInv, ServiceError
    PROVE  IInv'
<1> USE I2SAssumption DEF IInv
<1>1. TypeOK'
  BY DEF TypeOK, Halves, Slots, States, ServiceError
<1>2. ChannelAgrees'
  BY DEF TypeOK, ChannelAgrees, Halves, Slots, States, ServiceError
<1>3. SendingInv'
  BY DEF TypeOK, ChannelAgrees, SendingInv, UnderWay, Halves, Slots, States, ServiceError
<1>4. ReceivingInv'
  BY DEF TypeOK, ChannelAgrees, SendingInv, ReceivingInv, UnderWay, Run, NewestSeen, Halves,
         Slots, States, ServiceError, available
<1>5. QED  BY <1>1, <1>2, <1>3, <1>4

LEMMA SendNextStep ==
    ASSUME IInv, SendNext
    PROVE  IInv'
<1> USE I2SAssumption DEF IInv
<1>1. TypeOK'
  <2>1. /\ index' \in Halves
        /\ length' \in [Halves -> 0 .. Size]
        /\ readOffset' \in [Halves -> 0 .. Size]
        /\ valid' \in BOOLEAN
        /\ running' \in BOOLEAN
        /\ dmaHalf' \in Halves
        /\ dmaPos' \in 0 .. Size
        /\ dmaEnd' \in 0 .. Size
    BY DEF TypeOK, SendNext, ChannelAgrees, Service, Transfer, Swap, available, Other, Halves
  <2>2. QED  BY <2>1, Zenon DEF TypeOK, SendNext, Service
<1>2. ChannelAgrees'
  BY DEF TypeOK, ChannelAgrees, Halves, Slots, States, SendNext, Service, Transfer, Swap,
         available, Other
<1>3. SendingInv'
  BY DEF TypeOK, ChannelAgrees, SendingInv, UnderWay, Halves, Slots, States, SendNext, Service,
         Transfer, Swap, available, Other
<1>4. ReceivingInv'
  BY DEF TypeOK, ChannelAgrees, SendingInv, ReceivingInv, UnderWay, Run, NewestSeen, Halves,
         Slots, States, SendNext, Service, Transfer, Swap, available, Other
<1>5. QED  BY <1>1, <1>2, <1>3, <1>4

LEMMA ReceiveNextStep ==
    ASSUME IInv, ReceiveNext
    PROVE  IInv'
<1> USE I2SAssumption DEF IInv
<1>1. TypeOK'
  <2>1. /\ index' \in Halves
        /\ length' \in [Halves -> 0 .. Size]
        /\ readOffset' \in [Halves -> 0 .. Size]
        /\ valid' \in BOOLEAN
        /\ running' \in BOOLEAN
        /\ dmaHalf' \in Halves
        /\ dmaPos' \in 0 .. Size
        /\ dmaEnd' \in 0 .. Size
    BY DEF TypeOK, ReceiveNext, availableForWrite, ChannelAgrees, Service, Transfer, Swap,
           available, Other, Halves
  <2>2. QED  BY <2>1, Zenon DEF TypeOK, ReceiveNext, Service
<1>2. ChannelAgrees'
  BY DEF TypeOK, ChannelAgrees, Halves, Slots, States, ReceiveNext, Service, Transfer, Swap,
         available, availableForWrite, Other
<1>3. SendingInv'
  BY DEF TypeOK, ChannelAgrees, SendingInv, UnderWay, Halves, Slots, States, ReceiveNext,
         Service, Transfer, Swap, available, availableForWrite, Other
<1>4. ReceivingInv'
  <2>1. lastRead' <= nIn' /\ state' = state
    BY DEF ReceivingInv, ReceiveNext, Service
  <2>2. CASE state = "RECEIVER"
    <3>1. /\ index \in Halves /\ dmaHalf = Other(index) /\ dmaPos = Size /\ dmaEnd = Size
          /\ available = 0 /\ buffer' = buffer /\ lastRead' = lastRead /\ nIn' = nIn
      BY <2>2
         DEF TypeOK, ChannelAgrees, ReceivingInv, UnderWay, ReceiveNext, Service, Other, Halves
    <3>2. /\ index' = dmaHalf /\ length'[dmaHalf] = Size /\ readOffset'[dmaHalf] = 0
          /\ dmaPos' = 0 /\ dmaEnd' = Size
      BY <3>1
         DEF TypeOK, ReceiveNext, Swap, Transfer, available, availableForWrite, Other, Halves
    <3>3. Run(dmaHalf, 0, Size, lastRead)
      BY <2>2, <3>1 DEF ReceivingInv, UnderWay, NewestSeen, ReceiveNext, Service
    <3>4. Run(index, readOffset[index], length[index], lastRead)'
      BY <3>1, <3>2, <3>3 DEF Run
    <3>5. Run(dmaHalf, 0, dmaPos, NewestSeen)'
      BY <3>2 DEF Run, Slots
    <3>6. QED  BY <2>1, <3>2, <3>4, <3>5 DEF ReceivingInv
  <2>3. CASE state # "RECEIVER"
    BY <2>1, <2>3 DEF ReceivingInv
  <2>4. QED  BY <2>2, <2>3
<1>5. QED  BY <1>1, <1>2, <1>3, <1>4

LEMMA StopStep ==
    ASSUME IInv, Stop
    PROVE  IInv'
<1> USE I2SAssumption DEF IInv
<1>1. TypeOK'
  BY DEF TypeOK, Halves, Slots, States, Stop, Service, available
<1>2. ChannelAgrees'
  BY DEF TypeOK, ChannelAgrees, Halves, Slots, States, Stop, Service, available
<1>3. SendingInv'
  BY DEF TypeOK, ChannelAgrees, SendingInv, UnderWay, Halves, Slots, States, Stop, Service,
         available
<1>4. ReceivingInv'
  BY DEF TypeOK, ChannelAgrees, SendingInv, ReceivingInv, UnderWay, Run, NewestSeen, Halves,
         Slots, States, Stop, Service, available
<1>5. QED  BY <1>1, <1>2, <1>3, <1>4

LEMMA WriteStep ==
    ASSUME IInv, NEW size \in 0 .. Size, Write(size)
    PROVE  IInv'
<1> USE I2SAssumption DEF IInv
<1> DEFINE n == Least(size, availableForWrite)
<1>s. /\ begun /\ state \in {"IDLE", "TRANSMITTER"} /\ state' = "TRANSMITTER"
      /\ nWritten' = nWritten + n /\ buffer' = Filled(n)
      /\ UNCHANGED <<life, flags, nOut, nIn, lastRead, errors>>
  BY DEF Write, Open
<1>i. /\ ~dmaTransferInProgress /\ available + n > 0 =>
          /\ dmaTransferInProgress' = TRUE
          /\ Transfer(valid, available + n)
          /\ index' = Other(index)
          /\ length' = [length EXCEPT ![index] = @ + n, ![Other(index)] = 0]
          /\ readOffset' = [readOffset EXCEPT ![Other(index)] = 0]
      /\ ~(~dmaTransferInProgress /\ available + n > 0) =>
          /\ length' = [length EXCEPT ![index] = @ + n]
          /\ UNCHANGED <<readOffset, index, dmaTransferInProgress, channel>>
  BY DEF Write
<1> HIDE DEF n
<1>t. /\ index \in Halves /\ \A h \in Halves : length[h] \in 0 .. Size /\ readOffset[h] \in 0 .. Size
      /\ nWritten \in Nat /\ nOut \in Nat
  BY DEF TypeOK
<1>r. \A h \in Halves : readOffset[h] = 0
  BY <1>s, <1>t DEF ChannelAgrees, SendingInv
<1>o. Other(index) \in Halves /\ Other(index) # index
  BY <1>t DEF Other, Halves
<1>n. n \in 0 .. Size /\ length[index] + n \in 0 .. Size /\ available = length[index]
  BY <1>t, <1>r DEF n, Least, availableForWrite, available
<1>w. \A h \in Halves : readOffset'[h] = 0 /\ length'[h] \in 0 .. Size
  BY <1>i, <1>t, <1>r, <1>o, <1>n DEF TypeOK
<1>1. TypeOK'
  <2>1. nWritten' \in Nat
    BY <1>s, <1>t, <1>n
  <2>2. Filled(n) \in [Halves -> [Slots -> Nat]]
    <3> DEFINE f == [s \in Slots |-> IF s \in length[index] .. length[index] + n - 1
                                     THEN nWritten + 1 + (s - length[index]) ELSE buffer[index][s]]
    <3>1. buffer \in [Halves -> [Slots -> Nat]] /\ buffer[index] \in [Slots -> Nat]
      BY <1>t DEF TypeOK
    <3>2. f \in [Slots -> Nat]
      <4>1. \A x \in Slots : buffer[index][x] \in Nat /\ x \in Int
        BY <3>1 DEF Slots
      <4>2. \A x \in Slots : (IF x \in length[index] .. length[index] + n - 1
                              THEN nWritten + 1 + (x - length[index]) ELSE buffer[index][x]) \in Nat
        <5> TAKE x \in Slots
        <5>1. CASE x \in length[index] .. length[index] + n - 1
          BY <1>t, <1>n, <4>1, <5>1
        <5>2. CASE x \notin length[index] .. length[index] + n - 1
          BY <4>1, <5>2
        <5>3. QED  BY <5>1, <5>2
      <4>3. QED  BY <4>2
    <3>3. Filled(n) = [buffer EXCEPT ![index] = f]
      BY <3>1 DEF Filled
    <3>4. QED  BY <1>t, <3>1, <3>2, <3>3, Zenon
  <2>3. /\ index' \in Halves /\ length' \in [Halves -> 0 .. Size]
        /\ readOffset' \in [Halves -> 0 .. Size]
    <3>1. length[index] + n \in 0 .. Size /\ 0 \in 0 .. Size
      BY <1>n
    <3>2. CASE ~dmaTransferInProgress /\ available + n > 0
      BY <1>o, <1>i, <3>1, <3>2 DEF TypeOK
    <3>3. CASE ~(~dmaTransferInProgress /\ available + n > 0)
      BY <1>i, <3>1, <3>3 DEF TypeOK
    <3>4. QED  BY <3>2, <3>3
  <2>4. dmaTransferInProgress' \in BOOLEAN /\ valid' \in BOOLEAN /\ running' \in BOOLEAN
    BY <1>i DEF TypeOK, Transfer
  <2>5. dmaHalf' \in Halves /\ dmaPos' \in 0 .. Size /\ dmaEnd' \in 0 .. Size
    BY <1>t, <1>n, <1>i DEF TypeOK, Transfer
  <2>6. state' \in States
    BY <1>s DEF States
  <2>7. QED  BY <1>s, <2>1, <2>2, <2>3, <2>4, <2>5, <2>6, Zenon DEF TypeOK
<1>2. ChannelAgrees'
  <2>1. CASE ~dmaTransferInProgress /\ available + n > 0
    <3>1. /\ ~valid /\ ~tcmpl /\ ~terr
      BY <1>s, <2>1 DEF ChannelAgrees
    <3>2. /\ dmaTransferInProgress' /\ valid' /\ running' /\ dmaHalf' = index
          /\ dmaPos' = 0 /\ dmaEnd' = length[index] + n /\ index' = Other(index)
      BY <1>i, <1>n, <2>1, <3>1 DEF Transfer
    <3>3. QED  BY <1>s, <1>t, <1>o, <1>n, <1>w, <2>1, <3>1, <3>2 DEF ChannelAgrees
  <2>2. CASE ~(~dmaTransferInProgress /\ available + n > 0)
    BY <1>s, <1>i, <1>t, <1>n, <1>w, <2>2 DEF ChannelAgrees
  <2>3. QED  BY <2>1, <2>2
<1>3. SendingInv'
  <2>1. /\ UNCHANGED <<ending, terr, tcmpl, nOut, errors>>
    BY <1>s 
  <2>2. \A s \in Slots :
            buffer'[index][s] = IF s >= length[index] /\ s < length[index] + n
                                THEN nWritten + 1 + (s - length[index]) ELSE buffer[index][s]
    BY <1>s, <1>t, <1>n DEF TypeOK, Filled, Slots
  <2>3. \A h \in Halves : h # index => buffer'[h] = buffer[h]
    BY <1>s, <1>t DEF TypeOK, Filled
  <2>4. CASE ~dmaTransferInProgress /\ available + n > 0
    <3>1. ~valid /\ length[index] = 0 /\ nWritten = nOut
      BY <1>s, <1>t, <2>4 DEF ChannelAgrees, SendingInv
    <3>2. /\ dmaTransferInProgress' /\ running' /\ dmaHalf' = index
          /\ dmaPos' = 0 /\ dmaEnd' = n /\ index' = Other(index)
      <4>1. available + n = n /\ n > 0
        BY <1>n, <2>4, <3>1
      <4>2. QED  BY <1>i, <2>4, <3>1, <4>1 DEF Transfer
    <3>4. length'[Other(index)] = 0
      <4>1. length' = [length EXCEPT ![index] = @ + n, ![Other(index)] = 0]
        BY <1>i, <2>4
      <4>2. QED  BY <1>o, <4>1 DEF TypeOK
    <3>3. QED  BY <1>s, <1>t, <1>o, <1>n, <1>w, <2>1, <2>2, <3>1, <3>2, <3>4 DEF SendingInv, UnderWay, Slots
  <2>5. CASE ~(~dmaTransferInProgress /\ available + n > 0)
    <3>1. /\ UNCHANGED <<readOffset, index, dmaTransferInProgress, valid, running, dmaHalf, dmaPos, dmaEnd>>
          /\ length'[index] = length[index] + n
      BY <1>i, <1>t, <2>5 DEF TypeOK
    <3>2. ~dmaTransferInProgress => ~UnderWay /\ length[index] = 0 /\ n = 0
      BY <1>s, <1>t, <1>n, <2>5 DEF ChannelAgrees, UnderWay
    <3>3. UnderWay' = UnderWay
      BY <2>1, <3>1 DEF UnderWay
    <3>4. dmaTransferInProgress => state = "TRANSMITTER"
      BY <1>s DEF ChannelAgrees
    <3>5. ~dmaTransferInProgress => nWritten = nOut
      BY <1>s DEF ChannelAgrees, SendingInv
    <3>6. CASE ~dmaTransferInProgress
      BY <1>s, <1>t, <1>n, <1>w, <2>1, <3>1, <3>2, <3>3, <3>5, <3>6 DEF SendingInv
    <3>7. CASE dmaTransferInProgress /\ ~UnderWay
      BY <1>s, <1>w, <2>1, <3>1, <3>3, <3>4, <3>7 DEF SendingInv
    <3>8. CASE dmaTransferInProgress /\ UnderWay
      <4>1. index # dmaHalf /\ dmaHalf \in Halves /\ dmaPos \in Nat /\ dmaEnd \in Nat
        BY <1>s, <3>8 DEF TypeOK, ChannelAgrees, UnderWay
      <4>2. buffer'[dmaHalf] = buffer[dmaHalf]
        BY <2>3, <4>1
      <4>3. /\ nWritten' = nOut' + (dmaEnd' - dmaPos') + length'[index']
            /\ \A s \in Slots : s >= dmaPos' /\ s < dmaEnd'
                   => buffer'[dmaHalf'][s] = nOut' + 1 + (s - dmaPos')
        BY <1>s, <1>t, <1>n, <2>1, <3>1, <3>4, <3>8, <4>1, <4>2 DEF SendingInv
      <4>4. \A s \in Slots : s < length'[index']
                   => buffer'[index'][s] = nOut' + (dmaEnd' - dmaPos') + 1 + s
        <5>1. /\ nWritten = nOut + (dmaEnd - dmaPos) + length[index]
              /\ \A s \in Slots : s < length[index]
                     => buffer[index][s] = nOut + (dmaEnd - dmaPos) + 1 + s
          BY <3>4, <3>8 DEF SendingInv
        <5>2. nOut \in Nat /\ nWritten \in Nat /\ length[index] \in Nat /\ n \in Nat
          BY <1>t, <1>n
        <5>3. /\ nOut' = nOut /\ dmaEnd' = dmaEnd /\ dmaPos' = dmaPos /\ index' = index
              /\ length'[index'] = length[index] + n
          BY <2>1, <3>1
        <5> SUFFICES ASSUME NEW s \in Slots, s < length[index] + n
                     PROVE  buffer'[index][s] = nOut + (dmaEnd - dmaPos) + 1 + s
          BY <5>3
        <5>4. s \in Int
          BY DEF Slots
        <5>5. CASE s < length[index]
          BY <2>2, <5>1, <5>2, <5>4, <5>5
        <5>6. CASE s >= length[index]
          <6>1. buffer'[index][s] = nWritten + 1 + (s - length[index])
            BY <2>2, <5>6
          <6>2. QED  BY <4>1, <5>1, <5>2, <5>4, <6>1
        <5>7. QED  BY <5>2, <5>4, <5>5, <5>6
      <4>5. QED  BY <1>w, <3>1, <3>3, <3>8, <4>3, <4>4 DEF SendingInv
    <3>9. QED  BY <3>6, <3>7, <3>8
  <2>6. QED  BY <2>4, <2>5
<1>4. ReceivingInv'
  BY <1>s DEF ReceivingInv
<1>5. QED  BY <1>1, <1>2, <1>3, <1>4

LEMMA ReadStep ==
    ASSUME IInv, NEW size \in 0 .. Size, Read(size)
    PROVE  IInv'
<1> USE I2SAssumption DEF IInv
<1> DEFINE n == Least(size, available)
<1>s. /\ begun /\ state \in {"IDLE", "RECEIVER"} /\ state' = "RECEIVER"
      /\ n = 0 => lastRead' = lastRead
      /\ n # 0 => lastRead' = buffer[index][readOffset[index] + n - 1]
      /\ UNCHANGED <<buffer, life, flags, nWritten, nOut, nIn, errors>>
  BY DEF Read, Open
<1>i. /\ NeedsInput(available - n) =>
          /\ dmaTransferInProgress' = TRUE
          /\ Transfer(valid, Size - (available - n))
          /\ index' = Other(index)
          /\ length' = [length EXCEPT ![Other(index)] = 0]
          /\ readOffset' = [readOffset EXCEPT ![index] = @ + n, ![Other(index)] = 0]
      /\ ~NeedsInput(available - n) =>
          /\ readOffset' = [readOffset EXCEPT ![index] = @ + n]
          /\ UNCHANGED <<length, index, dmaTransferInProgress, channel>>
  BY DEF Read
<1> HIDE DEF n
<1>t. /\ index \in Halves /\ \A h \in Halves : length[h] \in 0 .. Size /\ readOffset[h] \in 0 .. Size
      /\ nIn \in Nat /\ lastRead \in Nat
      /\ \A h \in Halves : \A s \in Slots : buffer[h][s] \in Nat
  BY DEF TypeOK
<1>o. Other(index) \in Halves /\ Other(index) # index
  BY <1>t DEF Other, Halves
<1>n. /\ available = length[index] - readOffset[index] /\ available \in 0 .. Size
      /\ n \in 0 .. available /\ readOffset[index] + n \in 0 .. length[index]
      /\ readOffset[index] + n \in 0 .. Size
  BY <1>t DEF n, Least, available, ChannelAgrees
<1>p. n # 0 => readOffset[index] + n - 1 \in Slots /\ state = "RECEIVER"
  BY <1>s, <1>t, <1>n DEF ChannelAgrees, Slots
<1>l. lastRead' \in Nat
  BY <1>s, <1>t, <1>p
<1>h. \A h \in Halves : length'[h] \in 0 .. Size /\ readOffset'[h] \in 0 .. Size
                        /\ readOffset'[h] <= length'[h]
  BY <1>i, <1>t, <1>o, <1>n DEF TypeOK, ChannelAgrees
<1>1. TypeOK'
  <2>1. state' \in States
    BY <1>s DEF States
  <2>2. /\ index' \in Halves /\ length' \in [Halves -> 0 .. Size]
        /\ readOffset' \in [Halves -> 0 .. Size]
    <3>1. CASE NeedsInput(available - n)
      <4>1. readOffset[index] + n \in 0 .. Size /\ 0 \in 0 .. Size
        BY <1>n
      <4>2. QED  BY <1>o, <1>i, <3>1, <4>1 DEF TypeOK
    <3>2. CASE ~NeedsInput(available - n)
      BY <1>t, <1>n, <1>i, <3>2 DEF TypeOK
    <3>3. QED  BY <3>1, <3>2
  <2>3. dmaTransferInProgress' \in BOOLEAN
    <3>1. CASE NeedsInput(available - n)
      BY <1>i, <3>1
    <3>2. CASE ~NeedsInput(available - n)
      BY <1>i, <3>2 DEF TypeOK
    <3>3. QED  BY <3>1, <3>2
  <2>4. /\ valid' \in BOOLEAN /\ running' \in BOOLEAN
        /\ dmaHalf' \in Halves /\ dmaPos' \in 0 .. Size /\ dmaEnd' \in 0 .. Size
    <3>1. CASE NeedsInput(available - n)
      <4>1. Transfer(valid, Size - (available - n)) /\ Size - (available - n) \in 0 .. Size
        BY <1>i, <1>n, <3>1 DEF NeedsInput
      <4>2. CASE valid
        BY <4>1, <4>2 DEF Transfer, TypeOK
      <4>3. CASE ~valid
        <5>1. (0 \in 0 .. Size) /\ ((Size - (available - n) > 0) \in BOOLEAN)
          BY <1>n
        <5>2. QED  BY <1>t, <4>1, <4>3, <5>1 DEF Transfer
      <4>4. QED  BY <4>2, <4>3
    <3>2. CASE ~NeedsInput(available - n)
      BY <1>i, <3>2 DEF TypeOK
    <3>3. QED  BY <3>1, <3>2
  <2>5. QED  BY <1>s, <1>l, <2>1, <2>2, <2>3, <2>4, Zenon DEF TypeOK
<1>2. ChannelAgrees'
  <2>1. CASE NeedsInput(available - n)
    <3>1. /\ ~valid /\ ~tcmpl /\ ~terr /\ available - n = 0
      BY <1>s, <2>1 DEF ChannelAgrees, NeedsInput
    <3>2. /\ dmaTransferInProgress' /\ valid' /\ running' /\ dmaHalf' = index
          /\ dmaPos' = 0 /\ dmaEnd' = Size /\ index' = Other(index)
      <4>1. Size - (available - n) = Size /\ Size > 0
        BY <3>1
      <4>2. QED  BY <1>i, <2>1, <3>1, <4>1 DEF Transfer
    <3>3. QED  BY <1>s, <1>t, <1>o, <1>h, <3>1, <3>2 DEF ChannelAgrees
  <2>2. CASE ~NeedsInput(available - n)
    BY <1>s, <1>i, <1>t, <1>h, <2>2 DEF ChannelAgrees
  <2>3. QED  BY <2>1, <2>2
<1>3. SendingInv'
  BY DEF TypeOK, ChannelAgrees, SendingInv, UnderWay, Halves, Slots, States, Read, Open,
         NeedsInput, Transfer, available, Other, Least
<1>4. ReceivingInv'
  <2>1. /\ lastRead' <= nIn
        /\ \A s \in Slots : s >= readOffset[index] + n /\ s < length[index] =>
              /\ buffer[index][s] = buffer[index][length[index] - 1] - (length[index] - 1 - s)
              /\ lastRead' < buffer[index][s] /\ buffer[index][s] <= nIn
    <3>1. CASE n = 0
      <4>1. lastRead' = lastRead /\ lastRead <= nIn
        BY <1>s, <3>1 DEF ReceivingInv
      <4>2. CASE state = "RECEIVER"
        BY <1>n, <1>t, <3>1, <4>1, <4>2 DEF ReceivingInv, Run, Slots
      <4>3. CASE state = "IDLE"
        BY <1>s, <1>n, <1>t, <3>1, <4>1, <4>3 DEF ChannelAgrees, Slots
      <4>4. QED  BY <1>s, <4>2, <4>3
    <3>2. CASE n # 0
      <4>1. Run(index, readOffset[index], length[index], lastRead)
        BY <1>p, <3>2 DEF ReceivingInv
      <4>2. lastRead' = buffer[index][length[index] - 1] - (length[index] - (readOffset[index] + n))
            /\ lastRead' <= nIn
        <5>1. /\ readOffset[index] + n - 1 >= readOffset[index]
              /\ readOffset[index] + n - 1 < length[index]
              /\ readOffset[index] + n - 1 \in Slots
          BY <1>n, <1>t, <1>p, <3>2
        <5>2. length[index] - 1 - (readOffset[index] + n - 1) = length[index] - (readOffset[index] + n)
          BY <1>n, <1>t
        <5>3. QED  BY <1>s, <3>2, <4>1, <5>1, <5>2 DEF Run
      <4>3. length[index] - 1 \in Slots
        BY <1>n, <1>t, <3>2 DEF Slots
      <4>4. QED  BY <1>t, <1>n, <3>2, <4>1, <4>2, <4>3 DEF Run, Slots
    <3>3. QED  BY <3>1, <3>2
  <2>2. nIn' = nIn /\ buffer' = buffer /\ tcmpl' = tcmpl
    BY <1>s 
  <2>3. CASE NeedsInput(available - n)
    <3>0. ~valid /\ available - n = 0
      BY <1>s, <2>3 DEF ChannelAgrees, NeedsInput
    <3>1. dmaPos' = 0 /\ dmaEnd' = Size /\ index' = Other(index)
      BY <1>i, <1>n, <2>3, <3>0 DEF Transfer
    <3>2. length'[Other(index)] = 0
      <4>1. length' = [length EXCEPT ![Other(index)] = 0]
        BY <1>i, <2>3
      <4>2. QED  BY <1>o, <4>1 DEF TypeOK
    <3>3. Run(index, readOffset[index], length[index], lastRead)'
      BY <3>1, <3>2, <1>h, <1>o DEF Run, Slots
    <3>4. Run(dmaHalf, 0, dmaPos, NewestSeen)'
      BY <3>1 DEF Run, Slots
    <3>5. QED  BY <2>1, <2>2, <3>1, <3>3, <3>4 DEF ReceivingInv
  <2>4. CASE ~NeedsInput(available - n)
    <3>1. /\ UNCHANGED <<length, index, dmaTransferInProgress, valid, running, dmaHalf, dmaPos, dmaEnd>>
          /\ readOffset'[index] = readOffset[index] + n
      BY <1>i, <1>t, <2>4 DEF TypeOK
    <3>2. Run(index, readOffset[index], length[index], lastRead)'
      BY <2>1, <2>2, <3>1 DEF Run
    <3>3. CASE UnderWay
      <4>1. state = "RECEIVER"
        BY <1>s, <3>3 DEF ChannelAgrees, UnderWay
      <4>2. NewestSeen' = NewestSeen
        <5>1. CASE available - n = 0 /\ n # 0
          <6>1. readOffset[index] + n = length[index] /\ available # 0 /\ available' = 0
            <7>1. readOffset[index] + n = length[index] /\ available # 0
              BY <1>n, <1>t, <5>1
            <7>2. available' = length[index] - (readOffset[index] + n)
              BY <3>1 DEF available
            <7>3. length[index] \in Int
              BY <1>t
            <7>4. available' = length[index] - length[index]
              BY <7>1, <7>2
            <7>5. length[index] - length[index] = 0
              BY <7>3
            <7>6. QED  BY <7>1, <7>4, <7>5, Zenon
          <6>2. lastRead' = buffer[index][length[index] - 1]
            <7>1. lastRead' = buffer[index][readOffset[index] + n - 1]
              BY <1>s, <5>1
            <7>2. readOffset[index] + n - 1 = length[index] - 1
              BY <1>n, <1>t, <6>1
            <7>3. QED  BY <7>1, <7>2
          <6>3. QED  BY <6>1, <6>2, Zenon DEF NewestSeen
        <5>2. CASE available - n # 0
          <6>1. available # 0 /\ available' # 0
            BY <1>n, <1>t, <3>1, <5>2 DEF available
          <6>2. QED  BY <2>2, <3>1, <6>1 DEF NewestSeen
        <5>3. CASE n = 0
          <6>1. available' = available
            BY <1>n, <1>t, <3>1, <5>3 DEF available
          <6>2. QED  BY <1>s, <2>2, <3>1, <5>3, <6>1 DEF NewestSeen
        <5>4. QED  BY <5>1, <5>2, <5>3
      <4>3. QED  BY <1>s, <2>1, <2>2, <3>1, <3>2, <3>3, <4>1, <4>2 DEF ReceivingInv, Run, UnderWay
    <3>4. CASE ~UnderWay
      BY <1>s, <2>1, <2>2, <3>1, <3>2, <3>4 DEF ReceivingInv, UnderWay
    <3>5. QED  BY <3>3, <3>4
  <2>5. QED  BY <2>3, <2>4
<1>5. QED  BY <1>1, <1>2, <1>3, <1>4

-----------------------------------------------------------------------------
LEMMA InitIInv ==
    Init => IInv
<1> SUFFICES ASSUME Init PROVE IInv
  OBVIOUS
<1> USE I2SAssumption DEF Init
<1>1. TypeOK
  <2>1. /\ length \in [Halves -> 0 .. Size] /\ readOffset \in [Halves -> 0 .. Size]
        /\ buffer \in [Halves -> [Slots -> Nat]]
    BY DEF Halves, Slots
  <2>2. QED  BY <2>1 DEF TypeOK, Halves, States
<1>2. ChannelAgrees
  BY DEF ChannelAgrees, Halves
<1>3. SendingInv /\ ReceivingInv
  BY DEF SendingInv, ReceivingInv, Run, UnderWay, NewestSeen, available
<1>4. QED  BY <1>1, <1>2, <1>3 DEF IInv

LEMMA StepIInv ==
    IInv /\ [Next]_vars => IInv'
<1> SUFFICES ASSUME IInv, [Next]_vars PROVE IInv'
  OBVIOUS
<1>1. CASE Sketch
  BY <1>1, BeginStep, AvailableForWriteStep, EndFreeStep, EndClearStep,
     ReadStep, WriteStep DEF Sketch
<1>2. CASE SendBeat \/ Arrive \/ TransferError
  BY <1>2, SendBeatStep, ArriveStep, TransferErrorStep
<1>3. CASE DmaInterrupt
  BY <1>3, ServiceErrorStep, SendNextStep, ReceiveNextStep, StopStep DEF DmaInterrupt
<1>4. CASE UNCHANGED vars
  BY <1>4 DEF IInv, TypeOK, ChannelAgrees, SendingInv, ReceivingInv, Run, UnderWay, NewestSeen,
              available, vars, doubleBuffer, channel, flags, life, counts
<1>5. QED  BY <1>1, <1>2, <1>3, <1>4 DEF Next

\* Every variable of the double buffer and of the channel keeps its type.
THEOREM TypeCorrect ==
    Spec => []TypeOK
<1>1. IInv => TypeOK
  BY DEF IInv
<1>2. QED  BY <1>1, InitIInv, StepIInv, PTL DEF Spec

\* The sketch and the DMA channel work on different halves, through every
\* swap by write(), read() and the completion interrupt.
THEOREM HalvesStayApart ==
    Spec => []HalvesApart
<1>1. IInv => HalvesApart
  BY DEF IInv, ChannelAgrees, HalvesApart
<1>2. QED  BY <1>1, InitIInv, StepIInv, PTL DEF Spec

\* Samples go out in the order of the write() calls, none twice, none skipped.
THEOREM OrderOut ==
    Spec => []SentInOrder
<1>1. IInv => SentInOrder
  <2> SUFFICES ASSUME IInv, state = "TRANSMITTER", running
               PROVE  buffer[dmaHalf][dmaPos] = nOut + 1
    BY DEF SentInOrder
  <2>1. dmaPos \in Slots /\ dmaPos < dmaEnd /\ dmaPos - dmaPos = 0
    BY I2SAssumption DEF IInv, TypeOK, ChannelAgrees, Slots
  <2>2. buffer[dmaHalf][dmaPos] = nOut + 1 + (dmaPos - dmaPos)
    BY <2>1 DEF IInv, SendingInv, UnderWay, TypeOK
  <2>3. QED  BY <2>1, <2>2 DEF IInv, TypeOK
<1>2. QED  BY <1>1, InitIInv, StepIInv, PTL DEF Spec

\* Samples that wait in the sketch's half have a transfer before them whose
\* completion sends them, unless the channel has met an error.
THEOREM WaitingIsServed ==
    Spec => []NotForgotten
<1>1. IInv => NotForgotten
  <2> SUFFICES ASSUME IInv, state = "TRANSMITTER", available > 0, errors = 0, ~ending
               PROVE  dmaTransferInProgress /\ UnderWay
    BY DEF NotForgotten, UnderWay
  <2>1. /\ length[index] \in Nat /\ readOffset[index] \in Nat
        /\ index \in Halves
    BY DEF IInv, TypeOK
  <2>2. length[index] # 0
    BY <2>1 DEF available, IInv, SendingInv
  <2>3. QED  BY <2>2 DEF IInv, SendingInv
<1>2. QED  BY <1>1, InitIInv, StepIInv, PTL DEF Spec

\* What read() will return is newer than what it has returned and has no gap
\* inside a half.
THEOREM OrderIn ==
    Spec => []InputInOrder
<1>1. IInv => InputInOrder
  <2> SUFFICES ASSUME IInv, state = "RECEIVER", NEW s \in readOffset[index] .. length[index] - 1
               PROVE  /\ lastRead < buffer[index][s] /\ buffer[index][s] <= nIn
                      /\ s > readOffset[index] => buffer[index][s] = buffer[index][s - 1] + 1
    BY DEF InputInOrder
  <2>1. /\ index \in Halves /\ length[index] \in 0 .. Size /\ readOffset[index] \in 0 .. Size
        /\ \A x \in Slots : buffer[index][x] \in Nat
    BY DEF IInv, TypeOK
  <2>2. s \in Slots /\ s \in Int /\ length[index] - 1 \in Slots
    BY <2>1, I2SAssumption DEF Slots
  <2>3. Run(index, readOffset[index], length[index], lastRead)
    BY DEF IInv, ReceivingInv
  <2>4. /\ buffer[index][s] = buffer[index][length[index] - 1] - (length[index] - 1 - s)
        /\ lastRead < buffer[index][s] /\ buffer[index][s] <= nIn
    BY <2>1, <2>2, <2>3 DEF Run
  <2>5. CASE s > readOffset[index]
    <3>1. s - 1 \in Slots /\ s - 1 >= readOffset[index] /\ s - 1 < length[index]
      BY <2>1, <2>2, <2>5, I2SAssumption DEF Slots
    <3>2. buffer[index][s - 1] = buffer[index][length[index] - 1] - (length[index] - 1 - (s - 1))
      BY <2>3, <3>1 DEF Run
    <3>3. QED  BY <2>1, <2>2, <2>4, <3>1, <3>2
  <2>6. QED  BY <2>4, <2>5
<1>2. QED  BY <1>1, InitIInv, StepIInv, PTL DEF Spec
=============================================================================

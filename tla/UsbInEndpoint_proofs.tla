--------------------------- MODULE UsbInEndpoint_proofs --------------------------
(***************************************************************************)
(* The host gets the bytes of the sketch in order, none twice, and loses   *)
(* only those that a time-out, a reset or a configuration gave up, and the *)
(* first packet after a repeated SET_CONFIGURATION, for every packet size  *)
(* and every number of writes, faults, resets and configurations.          *)
(***************************************************************************)
EXTENDS UsbInEndpoint, FiniteSetTheorems, TLAPS

USE DEF config, call, bank, host, bus

(***************************************************************************)
(* The inductive invariant.                                                *)
(***************************************************************************)

Waiting == {"test", "wait", "copy"}    \* len bytes are still to be copied
Filling == {"count", "ack", "arm"}     \* the bank is in the thread's hands

\* What is left of the call fits.
CallInv ==
    /\ pc \in Waiting => len >= 1 /\ written + len <= MaxWrite /\ copied + len <= MaxBytes
    /\ pc \in Filling =>
        /\ length >= 1 /\ length <= len
        /\ written + len <= MaxWrite /\ copied + len - length <= MaxBytes
        /\ Cardinality(memory) = length

\* The controller is at work only on an armed bank, which the thread does not
\* touch; the descriptor says how many bytes are in it, or none.
BankInv ==
    /\ onBus # NoPacket => ready /\ configured
    /\ onBus = {} => byteCount = 0
    /\ complete => ~ready
    /\ pc \in Filling \cup {"copy"} => ~ready
    /\ pc = "arm" => ~complete
    /\ pc \in {"ack", "arm"} => byteCount = length
    /\ ready => byteCount = 0 \/ byteCount = Cardinality(memory)
    /\ memory \subseteq 1 .. copied

\* The toggles agree except after a lost handshake or a repeated configuration,
\* and what the host will take is newer than all it has.
OrderInv ==
    /\ toggle # hostToggle => (ready /\ configured) \/ reconfigured
    /\ ~configured /\ ~reconfigured => toggle = 0 /\ hostToggle = 0
    /\ (pc \in Filling \/ (ready /\ configured /\ toggle = hostToggle)) =>
            \A r \in received, b \in memory : r < b
    /\ received \subseteq 1 .. copied

\* A bank that is given up, or that the host has taken or skipped, is accounted
\* for; one that may still be sent is not given up.
LossInv ==
    /\ dropped \subseteq 1 .. copied /\ skipped \subseteq 1 .. copied
    /\ ready /\ byteCount = 0 => memory \subseteq received \cup dropped \cup skipped \cup onBus
    /\ toggle # hostToggle /\ ~reconfigured => memory \subseteq received \cup dropped
    /\ (pc \in Filling \/ (ready /\ configured /\ byteCount # 0)) => memory \cap dropped = {}
    /\ (pc \in Filling \/ (ready /\ configured /\ toggle = hostToggle)) =>
            memory \cap skipped = {}
    /\ onBus \cap dropped = {}

\* TypeOK in three parts.
FlagsOK ==
    /\ configured \in BOOLEAN /\ open \in BOOLEAN
    /\ pc \in {"idle", "test", "wait", "copy", "count", "ack", "arm", "done", "failed"}
    /\ timedOut \in BOOLEAN /\ ready \in BOOLEAN /\ complete \in BOOLEAN
    /\ toggle \in {0, 1} /\ hostToggle \in {0, 1} /\ misplaced \in BOOLEAN
    /\ reconfigured \in BOOLEAN

NumbersOK ==
    /\ len \in 0 .. MaxWrite /\ length \in 0 .. Size /\ written \in 0 .. MaxWrite
    /\ byteCount \in 0 .. Size /\ copied \in 0 .. MaxBytes
    /\ configs \in Nat /\ faults \in Nat

BytesOK ==
    /\ memory \subseteq Bytes /\ received \subseteq Bytes /\ dropped \subseteq Bytes
    /\ skipped \subseteq Bytes
    /\ onBus = NoPacket \/ onBus \subseteq Bytes

IInv ==
    /\ FlagsOK /\ NumbersOK /\ BytesOK /\ CallInv /\ BankInv /\ PacketIntact
    /\ OrderInv /\ InOrder /\ LossInv /\ OnlyGivenUpAreLost

-----------------------------------------------------------------------------
(* The constants, and the bank's bytes.                                    *)

LEMMA Consts ==
    /\ Size \in Nat /\ Size >= 1 /\ MaxWrite \in Nat /\ MaxWrite >= 1
    /\ MaxBytes \in Nat /\ MaxConfigs \in Nat /\ MaxFaults \in Nat
  BY InAssumption

LEMMA BankIsFinite == ASSUME BytesOK PROVE IsFiniteSet(memory)
<1>1. IsFiniteSet(1 .. MaxBytes)
  BY FS_Interval, InAssumption
<1> QED
  BY <1>1, FS_Subset DEF BytesOK, Bytes

\* A packet is all of the bank, or empty.
LEMMA PacketIsBank ==
    ASSUME NumbersOK, BytesOK, BankInv, ready
    PROVE  /\ byteCount = 0 => Packet = {}
           /\ byteCount # 0 => Packet = memory /\ Packet # {}
<1>1. IsFiniteSet(memory)
  BY BankIsFinite
<1>2. ASSUME NEW b \in memory
      PROVE  /\ Cardinality({a \in memory : a < b}) \in Nat
             /\ Cardinality({a \in memory : a < b}) < Cardinality(memory)
  <2>1. {a \in memory : a < b} \subseteq memory /\ {a \in memory : a < b} # memory
    BY <1>2 DEF BytesOK, Bytes
  <2>2. IsFiniteSet({a \in memory : a < b})
    BY <2>1, <1>1, FS_Subset
  <2> QED
    BY <2>1, <2>2, <1>1, FS_Subset, FS_CardinalityType
<1>3. byteCount = 0 => Packet = {}
  BY <1>2 DEF Packet, NumbersOK
<1>4. byteCount # 0 => Packet = memory /\ memory # {}
  BY <1>2, FS_EmptySet DEF Packet, BankInv
<1> QED
  BY <1>3, <1>4

-----------------------------------------------------------------------------
LEMMA InitIInv == Init => IInv
<1> SUFFICES ASSUME Init PROVE IInv
  OBVIOUS
<1>1. FlagsOK
  BY Consts DEF Init, NoPacket, FlagsOK
<1>2. NumbersOK
  BY Consts DEF Init, NumbersOK
<1>3. BytesOK
  BY DEF Init, BytesOK
<1>4. CallInv
  BY DEF Init, CallInv, Waiting, Filling
<1>5. BankInv
  BY DEF Init, BankInv
<1>6. PacketIntact
  BY DEF Init, PacketIntact
<1>7. OrderInv
  BY DEF Init, OrderInv
<1>8. InOrder
  BY Consts DEF Init, NoPacket, InOrder
<1>9. LossInv
  BY DEF Init, LossInv
<1>10. OnlyGivenUpAreLost
  BY DEF Init, OnlyGivenUpAreLost
<1> QED
  BY <1>1, <1>2, <1>3, <1>4, <1>5, <1>6, <1>7, <1>8, <1>9, <1>10 DEF IInv

LEMMA WriteStep ==
    ASSUME NEW n \in 1 .. MaxWrite, IInv, Write(n) PROVE IInv'
<1>1. FlagsOK'
  BY Consts DEF IInv, Write, FlagsOK
<1>2. NumbersOK'
  BY Consts DEF IInv, Write, NumbersOK
<1>3. BytesOK'
  BY DEF IInv, Write, BytesOK
<1>4. CallInv'
  BY DEF IInv, Write, CallInv, Waiting, Filling
<1>5. BankInv'
  BY DEF IInv, Write, BankInv, Filling
<1>6. PacketIntact'
  BY DEF IInv, Write, PacketIntact
<1>7. OrderInv'
  BY DEF IInv, Write, OrderInv, Filling
<1>8. InOrder'
  BY Consts DEF IInv, Write, InOrder
<1>9. LossInv'
  BY DEF IInv, Write, LossInv, Filling
<1>10. OnlyGivenUpAreLost'
  BY DEF IInv, Write, OnlyGivenUpAreLost
<1> QED
  BY <1>1, <1>2, <1>3, <1>4, <1>5, <1>6, <1>7, <1>8, <1>9, <1>10 DEF IInv

LEMMA TestReadyStep == IInv /\ TestReady => IInv'
<1> SUFFICES ASSUME IInv, TestReady PROVE IInv'
  OBVIOUS
<1>1. FlagsOK'
  BY Consts DEF IInv, TestReady, FlagsOK
<1>2. NumbersOK'
  BY DEF IInv, TestReady, NumbersOK
<1>3. BytesOK'
  BY DEF IInv, TestReady, BytesOK
<1>4. CallInv'
  BY DEF IInv, TestReady, CallInv, Waiting, Filling
<1>5. BankInv'
  BY DEF IInv, TestReady, BankInv, Filling
<1>6. PacketIntact'
  BY DEF IInv, TestReady, PacketIntact
<1>7. OrderInv'
  BY DEF IInv, TestReady, OrderInv, Filling
<1>8. InOrder'
  BY Consts DEF IInv, TestReady, InOrder
<1>9. LossInv'
  BY DEF IInv, TestReady, LossInv, Filling
<1>10. OnlyGivenUpAreLost'
  BY DEF IInv, TestReady, OnlyGivenUpAreLost
<1> QED
  BY <1>1, <1>2, <1>3, <1>4, <1>5, <1>6, <1>7, <1>8, <1>9, <1>10 DEF IInv

LEMMA WaitCompleteStep == IInv /\ WaitComplete => IInv'
<1> SUFFICES ASSUME IInv, WaitComplete PROVE IInv'
  OBVIOUS
<1>1. FlagsOK'
  BY Consts DEF IInv, WaitComplete, FlagsOK
<1>2. NumbersOK'
  BY DEF IInv, WaitComplete, NumbersOK
<1>3. BytesOK'
  BY DEF IInv, WaitComplete, BytesOK
<1>4. CallInv'
  BY DEF IInv, WaitComplete, CallInv, Waiting, Filling
<1>5. BankInv'
  BY DEF IInv, WaitComplete, BankInv
<1>6. PacketIntact'
  BY DEF IInv, WaitComplete, PacketIntact
<1>7. OrderInv'
  BY DEF IInv, WaitComplete, OrderInv, Filling
<1>8. InOrder'
  BY Consts DEF IInv, WaitComplete, InOrder
<1>9. LossInv'
  BY DEF IInv, WaitComplete, LossInv, Filling
<1>10. OnlyGivenUpAreLost'
  BY DEF IInv, WaitComplete, OnlyGivenUpAreLost
<1> QED
  BY <1>1, <1>2, <1>3, <1>4, <1>5, <1>6, <1>7, <1>8, <1>9, <1>10 DEF IInv

LEMMA WaitTimeoutStep == IInv /\ WaitTimeout => IInv'
<1> SUFFICES ASSUME IInv, WaitTimeout PROVE IInv'
  OBVIOUS
<1>1. FlagsOK'
  BY Consts DEF IInv, WaitTimeout, GivenUp, FlagsOK
<1>2. NumbersOK'
  BY Consts DEF IInv, WaitTimeout, GivenUp, NumbersOK
<1>3. BytesOK'
  BY DEF IInv, WaitTimeout, GivenUp, BytesOK
<1>4. CallInv'
  BY DEF IInv, WaitTimeout, GivenUp, CallInv, Waiting, Filling
<1>5. BankInv'
  BY DEF IInv, WaitTimeout, GivenUp, BankInv, Filling
<1>6. PacketIntact'
  BY DEF IInv, WaitTimeout, GivenUp, PacketIntact
<1>7. OrderInv'
  BY DEF IInv, WaitTimeout, GivenUp, OrderInv, Filling
<1>8. InOrder'
  BY Consts DEF IInv, WaitTimeout, GivenUp, InOrder
<1>9. LossInv'
  BY DEF IInv, WaitTimeout, GivenUp, BankInv, LossInv, Filling
<1>10. OnlyGivenUpAreLost'
  BY DEF IInv, WaitTimeout, GivenUp, OnlyGivenUpAreLost
<1> QED
  BY <1>1, <1>2, <1>3, <1>4, <1>5, <1>6, <1>7, <1>8, <1>9, <1>10 DEF IInv

LEMMA CopyStep == IInv /\ Copy => IInv'
<1> SUFFICES ASSUME IInv, Copy PROVE IInv'
  OBVIOUS
<1>1. FlagsOK'
  BY Consts DEF IInv, Copy, Least, FlagsOK
<1>2. NumbersOK'
  BY Consts DEF IInv, Copy, Least, NumbersOK, CallInv, Waiting
<1>3. BytesOK'
  BY Consts DEF IInv, Copy, Least, NumbersOK, BytesOK, Bytes, CallInv, Waiting
<1>4. CallInv'
  <2>1. length' \in Nat /\ length' >= 1 /\ length' <= len /\ copied \in Nat
    BY Consts DEF IInv, Copy, Least, NumbersOK, CallInv, Waiting
  <2>2. Cardinality(copied + 1 .. copied + length') = length'
    BY <2>1, FS_Interval
  <2> QED
    BY <2>1, <2>2, Consts DEF IInv, Copy, FlagsOK, NumbersOK, CallInv, Waiting, Filling
<1>5. BankInv'
  BY DEF IInv, Copy, Least, NumbersOK, BankInv
<1>6. PacketIntact'
  BY DEF IInv, Copy, Least, BankInv, PacketIntact
<1>7. OrderInv'
  BY DEF IInv, Copy, Least, NumbersOK, OrderInv
<1>8. InOrder'
  BY Consts DEF IInv, Copy, Least, InOrder
<1>9. LossInv'
  BY DEF IInv, Copy, Least, NumbersOK, BankInv, LossInv, OrderInv
<1>10. OnlyGivenUpAreLost'
  BY DEF IInv, Copy, Least, NumbersOK, BankInv, OnlyGivenUpAreLost
<1> QED
  BY <1>1, <1>2, <1>3, <1>4, <1>5, <1>6, <1>7, <1>8, <1>9, <1>10 DEF IInv

LEMMA CountStep == IInv /\ Count => IInv'
<1> SUFFICES ASSUME IInv, Count PROVE IInv'
  OBVIOUS
<1>1. FlagsOK'
  BY Consts DEF IInv, Count, FlagsOK
<1>2. NumbersOK'
  BY DEF IInv, Count, NumbersOK
<1>3. BytesOK'
  BY DEF IInv, Count, BytesOK
<1>4. CallInv'
  BY DEF IInv, Count, CallInv, Waiting, Filling
<1>5. BankInv'
  BY DEF IInv, Count, NoPacket, BankInv, Filling
<1>6. PacketIntact'
  BY DEF IInv, Count, PacketIntact
<1>7. OrderInv'
  BY DEF IInv, Count, OrderInv, Filling
<1>8. InOrder'
  BY Consts DEF IInv, Count, InOrder
<1>9. LossInv'
  BY DEF IInv, Count, BankInv, LossInv, Filling
<1>10. OnlyGivenUpAreLost'
  BY DEF IInv, Count, OnlyGivenUpAreLost
<1> QED
  BY <1>1, <1>2, <1>3, <1>4, <1>5, <1>6, <1>7, <1>8, <1>9, <1>10 DEF IInv

LEMMA AckStep == IInv /\ Ack => IInv'
<1> SUFFICES ASSUME IInv, Ack PROVE IInv'
  OBVIOUS
<1>1. FlagsOK'
  BY Consts DEF IInv, Ack, FlagsOK
<1>2. NumbersOK'
  BY DEF IInv, Ack, NumbersOK
<1>3. BytesOK'
  BY DEF IInv, Ack, BytesOK
<1>4. CallInv'
  BY DEF IInv, Ack, CallInv, Waiting, Filling
<1>5. BankInv'
  BY DEF IInv, Ack, BankInv, Filling
<1>6. PacketIntact'
  BY DEF IInv, Ack, PacketIntact
<1>7. OrderInv'
  BY DEF IInv, Ack, OrderInv, Filling
<1>8. InOrder'
  BY Consts DEF IInv, Ack, InOrder
<1>9. LossInv'
  BY DEF IInv, Ack, LossInv, Filling
<1>10. OnlyGivenUpAreLost'
  BY DEF IInv, Ack, OnlyGivenUpAreLost
<1> QED
  BY <1>1, <1>2, <1>3, <1>4, <1>5, <1>6, <1>7, <1>8, <1>9, <1>10 DEF IInv

LEMMA ArmStep == IInv /\ Arm => IInv'
<1> SUFFICES ASSUME IInv, Arm PROVE IInv'
  OBVIOUS
<1>1. FlagsOK'
  BY Consts DEF IInv, Arm, FlagsOK
<1>2. NumbersOK'
  BY Consts DEF IInv, Arm, NumbersOK, CallInv, Filling
<1>3. BytesOK'
  BY DEF IInv, Arm, BytesOK
<1>4. CallInv'
  BY DEF IInv, Arm, NumbersOK, CallInv, Waiting, Filling
<1>5. BankInv'
  BY DEF IInv, Arm, CallInv, BankInv, Filling
<1>6. PacketIntact'
  BY DEF IInv, Arm, PacketIntact
<1>7. OrderInv'
  BY DEF IInv, Arm, OrderInv, Filling
<1>8. InOrder'
  BY Consts DEF IInv, Arm, InOrder
<1>9. LossInv'
  BY DEF IInv, Arm, BankInv, LossInv, CallInv, Filling
<1>10. OnlyGivenUpAreLost'
  BY DEF IInv, Arm, OnlyGivenUpAreLost
<1> QED
  BY <1>1, <1>2, <1>3, <1>4, <1>5, <1>6, <1>7, <1>8, <1>9, <1>10 DEF IInv

LEMMA ReturnStep == IInv /\ Return => IInv'
<1> SUFFICES ASSUME IInv, Return PROVE IInv'
  OBVIOUS
<1>1. FlagsOK'
  BY Consts DEF IInv, Return, FlagsOK
<1>2. NumbersOK'
  BY Consts DEF IInv, Return, NumbersOK
<1>3. BytesOK'
  BY DEF IInv, Return, BytesOK
<1>4. CallInv'
  BY DEF IInv, Return, CallInv, Waiting, Filling
<1>5. BankInv'
  BY DEF IInv, Return, BankInv, Filling
<1>6. PacketIntact'
  BY DEF IInv, Return, PacketIntact
<1>7. OrderInv'
  BY DEF IInv, Return, OrderInv, Filling
<1>8. InOrder'
  BY Consts DEF IInv, Return, InOrder
<1>9. LossInv'
  BY DEF IInv, Return, LossInv, Filling
<1>10. OnlyGivenUpAreLost'
  BY DEF IInv, Return, OnlyGivenUpAreLost
<1> QED
  BY <1>1, <1>2, <1>3, <1>4, <1>5, <1>6, <1>7, <1>8, <1>9, <1>10 DEF IInv

LEMMA PollStep == IInv /\ Poll => IInv'
<1> SUFFICES ASSUME IInv, Poll PROVE IInv'
  OBVIOUS
<1>1. FlagsOK'
  BY Consts DEF IInv, Poll, FlagsOK
<1>2. NumbersOK'
  BY DEF IInv, Poll, NumbersOK
<1>3. BytesOK'
  <2>1. \/ byteCount = 0 /\ onBus' = {}
        \/ byteCount # 0 /\ onBus' = memory
    BY PacketIsBank DEF IInv, Poll
  <2> QED
    BY <2>1, Consts DEF IInv, Poll, BytesOK
<1>4. CallInv'
  BY DEF IInv, Poll, CallInv
<1>5. BankInv'
  <2>1. onBus' = {} => byteCount = 0
    BY PacketIsBank DEF IInv, Poll
  <2> QED
    BY <2>1 DEF IInv, Poll, BankInv, Filling, NoPacket
<1>6. PacketIntact'
  <2>1. \/ byteCount = 0 /\ onBus' = {}
        \/ byteCount # 0 /\ onBus' = memory
    BY PacketIsBank DEF IInv, Poll
  <2> QED
    BY <2>1, Consts DEF IInv, Poll, PacketIntact, NoPacket
<1>7. OrderInv'
  BY DEF IInv, Poll, OrderInv
<1>8. InOrder'
  BY Consts DEF IInv, Poll, InOrder
<1>9. LossInv'
  <2>1. ready /\ configured /\ onBus = NoPacket /\ pc \notin Filling /\ 0 \notin memory
    BY DEF IInv, Poll, BankInv, BytesOK, Bytes
  <2>2. UNCHANGED <<pc, memory, byteCount, ready, configured, toggle, hostToggle, received,
                    dropped, skipped, reconfigured, copied>>
    BY DEF Poll
  <2>3. CASE byteCount = 0
    <3>1. onBus' = {} /\ memory \subseteq received \cup dropped \cup skipped
      BY <2>1, <2>3, PacketIsBank DEF IInv, Poll, LossInv, NoPacket
    <3> QED
      BY <2>1, <2>2, <2>3, <3>1 DEF IInv, LossInv, Filling
  <2>4. CASE byteCount # 0
    <3>1. onBus' = memory
      BY <2>1, <2>4, PacketIsBank DEF IInv, Poll
    <3> QED
      BY <2>1, <2>2, <2>4, <3>1 DEF IInv, LossInv, Filling
  <2> QED
    BY <2>3, <2>4
<1>10. OnlyGivenUpAreLost'
  <2>1. \/ byteCount = 0 /\ onBus' = {}
        \/ byteCount # 0 /\ onBus' = memory
    BY PacketIsBank DEF IInv, Poll
  <2> QED
    BY <2>1, Consts DEF IInv, Poll, OnlyGivenUpAreLost, BankInv, NoPacket, NumbersOK
<1> QED
  BY <1>1, <1>2, <1>3, <1>4, <1>5, <1>6, <1>7, <1>8, <1>9, <1>10 DEF IInv

\* What the bank held the host has now, or had, or has skipped, or it was given up.
LEMMA DeliverAccounts ==
    ASSUME IInv, Deliver
    PROVE  /\ memory \subseteq received' \cup dropped \cup skipped'
           /\ ~reconfigured \/ toggle = hostToggle => memory \subseteq received' \cup dropped
<1>1. ready /\ configured /\ onBus \subseteq memory
  BY DEF IInv, Deliver, BankInv, PacketIntact
<1>2. byteCount # 0 => onBus = memory
  BY DEF IInv, Deliver, BankInv, PacketIntact
<1>3. received' \cup skipped' = received \cup skipped \cup
          (IF toggle = hostToggle \/ reconfigured THEN onBus ELSE {})
  BY DEF Deliver, Take, IInv, LossInv
<1>4. CASE toggle = hostToggle
  BY <1>1, <1>2, <1>4 DEF IInv, Deliver, Take, LossInv
<1>5. CASE toggle # hostToggle /\ reconfigured
  BY <1>1, <1>2, <1>3, <1>5 DEF IInv, LossInv
<1>6. CASE toggle # hostToggle /\ ~reconfigured
  BY <1>6 DEF IInv, Deliver, Take, LossInv
<1> QED
  BY <1>4, <1>5, <1>6

LEMMA DeliverStep == IInv /\ Deliver => IInv'
<1> SUFFICES ASSUME IInv, Deliver PROVE IInv'
  OBVIOUS
<1>1. FlagsOK'
  <2>1. misplaced' \in BOOLEAN
    BY Zenon DEF IInv, Deliver, Take, FlagsOK
  <2>2. hostToggle' \in {0, 1} /\ toggle' \in {0, 1}
    BY DEF IInv, Deliver, Take, FlagsOK
  <2> QED
    BY <2>1, <2>2 DEF IInv, Deliver, FlagsOK
<1>2. NumbersOK'
  BY DEF IInv, Deliver, Take, NumbersOK
<1>3. BytesOK'
  BY DEF IInv, Deliver, Take, BytesOK
<1>4. CallInv'
  BY DEF IInv, Deliver, Take, CallInv
<1>5. BankInv'
  BY DEF IInv, Deliver, Take, NoPacket, BankInv, Filling
<1>6. PacketIntact'
  BY DEF IInv, Deliver, Take, PacketIntact
<1>7. OrderInv'
  <2>1. toggle ' = hostToggle'
    BY DEF IInv, Deliver, Take, FlagsOK
  <2>2. ready /\ configured /\ pc \notin Filling /\ onBus \subseteq 1 .. copied
    BY DEF IInv, Deliver, BankInv, PacketIntact
  <2>3. received' \subseteq 1 .. copied
    BY <2>2 DEF IInv, Deliver, Take, OrderInv
  <2> QED
    BY <2>1, <2>2, <2>3 DEF Deliver, OrderInv
<1>8. InOrder'
  <2>1. ready /\ configured /\ onBus \subseteq memory
    BY DEF IInv, Deliver, BankInv, PacketIntact
  <2>2. ASSUME toggle = hostToggle, NEW b \in onBus, NEW r \in received PROVE ~ (b <= r)
    <3>1. b \in Nat /\ r \in Nat /\ r < b
      BY <2>1, <2>2 DEF IInv, OrderInv, BytesOK, Bytes
    <3> QED
      BY <3>1
  <2>3. CASE toggle = hostToggle
    BY <2>2, <2>3, Zenon DEF IInv, Deliver, Take, InOrder
  <2>4. CASE toggle # hostToggle
    BY <2>4 DEF IInv, Deliver, Take, InOrder
  <2> QED
    BY <2>3, <2>4
<1>9. LossInv'
  <2>1. ready /\ configured /\ pc \notin Filling /\ onBus \subseteq memory
    BY DEF IInv, Deliver, BankInv, PacketIntact
  <2>2. memory \subseteq received' \cup dropped \cup skipped'
    BY DeliverAccounts
  <2>3. dropped \subseteq 1 .. copied /\ 0 \notin 1 .. copied
    BY DEF IInv, LossInv, NumbersOK
  <2>4. toggle' = hostToggle'
    BY DEF IInv, Deliver, Take, FlagsOK
  <2>5. skipped' \subseteq 1 .. copied
    BY <2>1 DEF IInv, Deliver, Take, BankInv, LossInv
  <2> QED
    BY <2>1, <2>2, <2>3, <2>4, <2>5 DEF IInv, Deliver, LossInv, NoPacket, Filling
<1>10. OnlyGivenUpAreLost'
  <2>1. ready /\ configured /\ pc \notin Filling /\ onBus \subseteq memory
    BY DEF IInv, Deliver, BankInv, PacketIntact
  <2>2. memory \subseteq received' \cup dropped \cup skipped'
    BY DeliverAccounts
  <2>3. received' \cap (dropped \cup skipped') = {}
    BY <2>1 DEF IInv, Deliver, Take, LossInv, OnlyGivenUpAreLost
  <2>4. 1 .. copied \subseteq received \cup dropped \cup skipped \cup memory
    BY <2>1 DEF IInv, OnlyGivenUpAreLost
  <2>5. received \subseteq received' /\ skipped \subseteq skipped'
    BY DEF Deliver, Take
  <2> QED
    BY <2>2, <2>3, <2>4, <2>5 DEF Deliver, OnlyGivenUpAreLost
<1> QED
  BY <1>1, <1>2, <1>3, <1>4, <1>5, <1>6, <1>7, <1>8, <1>9, <1>10 DEF IInv

\* What the bank held the host has now, or had, or has skipped, or it was given up.
LEMMA LoseHandshakeAccounts ==
    ASSUME IInv, LoseHandshake
    PROVE  /\ memory \subseteq received' \cup dropped \cup skipped'
           /\ ~reconfigured \/ toggle = hostToggle => memory \subseteq received' \cup dropped
<1>1. ready /\ configured /\ onBus \subseteq memory
  BY DEF IInv, LoseHandshake, BankInv, PacketIntact
<1>2. byteCount # 0 => onBus = memory
  BY DEF IInv, LoseHandshake, BankInv, PacketIntact
<1>3. received' \cup skipped' = received \cup skipped \cup
          (IF toggle = hostToggle \/ reconfigured THEN onBus ELSE {})
  BY DEF LoseHandshake, Take, IInv, LossInv
<1>4. CASE toggle = hostToggle
  BY <1>1, <1>2, <1>4 DEF IInv, LoseHandshake, Take, LossInv
<1>5. CASE toggle # hostToggle /\ reconfigured
  BY <1>1, <1>2, <1>3, <1>5 DEF IInv, LossInv
<1>6. CASE toggle # hostToggle /\ ~reconfigured
  BY <1>6 DEF IInv, LoseHandshake, Take, LossInv
<1> QED
  BY <1>4, <1>5, <1>6

LEMMA LoseHandshakeStep == IInv /\ LoseHandshake => IInv'
<1> SUFFICES ASSUME IInv, LoseHandshake PROVE IInv'
  OBVIOUS
<1>1. FlagsOK'
  <2>1. misplaced' \in BOOLEAN
    BY Zenon DEF IInv, LoseHandshake, Take, FlagsOK
  <2>2. hostToggle' \in {0, 1} /\ toggle' \in {0, 1}
    BY DEF IInv, LoseHandshake, Take, FlagsOK
  <2> QED
    BY <2>1, <2>2 DEF IInv, LoseHandshake, FlagsOK
<1>2. NumbersOK'
  BY DEF IInv, LoseHandshake, Take, NumbersOK
<1>3. BytesOK'
  BY DEF IInv, LoseHandshake, Take, BytesOK
<1>4. CallInv'
  BY DEF IInv, LoseHandshake, Take, CallInv
<1>5. BankInv'
  BY DEF IInv, LoseHandshake, Take, NoPacket, BankInv
<1>6. PacketIntact'
  BY DEF IInv, LoseHandshake, Take, PacketIntact
<1>7. OrderInv'
  <2>1. toggle # hostToggle'
    BY DEF IInv, LoseHandshake, Take, FlagsOK
  <2>2. ready /\ configured /\ pc \notin Filling /\ onBus \subseteq 1 .. copied
    BY DEF IInv, LoseHandshake, BankInv, PacketIntact
  <2>3. received' \subseteq 1 .. copied
    BY <2>2 DEF IInv, LoseHandshake, Take, OrderInv
  <2> QED
    BY <2>1, <2>2, <2>3 DEF LoseHandshake, OrderInv
<1>8. InOrder'
  <2>1. ready /\ configured /\ onBus \subseteq memory
    BY DEF IInv, LoseHandshake, BankInv, PacketIntact
  <2>2. ASSUME toggle = hostToggle, NEW b \in onBus, NEW r \in received PROVE ~ (b <= r)
    <3>1. b \in Nat /\ r \in Nat /\ r < b
      BY <2>1, <2>2 DEF IInv, OrderInv, BytesOK, Bytes
    <3> QED
      BY <3>1
  <2>3. CASE toggle = hostToggle
    BY <2>2, <2>3, Zenon DEF IInv, LoseHandshake, Take, InOrder
  <2>4. CASE toggle # hostToggle
    BY <2>4 DEF IInv, LoseHandshake, Take, InOrder
  <2> QED
    BY <2>3, <2>4
<1>9. LossInv'
  <2>1. ready /\ configured /\ pc \notin Filling /\ onBus \subseteq memory
    BY DEF IInv, LoseHandshake, BankInv, PacketIntact
  <2>2. memory \subseteq received' \cup dropped \cup skipped'
    BY LoseHandshakeAccounts
  <2>3. dropped \subseteq 1 .. copied /\ 0 \notin 1 .. copied
    BY DEF IInv, LossInv, NumbersOK
  <2> QED
    <3>1. toggle # hostToggle'
      BY DEF IInv, LoseHandshake, Take, FlagsOK
    <3>2. skipped' \subseteq 1 .. copied
      BY <2>1 DEF IInv, LoseHandshake, Take, BankInv, LossInv
    <3>3. ~reconfigured => memory \subseteq received' \cup dropped
      BY LoseHandshakeAccounts
    <3> QED
      BY <2>1, <2>2, <2>3, <3>1, <3>2, <3>3 DEF IInv, LoseHandshake, LossInv, NoPacket, Filling
<1>10. OnlyGivenUpAreLost'
  <2>1. ready /\ configured /\ pc \notin Filling /\ onBus \subseteq memory
    BY DEF IInv, LoseHandshake, BankInv, PacketIntact
  <2>2. memory \subseteq received' \cup dropped \cup skipped'
    BY LoseHandshakeAccounts
  <2>3. received' \cap (dropped \cup skipped') = {}
    BY <2>1 DEF IInv, LoseHandshake, Take, LossInv, OnlyGivenUpAreLost
  <2>4. 1 .. copied \subseteq received \cup dropped \cup skipped \cup memory
    BY <2>1 DEF IInv, OnlyGivenUpAreLost
  <2>5. received \subseteq received' /\ skipped \subseteq skipped'
    BY DEF LoseHandshake, Take
  <2> QED
    BY <2>2, <2>3, <2>4, <2>5 DEF LoseHandshake, OnlyGivenUpAreLost
<1> QED
  BY <1>1, <1>2, <1>3, <1>4, <1>5, <1>6, <1>7, <1>8, <1>9, <1>10 DEF IInv

LEMMA LosePacketStep == IInv /\ LosePacket => IInv'
<1> SUFFICES ASSUME IInv, LosePacket PROVE IInv'
  OBVIOUS
<1>1. FlagsOK'
  BY Consts DEF IInv, LosePacket, FlagsOK
<1>2. NumbersOK'
  BY DEF IInv, LosePacket, NumbersOK
<1>3. BytesOK'
  BY DEF IInv, LosePacket, BytesOK
<1>4. CallInv'
  BY DEF IInv, LosePacket, CallInv
<1>5. BankInv'
  BY DEF IInv, LosePacket, NoPacket, BankInv
<1>6. PacketIntact'
  BY DEF IInv, LosePacket, PacketIntact
<1>7. OrderInv'
  BY DEF IInv, LosePacket, OrderInv
<1>8. InOrder'
  BY Consts DEF IInv, LosePacket, InOrder
<1>9. LossInv'
  <2>1. ready /\ configured /\ pc \notin Filling /\ onBus \subseteq memory
    BY DEF IInv, LosePacket, BankInv, PacketIntact
  <2>2. 0 \notin 1 .. copied
    BY DEF IInv, NumbersOK
  <2>3. dropped' \subseteq 1 .. copied /\ dropped \subseteq dropped'
    BY <2>1 DEF IInv, LosePacket, BankInv, LossInv
  <2> QED
    BY <2>1, <2>2, <2>3 DEF IInv, LosePacket, LossInv, NoPacket, Filling
<1>10. OnlyGivenUpAreLost'
  <2>1. ready /\ onBus \subseteq memory
    BY DEF IInv, LosePacket, BankInv, PacketIntact
  <2> QED
    BY <2>1 DEF IInv, LosePacket, OnlyGivenUpAreLost
<1> QED
  BY <1>1, <1>2, <1>3, <1>4, <1>5, <1>6, <1>7, <1>8, <1>9, <1>10 DEF IInv

LEMMA BusResetStep == IInv /\ BusReset => IInv'
<1> SUFFICES ASSUME IInv, BusReset PROVE IInv'
  OBVIOUS
<1>1. FlagsOK'
  BY Consts DEF IInv, BusReset, GivenUp, FlagsOK
<1>2. NumbersOK'
  BY DEF IInv, BusReset, GivenUp, NumbersOK
<1>3. BytesOK'
  BY DEF IInv, BusReset, GivenUp, BytesOK
<1>4. CallInv'
  BY DEF IInv, BusReset, GivenUp, CallInv
<1>5. BankInv'
  <2>1. (ready' => ready) /\ (complete' => complete)
    <3>1. ready' = ready \/ ready' = FALSE
      BY DEF BusReset
    <3>2. complete' = complete \/ complete' = FALSE
      BY DEF BusReset
    <3> QED
      BY <3>1, <3>2 DEF IInv, FlagsOK
  <2>2. onBus = NoPacket /\ UNCHANGED <<pc, length, memory, byteCount, onBus, copied>>
    BY DEF BusReset
  <2> QED
    BY <2>1, <2>2 DEF IInv, BankInv, NoPacket
<1>6. PacketIntact'
  BY DEF IInv, BusReset, GivenUp, PacketIntact
<1>7. OrderInv'
  BY DEF IInv, BusReset, GivenUp, OrderInv
<1>8. InOrder'
  BY Consts DEF IInv, BusReset, GivenUp, InOrder
<1>9. LossInv'
  <2>1. (ready' => ready) /\ (complete' => complete)
    <3>1. ready' = ready \/ ready' = FALSE
      BY DEF BusReset
    <3>2. complete' = complete \/ complete' = FALSE
      BY DEF BusReset
    <3> QED
      BY <3>1, <3>2 DEF IInv, FlagsOK
  <2>2. /\ onBus = NoPacket /\ UNCHANGED <<pc, memory, byteCount, onBus, received, copied>>
        /\ dropped' = dropped \cup GivenUp /\ toggle' = hostToggle' /\ ~configured' /\ UNCHANGED skipped
    BY DEF BusReset
  <2>3. dropped' \subseteq 1 .. copied
    BY <2>2 DEF IInv, GivenUp, BankInv, LossInv
  <2>4. ready => memory \subseteq received \cup dropped' \cup onBus
    BY <2>2 DEF GivenUp
  <2>5. pc \in Filling => dropped' = dropped
    BY <2>2 DEF IInv, GivenUp, BankInv
  <2>6. onBus' \cap dropped' = {}
    BY <2>2, <2>3, Consts DEF IInv, NoPacket, NumbersOK
  <2> QED
    BY <2>1, <2>2, <2>3, <2>4, <2>5, <2>6 DEF IInv, LossInv
<1>10. OnlyGivenUpAreLost'
  BY DEF IInv, BusReset, GivenUp, OnlyGivenUpAreLost
<1> QED
  BY <1>1, <1>2, <1>3, <1>4, <1>5, <1>6, <1>7, <1>8, <1>9, <1>10 DEF IInv

LEMMA ConfigureStep == IInv /\ Configure => IInv'
<1> SUFFICES ASSUME IInv, Configure PROVE IInv'
  OBVIOUS
<1>1. FlagsOK'
  BY Consts DEF IInv, Configure, GivenUp, FlagsOK
<1>2. NumbersOK'
  BY DEF IInv, Configure, GivenUp, NumbersOK
<1>3. BytesOK'
  BY DEF IInv, Configure, GivenUp, BytesOK
<1>4. CallInv'
  BY DEF IInv, Configure, GivenUp, CallInv
<1>5. BankInv'
  BY DEF IInv, Configure, GivenUp, BankInv
<1>6. PacketIntact'
  BY DEF IInv, Configure, GivenUp, PacketIntact
<1>7. OrderInv'
  BY DEF IInv, Configure, GivenUp, OrderInv
<1>8. InOrder'
  BY Consts DEF IInv, Configure, GivenUp, InOrder
<1>9. LossInv'
  <2>1. dropped' \subseteq 1 .. copied
    BY DEF IInv, Configure, GivenUp, BankInv, LossInv
  <2>2. pc \in Filling => dropped' = dropped
    BY DEF IInv, Configure, GivenUp, BankInv
  <2>3. toggle' # hostToggle' => reconfigured'
    BY DEF IInv, Configure, OrderInv
  <2>4. 0 \notin dropped'
    BY <2>1 DEF IInv, NumbersOK
  <2> QED
    BY <2>1, <2>2, <2>3, <2>4 DEF IInv, Configure, LossInv, NoPacket
<1>10. OnlyGivenUpAreLost'
  BY DEF IInv, Configure, GivenUp, OnlyGivenUpAreLost
<1> QED
  BY <1>1, <1>2, <1>3, <1>4, <1>5, <1>6, <1>7, <1>8, <1>9, <1>10 DEF IInv

LEMMA SetLineStateStep == IInv /\ SetLineState => IInv'
<1> SUFFICES ASSUME IInv, SetLineState PROVE IInv'
  OBVIOUS
<1>1. FlagsOK'
  BY Consts DEF IInv, SetLineState, FlagsOK
<1>2. NumbersOK'
  BY DEF IInv, SetLineState, NumbersOK
<1>3. BytesOK'
  BY DEF IInv, SetLineState, BytesOK
<1>4. CallInv'
  BY DEF IInv, SetLineState, CallInv
<1>5. BankInv'
  BY DEF IInv, SetLineState, BankInv
<1>6. PacketIntact'
  BY DEF IInv, SetLineState, PacketIntact
<1>7. OrderInv'
  BY DEF IInv, SetLineState, OrderInv
<1>8. InOrder'
  BY Consts DEF IInv, SetLineState, InOrder
<1>9. LossInv'
  BY DEF IInv, SetLineState, LossInv
<1>10. OnlyGivenUpAreLost'
  BY DEF IInv, SetLineState, OnlyGivenUpAreLost
<1> QED
  BY <1>1, <1>2, <1>3, <1>4, <1>5, <1>6, <1>7, <1>8, <1>9, <1>10 DEF IInv

LEMMA StutterStep == IInv /\ UNCHANGED vars => IInv'
  BY DEF vars, IInv, FlagsOK, NumbersOK, BytesOK, CallInv, BankInv, PacketIntact, OrderInv,
         InOrder, LossInv,
         OnlyGivenUpAreLost

LEMMA StepIInv == IInv /\ [Next]_vars => IInv'
<1> SUFFICES ASSUME IInv, [Next]_vars PROVE IInv'
  OBVIOUS
<1>1. CASE SendStep
  BY <1>1, TestReadyStep, WaitCompleteStep, WaitTimeoutStep, CopyStep, CountStep, AckStep,
     ArmStep, ReturnStep DEF SendStep
<1>2. CASE Poll \/ Deliver \/ LoseHandshake \/ LosePacket
  BY <1>2, PollStep, DeliverStep, LoseHandshakeStep, LosePacketStep
<1>3. CASE BusReset \/ Configure \/ SetLineState
  BY <1>3, BusResetStep, ConfigureStep, SetLineStateStep
<1>4. CASE \E n \in 1 .. MaxWrite : Write(n)
  BY <1>4, WriteStep
<1>5. CASE UNCHANGED vars
  BY <1>5, StutterStep
<1> QED
  BY <1>1, <1>2, <1>3, <1>4, <1>5 DEF Next

-----------------------------------------------------------------------------
THEOREM Invariance == Spec => []IInv
  BY InitIInv, StepIInv, PTL DEF Spec

\* Every variable keeps its type.
THEOREM TypeCorrect == Spec => []TypeOK
<1>1. IInv => TypeOK
  BY DEF IInv, TypeOK, FlagsOK, NumbersOK, BytesOK
<1> QED
  BY <1>1, Invariance, PTL

\* A packet is not overwritten while it is sent.
THEOREM PacketsIntact == Spec => []PacketIntact
<1>1. IInv => PacketIntact
  BY DEF IInv
<1> QED
  BY <1>1, Invariance, PTL

\* The host gets the bytes in order, none twice.
THEOREM HostInOrder == Spec => []InOrder
<1>1. IInv => InOrder
  BY DEF IInv
<1> QED
  BY <1>1, Invariance, PTL

\* Only what a time-out, a reset or a configuration gave up is lost, and the
\* first packet after a repeated SET_CONFIGURATION; and it is lost for good.
THEOREM NothingElseLost == Spec => []OnlyGivenUpAreLost
<1>1. IInv => OnlyGivenUpAreLost
  BY DEF IInv
<1> QED
  BY <1>1, Invariance, PTL
=============================================================================

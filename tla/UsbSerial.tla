------------------------------- MODULE UsbSerial ------------------------------
(***************************************************************************)
(* The receiving side of the USB serial port: Serial_ of CDC.cpp over      *)
(* USBDeviceClass::recv of USBCore.cpp over the endpoint handler of        *)
(* UsbOutEndpoint, with the bus events the USB interrupt handles: a reset, *)
(* a SET_CONFIGURATION (which deletes the handler and creates a new one)   *)
(* and a complete transfer.                                                *)
(***************************************************************************)
EXTENDS UsbOutEndpoint

CONSTANTS
    SizeT,          \* number of values of size_t and uint32_t (2^32)
    MaxRequest,     \* bound on the length of a readBytes()
    MaxConfigs,     \* bound on the SET_CONFIGURATION requests
    BusyConfigure   \* whether one may come while the sketch is in a read

ASSUME SerialAssumption ==
    /\ MaxRequest \in Nat \ {0} /\ MaxConfigs \in Nat /\ BusyConfigure \in BOOLEAN
    /\ SizeT \in Nat /\ SizeT > Size /\ SizeT > MaxRequest

VARIABLES
    configured,     \* _usbConfiguration is not 0
    configs,        \* SET_CONFIGURATION requests so far
    op,             \* the method of Serial_ the sketch is in
    serialPeek,     \* _serialPeek: -1, or the byte that peek() took
    count, length   \* locals of readBytes()

serial == <<configured, configs, op, serialPeek, count, length>>
vars == <<endpoint, serial>>

TypeOK ==
    /\ TypeEndpoint
    /\ configured \in BOOLEAN /\ configs \in Nat
    /\ op \in {"none", "read", "peek", "readBytes", "available"}
    /\ serialPeek \in Nat \cup {-1}
    /\ count \in 0 .. SizeT - 1 /\ length \in 0 .. MaxRequest

Init ==
    /\ InitEndpoint
    /\ configured = FALSE /\ configs = 0
    /\ op = "none" /\ serialPeek = -1 /\ count = 0 /\ length = 0

-----------------------------------------------------------------------------
(* What the sketch calls *)

\* USBDeviceClass::recv is entered with a request of n bytes.
EnterRecv(n) ==
    /\ pc' = "config" /\ len' = n
    /\ UNCHANGED <<handler, base, controller, nSent, bank, i, ret, taken>>

\* recv returns -1, as an unsigned number, when the device is not configured.
NotConfigured == SizeT - 1

RecvConfigured ==
    /\ pc = "config"
    /\ IF configured THEN pc' = "ready" /\ UNCHANGED ret ELSE RecvReturn(NotConfigured)
    /\ UNCHANGED <<handler, base, controller, nSent, bank, len, i, taken, serial>>

Idle == op = "none" /\ configs > 0

\* read() and peek() give the byte an earlier peek() took.
TakePeeked ==
    /\ Idle /\ serialPeek # -1
    /\ serialPeek' \in {serialPeek, -1}
    /\ UNCHANGED <<endpoint, configured, configs, op, count, length>>

CallByte(method) ==
    /\ Idle /\ serialPeek = -1
    /\ op' = method
    /\ EnterRecv(1)
    /\ UNCHANGED <<configured, configs, serialPeek, count, length>>

CallRead == CallByte("read")
CallPeek == CallByte("peek")

CallReadBytes ==
    /\ Idle
    /\ \E n \in 1 .. MaxRequest : length' = n /\ EnterRecv(n)
    /\ op' = "readBytes" /\ count' = 0
    /\ UNCHANGED <<configured, configs, serialPeek>>

CallAvailable ==
    /\ Idle
    /\ op' = "available"
    /\ AvailableReady
    /\ UNCHANGED <<configured, configs, serialPeek, count, length>>

\* The call returns and its locals are gone.
Leave ==
    /\ pc' = "idle" /\ op' = "none"
    /\ bank' = 0 /\ len' = 0 /\ i' = 0 /\ ret' = 0
    /\ UNCHANGED <<handler, base, controller, nSent, taken>>

ReturnRead ==
    /\ pc = "returned" /\ op \in {"read", "available"}
    /\ Leave
    /\ UNCHANGED <<configured, configs, serialPeek, count, length>>

\* recv(ep) is -1 unless exactly one byte came.
ReturnPeek ==
    /\ pc = "returned" /\ op = "peek"
    /\ serialPeek' = IF ret = 1 THEN taken ELSE -1
    /\ Leave
    /\ UNCHANGED <<configured, configs, count, length>>

\* readBytes() gives up on nothing received when its timeout has passed.
ReadBytesTimeout ==
    /\ pc = "returned" /\ op = "readBytes" /\ ret = 0
    /\ Leave
    /\ UNCHANGED <<configured, configs, serialPeek, count, length>>

ReadBytesAgain ==
    /\ pc = "returned" /\ op = "readBytes" /\ (count + ret) % SizeT < length
    /\ count' = (count + ret) % SizeT
    /\ EnterRecv(length - count')
    /\ UNCHANGED <<configured, configs, op, serialPeek, length>>

ReadBytesFull ==
    /\ pc = "returned" /\ op = "readBytes" /\ (count + ret) % SizeT >= length
    /\ count' = (count + ret) % SizeT
    /\ Leave
    /\ UNCHANGED <<configured, configs, serialPeek, length>>

-----------------------------------------------------------------------------
(* The bus *)

\* SET_CONFIGURATION: initEndpoints deletes the handler and creates one, and
\* malloc gives it the memory of the old one, so a thread inside the old one
\* goes on in the new one.  Configuration 0 creates the handler all the same.
SetConfiguration ==
    /\ configs < MaxConfigs
    /\ BusyConfigure \/ pc = "idle"
    /\ configs' = configs + 1
    /\ configured' \in BOOLEAN
    /\ NewHandler
    /\ UNCHANGED <<op, serialPeek, count, length>>

EndOfReset ==
    /\ configured' = FALSE
    /\ ResetEndpoint
    /\ UNCHANGED <<configs, op, serialPeek, count, length>>

HandlerStep == (RecvStep \/ AvailableCount) /\ UNCHANGED serial
SerialStep == ReturnRead \/ ReturnPeek \/ ReadBytesTimeout \/ ReadBytesAgain \/ ReadBytesFull
Call == TakePeeked \/ CallRead \/ CallPeek \/ CallReadBytes \/ CallAvailable
Interrupt == HandleEndpoint /\ UNCHANGED serial
Host == (Transfer /\ UNCHANGED serial) \/ SetConfiguration \/ EndOfReset

Next == Call \/ RecvConfigured \/ HandlerStep \/ SerialStep \/ Interrupt \/ Host

Spec == Init /\ [][Next]_vars

\* The pending USB interrupt, at the highest priority, is served, and the call
\* the sketch is in goes on; neither the sketch nor the host has to do anything.
Fairness == WF_vars(Interrupt) /\ WF_vars(RecvConfigured \/ HandlerStep \/ SerialStep)

FairSpec == Spec /\ Fairness

-----------------------------------------------------------------------------
(* Properties *)

\* A sketch that keeps reading makes the endpoint accept transfers again.
Rearmed == []<>(pc = "ready") => []<>(armed \/ ~enabled)

\* A sketch that keeps reading takes every byte the controller accepted.
Received == []<>(pc = "ready") => \A k \in 1 .. MaxBytes : (nSent >= k ~> (taken >= k \/ ~enabled))

\* readBytes() returns the number of characters placed in the buffer.
CountInRange == [][(op = "readBytes" /\ op' = "none") => count' \in 0 .. length']_vars
=============================================================================

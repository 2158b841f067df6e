----------------------------- MODULE UsbInEndpoint -----------------------------
(***************************************************************************)
(* The sending side of the USB serial port: Serial_::write (USB/CDC.cpp)   *)
(* and USBDeviceClass::send (USB/USBCore.cpp), which copies a packet into  *)
(* the one bank of the endpoint, arms it, and waits for the packet before, *)
(* with a time-out of 70 ms; against the controller, whose packets and     *)
(* handshakes may get lost on the bus, and a host that polls when it likes,*)
(* resets the bus and configures the device, also more than once.          *)
(* A byte is its number in what the sketch writes.                         *)
(***************************************************************************)
EXTENDS Integers, FiniteSets

CONSTANTS
    Size,       \* EPX_SIZE: bytes in a packet
    MaxWrite,   \* bound on the size of a write()
    MaxBytes,   \* bound on the bytes handed to send()
    MaxConfigs, \* bound on the bus resets
    MaxFaults   \* bound on the packets and handshakes lost

ASSUME InAssumption ==
    /\ Size \in Nat \ {0} /\ MaxWrite \in Nat \ {0}
    /\ MaxBytes \in Nat /\ MaxConfigs \in Nat /\ MaxFaults \in Nat

VARIABLES
    configured, open,        \* _usbConfiguration, lineState > 0
    pc, len, length,         \* where send() is, its bytes left, those of the packet
    written,                 \* what it will return
    timedOut,                \* LastTransmitTimedOut[ep]
    memory,                  \* udd_ep_in_cache_buffer: the bytes in it
    byteCount, ready, complete,   \* PCKSIZE.BYTE_COUNT, BK1RDY, TRCPT1
    toggle,                  \* the data toggle of the endpoint
    onBus,                   \* the packet that the controller is sending
    hostToggle, received,    \* the host: the toggle expected, the bytes taken
    copied,                  \* the last byte copied into the bank
    dropped,                 \* bytes in the bank when it was given up
    reconfigured,            \* configured again, and no packet got through since
    skipped,                 \* bytes that the host took for a repetition after that
    misplaced,               \* the host took a byte after a later one, or twice
    configs, faults

config == <<configured, open, configs>>
call == <<pc, len, length, written>>
bank == <<memory, byteCount, ready, complete>>
host == <<hostToggle, received, misplaced, skipped>>
bus == <<toggle, onBus, host, reconfigured, faults>>
vars == <<config, call, timedOut, bank, bus, copied, dropped>>

Bytes == 1 .. MaxBytes
NoPacket == {0}

TypeOK ==
    /\ configured \in BOOLEAN /\ open \in BOOLEAN
    /\ pc \in {"idle", "test", "wait", "copy", "count", "ack", "arm", "done", "failed"}
    /\ len \in 0 .. MaxWrite /\ length \in 0 .. Size /\ written \in 0 .. MaxWrite
    /\ timedOut \in BOOLEAN /\ memory \subseteq Bytes /\ byteCount \in 0 .. Size
    /\ ready \in BOOLEAN /\ complete \in BOOLEAN /\ toggle \in {0, 1} /\ hostToggle \in {0, 1}
    /\ onBus = NoPacket \/ onBus \subseteq Bytes
    /\ received \subseteq Bytes /\ copied \in 0 .. MaxBytes /\ dropped \subseteq Bytes
    /\ reconfigured \in BOOLEAN /\ skipped \subseteq Bytes
    /\ misplaced \in BOOLEAN /\ configs \in Nat /\ faults \in Nat

Init ==
    /\ configured = FALSE /\ open = FALSE /\ configs = 0
    /\ pc = "idle" /\ len = 0 /\ length = 0 /\ written = 0 /\ timedOut = FALSE
    /\ memory = {} /\ byteCount = 0 /\ ready = FALSE /\ complete = FALSE
    /\ toggle = 0 /\ onBus = NoPacket /\ hostToggle = 0 /\ received = {} /\ misplaced = FALSE
    /\ faults = 0 /\ copied = 0 /\ dropped = {} /\ reconfigured = FALSE /\ skipped = {}

Least(a, b) == IF a < b THEN a ELSE b

-----------------------------------------------------------------------------
(* Serial_::write and send(), in the thread                                *)

\* Nothing is sent while the port is closed, or by a device not configured.
Write(n) ==
    /\ pc = "idle" /\ copied + n <= MaxBytes
    /\ written' = 0
    /\ IF open /\ configured THEN pc' = "test" /\ len' = n
                             ELSE pc' = "failed" /\ UNCHANGED len
    /\ UNCHANGED <<config, length, timedOut, bank, bus, copied, dropped>>

\* Mutant: a packet that is still armed is not waited for.
TestReadyNot ==
    /\ pc = "test"
    /\ pc' = "copy"
    /\ UNCHANGED <<config, len, length, written, timedOut, bank, bus, copied, dropped>>

\* Mutant: after a time-out the bank is not looked at.
TestReadyGaveUp ==
    /\ pc = "test"
    /\ pc' = IF timedOut THEN "failed" ELSE IF ready THEN "wait" ELSE "copy"
    /\ UNCHANGED <<config, len, length, written, timedOut, bank, bus, copied, dropped>>

\* Is the bank armed?
TestReady ==
    /\ pc = "test"
    /\ pc' = IF ready THEN "wait" ELSE "copy"
    /\ UNCHANGED <<config, len, length, written, timedOut, bank, bus, copied, dropped>>

WaitComplete ==
    /\ pc = "wait" /\ complete
    /\ pc' = "copy"
    /\ UNCHANGED <<config, len, length, written, timedOut, bank, bus, copied, dropped>>

\* The bytes in the bank that the host will not get when it is given up now.
GivenUp == IF ready THEN memory \ (received \cup onBus) ELSE {}

\* Mutant: the packet that timed out stays armed with its bytes.
WaitTimeoutStale ==
    /\ pc = "wait" /\ ~complete
    /\ pc' = "failed" /\ timedOut' = TRUE
    /\ dropped' = dropped \cup GivenUp
    /\ UNCHANGED <<config, len, length, written, bank, bus, copied>>

\* Mutant: only the first call in a row times out.
WaitTimeoutOnce ==
    /\ pc = "wait" /\ ~complete /\ ~timedOut
    /\ pc' = "failed" /\ timedOut' = TRUE
    /\ byteCount' = 0
    /\ dropped' = dropped \cup GivenUp
    /\ UNCHANGED <<config, len, length, written, memory, ready, complete, bus, copied>>

\* The time is up, or it was the time before: the packet shrinks to an empty one.
WaitTimeout ==
    /\ pc = "wait" /\ ~complete
    /\ pc' = "failed" /\ timedOut' = TRUE
    /\ byteCount' = 0
    /\ dropped' = dropped \cup GivenUp
    /\ UNCHANGED <<config, len, length, written, memory, ready, complete, bus, copied>>

\* Mutant: each packet begins with the first byte of the buffer.
CopyFromStart ==
    /\ pc = "copy"
    /\ pc' = "count" /\ timedOut' = FALSE
    /\ length' = Least(len, Size)
    /\ memory' = (copied - written) + 1 .. (copied - written) + length' /\ copied' = copied + length'
    /\ UNCHANGED <<config, len, written, byteCount, ready, complete, bus, dropped>>

\* memcpy into the bank
Copy ==
    /\ pc = "copy"
    /\ pc' = "count" /\ timedOut' = FALSE
    /\ length' = Least(len, Size)
    /\ memory' = copied + 1 .. copied + length' /\ copied' = copied + length'
    /\ UNCHANGED <<config, len, written, byteCount, ready, complete, bus, dropped>>

Count ==
    /\ pc = "count"
    /\ pc' = "ack" /\ byteCount' = length
    /\ UNCHANGED <<config, len, length, written, timedOut, memory, ready, complete, bus, copied, dropped>>

Ack ==
    /\ pc = "ack"
    /\ pc' = "arm" /\ complete' = FALSE
    /\ UNCHANGED <<config, len, length, written, timedOut, memory, byteCount, ready, bus, copied, dropped>>

\* The bank is armed; the loop goes on with the next packet.
Arm ==
    /\ pc = "arm"
    /\ ready' = TRUE
    /\ written' = written + length /\ len' = len - length
    /\ pc' = IF len' = 0 THEN "done" ELSE "test"
    /\ UNCHANGED <<config, length, timedOut, memory, byteCount, complete, bus, copied, dropped>>

Return ==
    /\ pc \in {"done", "failed"}
    /\ pc' = "idle" /\ len' = 0 /\ length' = 0 /\ written' = 0
    /\ UNCHANGED <<config, timedOut, bank, bus, copied, dropped>>

SendStep ==
    TestReady \/ WaitComplete \/ WaitTimeout \/ Copy \/ Count \/ Ack \/ Arm \/ Return

-----------------------------------------------------------------------------
(* The controller and the host                                             *)

Packet == {b \in memory : Cardinality({a \in memory : a < b}) < byteCount}

\* The host asks, the controller sends what is armed.
Poll ==
    /\ configured /\ ready /\ onBus = NoPacket
    /\ onBus' = Packet
    /\ UNCHANGED <<config, call, timedOut, bank, toggle, host, reconfigured, faults,
                   copied, dropped>>

\* The host takes a packet with the toggle that it expects, and any other for
\* one that it has taken already: after a repeated SET_CONFIGURATION it may be
\* wrong.
Take ==
    IF toggle = hostToggle
    THEN /\ received' = received \cup onBus
         /\ misplaced' = (misplaced \/ \E b \in onBus, r \in received : b <= r)
         /\ hostToggle' = 1 - hostToggle
         /\ UNCHANGED skipped
    ELSE /\ skipped' = IF reconfigured THEN skipped \cup (onBus \ received) ELSE skipped
         /\ UNCHANGED <<received, misplaced, hostToggle>>

Deliver ==
    /\ onBus # NoPacket /\ Take
    /\ onBus' = NoPacket /\ toggle' = 1 - toggle /\ reconfigured' = FALSE
    /\ ready' = FALSE /\ complete' = TRUE
    /\ UNCHANGED <<config, call, timedOut, memory, byteCount, faults, copied, dropped>>

\* The host's handshake is lost: the controller will send the packet again.
LoseHandshake ==
    /\ onBus # NoPacket /\ faults < MaxFaults /\ Take
    /\ onBus' = NoPacket /\ faults' = faults + 1
    /\ UNCHANGED <<config, call, timedOut, bank, toggle, reconfigured, copied, dropped>>

\* The packet is lost.  If it was given up meanwhile it is not sent again.
LosePacket ==
    /\ onBus # NoPacket /\ faults < MaxFaults
    /\ onBus' = NoPacket /\ faults' = faults + 1
    /\ dropped' = IF byteCount = 0 THEN dropped \cup (onBus \ received) ELSE dropped
    /\ UNCHANGED <<config, call, timedOut, bank, toggle, host, reconfigured, copied>>

-----------------------------------------------------------------------------
(* ISRHandler.  The host polls only a configured device, and not while it  *)
(* resets or configures it.                                                *)

\* End-Of-Reset.  Whether the reset clears the endpoint's flags is left open.
BusReset ==
    /\ onBus = NoPacket /\ configs < MaxConfigs
    /\ configured' = FALSE /\ configs' = configs + 1
    /\ toggle' = 0 /\ hostToggle' = 0 /\ reconfigured' = FALSE
    /\ ready' \in {ready, FALSE} /\ complete' \in {complete, FALSE}
    /\ dropped' = dropped \cup GivenUp
    /\ UNCHANGED <<open, call, timedOut, memory, byteCount, onBus, received, misplaced, skipped,
                   faults, copied>>

\* SET_CONFIGURATION, of configuration 0 too: initEP of the endpoint.  The host
\* begins at toggle 0 again, the endpoint keeps its toggle.
Configure ==
    /\ onBus = NoPacket
    /\ configured' \in BOOLEAN /\ ready' = FALSE
    /\ hostToggle' = 0 /\ reconfigured' = (configured \/ reconfigured)
    /\ dropped' = dropped \cup GivenUp
    /\ UNCHANGED <<open, configs, call, timedOut, memory, byteCount, complete, toggle, onBus,
                   received, misplaced, skipped, faults, copied>>

\* SET_CONTROL_LINE_STATE
SetLineState ==
    /\ configured /\ open' = ~open
    /\ UNCHANGED <<configured, configs, call, timedOut, bank, bus, copied, dropped>>

-----------------------------------------------------------------------------
Next ==
    \/ SendStep \/ Poll \/ Deliver \/ LoseHandshake \/ LosePacket
    \/ BusReset \/ Configure \/ SetLineState
    \/ \E n \in 1 .. MaxWrite : Write(n)

Spec == Init /\ [][Next]_vars

\* The call that the thread is in goes on.
FairSpec == Spec /\ WF_vars(SendStep)

-----------------------------------------------------------------------------
(* Properties *)

\* While the controller sends a packet its bytes stay in the bank: send()
\* overwrites only what has been sent, also after a time-out and a reset.
PacketIntact == onBus \notin {NoPacket, {}} => memory = onBus

\* The host gets the bytes in order, none twice, although handshakes get lost
\* and a time-out turns the packet under way into an empty one.
InOrder == ~misplaced

\* Every byte that send() has copied has reached the host, is in the bank, or
\* was in it when a time-out, a reset or a configuration gave it up; and no byte
\* that was given up gets through after all (send(): "ZLP is sent instead of
\* stale data").  The one other loss is the first packet after a repeated
\* SET_CONFIGURATION, for initEP leaves the toggle at which the endpoint was.
OnlyGivenUpAreLost ==
    /\ 1 .. copied \subseteq received \cup dropped \cup skipped \cup
           (IF ready \/ pc \in {"count", "ack", "arm"} THEN memory ELSE {}) \cup onBus
    /\ received \cap (dropped \cup skipped) = {}

\* No packet that was not given up is lost.  It is when the host configures the
\* device again: it acknowledges the next packet and throws it away.
NothingSkipped == skipped \subseteq dropped

\* send() returns, whether or not the host ever polls.
SendReturns == pc # "idle" ~> pc = "idle"

\* After a time-out the endpoint works again: if the host polls and the sketch
\* keeps writing, a packet is accepted.
Recovers ==
    (WF_vars(Poll) /\ WF_vars(Deliver) /\ []<>(pc = "test")) => []<>(~timedOut)

\* A write() that fails has written nothing (send() returns -1 although the
\* packets before the one that timed out are sent, and Serial_::write passes it
\* on as a number of bytes).
FailedWroteNothing == pc = "failed" => written = 0
=============================================================================

---------------------------- MODULE UsbOutEndpoint ----------------------------
(***************************************************************************)
(* DoubleBufferedEPOutHandler of cores/arduino/USB/SAMD21_USBDevice.h: the *)
(* two banks between the USB device controller, which fills the bank it is *)
(* armed with, the USB interrupt (handleEndpoint, at the highest priority: *)
(* one step) and the thread that empties them (recv, available), which is  *)
(* preempted anywhere outside its synchronized blocks.                     *)
(* A byte is its number in the stream the host sends.                      *)
(***************************************************************************)
EXTENDS Integers

CONSTANTS
    Size,       \* bytes of a bank (256)
    MaxBytes    \* bound on the bytes the host sends

ASSUME EndpointAssumption == Size \in Nat \ {0} /\ MaxBytes \in Nat

Banks == {0, 1}
Other(b) == 1 - b

VARIABLES
    current,    \* the bank recv empties
    incoming,   \* the bank handleEndpoint expects to be filled
    first,      \* first0 and first1: the next byte to take
    last,       \* last0 and last1: how many bytes there are
    ready,      \* ready0 and ready1: the bank is filled and not yet emptied
    notify,     \* recv is to release the endpoint
    base,       \* data0 and data1: a bank holds the bytes base + 1, base + 2, ...
    addr,       \* descriptor: the bank the controller fills
    armed,      \* EPSTATUS.BK0RDY is clear: the controller accepts a transfer
    trcpt,      \* EPINTFLAG.TRCPT0: a transfer is complete
    byteCount,  \* descriptor: bytes of that transfer
    enabled,    \* the controller's endpoint is configured
    nSent,      \* bytes the controller has accepted
    pc,         \* where the thread is
    bank,       \* the branch the thread's call took on current
    len,        \* how many bytes it asks for
    i,          \* how many it has copied
    ret,        \* what the call returns
    taken       \* the last byte it copied

handler == <<current, incoming, first, last, ready, notify>>
controller == <<addr, armed, trcpt, byteCount, enabled>>
call == <<bank, len, i, ret>>
endpoint == <<handler, base, controller, nSent, pc, call, taken>>

TypeEndpoint ==
    /\ current \in Banks /\ incoming \in Banks /\ addr \in Banks /\ bank \in Banks
    /\ first \in [Banks -> 0 .. Size] /\ last \in [Banks -> 0 .. Size]
    /\ ready \in [Banks -> BOOLEAN] /\ base \in [Banks -> Nat]
    /\ notify \in BOOLEAN /\ armed \in BOOLEAN /\ trcpt \in BOOLEAN /\ enabled \in BOOLEAN
    /\ byteCount \in 0 .. Size
    /\ nSent \in Nat /\ len \in Nat /\ i \in Nat /\ ret \in Nat /\ taken \in Nat
    /\ pc \in {"idle", "config", "ready", "copy", "done", "count", "returned"}

\* Before the first SET_CONFIGURATION there is no handler.
InitEndpoint ==
    /\ current = 0 /\ incoming = 0 /\ notify = FALSE
    /\ first = [b \in Banks |-> 0] /\ last = [b \in Banks |-> 0]
    /\ ready = [b \in Banks |-> FALSE] /\ base = [b \in Banks |-> 0]
    /\ addr = 0 /\ armed = FALSE /\ trcpt = FALSE /\ byteCount = 0 /\ enabled = FALSE
    /\ nSent = 0 /\ taken = 0
    /\ pc = "idle" /\ bank = 0 /\ len = 0 /\ i = 0 /\ ret = 0

-----------------------------------------------------------------------------
(* The USB interrupt *)

release == armed' = TRUE /\ byteCount' = 0

\* Mutant: the address of the other bank is not set.
HandleEndpointSameAddress ==
    /\ trcpt /\ enabled
    /\ trcpt' = FALSE
    /\ last' = [last EXCEPT ![incoming] = byteCount]
    /\ IF byteCount = 0
       THEN release /\ UNCHANGED <<incoming, ready, notify>>
       ELSE /\ incoming' = Other(incoming)
            /\ ready' = [ready EXCEPT ![incoming] = TRUE]
            /\ notify' = ready[Other(incoming)]
            /\ IF notify' THEN UNCHANGED <<armed, byteCount>> ELSE release
    /\ UNCHANGED <<current, first, base, addr, enabled, nSent, pc, call, taken>>

\* A filled bank is handed to recv and the banks are swapped; the endpoint is
\* released, unless the other bank is still full: then recv is to do it.  An
\* empty transfer keeps the bank.
HandleEndpoint ==
    /\ trcpt /\ enabled
    /\ trcpt' = FALSE
    /\ last' = [last EXCEPT ![incoming] = byteCount]
    /\ IF byteCount = 0
       THEN release /\ UNCHANGED <<incoming, addr, ready, notify>>
       ELSE /\ incoming' = Other(incoming) /\ addr' = Other(incoming)
            /\ ready' = [ready EXCEPT ![incoming] = TRUE]
            /\ notify' = ready[Other(incoming)]
            /\ IF notify' THEN UNCHANGED <<armed, byteCount>> ELSE release
    /\ UNCHANGED <<current, first, base, enabled, nSent, pc, call, taken>>

\* The constructor: empty banks, bank 0 armed.  What the old handler held is
\* gone with it, and TRCPT0 is left as it is.
NewHandler ==
    /\ current' = 0 /\ incoming' = 0 /\ notify' = FALSE
    /\ first' = [b \in Banks |-> 0] /\ last' = [b \in Banks |-> 0]
    /\ ready' = [b \in Banks |-> FALSE]
    /\ addr' = 0 /\ release /\ enabled' = TRUE
    /\ taken' = nSent
    /\ UNCHANGED <<base, trcpt, nSent, pc, call>>

-----------------------------------------------------------------------------
(* recv and available, called by the thread *)

RecvReturn(n) == ret' = n /\ pc' = "returned"

\* Mutant: the bank is read before it is filled.
RecvReadyUnchecked ==
    /\ pc = "ready"
    /\ bank' = current /\ i' = 0
    /\ pc' = "copy"
    /\ UNCHANGED <<handler, base, controller, nSent, len, ret, taken>>

\* current is read, then the ready flag of its bank under the guard.
RecvReady ==
    /\ pc = "ready"
    /\ bank' = current /\ i' = 0
    /\ IF ready[current] THEN pc' = "copy" /\ UNCHANGED ret ELSE RecvReturn(0)
    /\ UNCHANGED <<handler, base, controller, nSent, len, taken>>

\* Mutant: the copy runs past the end of the transfer.
RecvCopyUnbounded ==
    /\ pc = "copy" /\ i < len
    /\ taken' = base[bank] + first[bank] + 1
    /\ first' = [first EXCEPT ![bank] = @ + 1]
    /\ i' = i + 1
    /\ UNCHANGED <<current, incoming, last, ready, notify, base, controller, nSent, pc,
                   bank, len, ret>>

RecvCopy ==
    /\ pc = "copy" /\ i < len /\ first[bank] < last[bank]
    /\ taken' = base[bank] + first[bank] + 1
    /\ first' = [first EXCEPT ![bank] = @ + 1]
    /\ i' = i + 1
    /\ UNCHANGED <<current, incoming, last, ready, notify, base, controller, nSent, pc,
                   bank, len, ret>>

\* Mutant: the bank that was emptied stays the current one.
RecvCopiedSameBank ==
    /\ pc = "copy" /\ ~(i < len /\ first[bank] < last[bank])
    /\ IF first[bank] = last[bank]
       THEN /\ first' = [first EXCEPT ![bank] = 0]
            /\ pc' = "done"
            /\ UNCHANGED <<current, ret>>
       ELSE RecvReturn(i) /\ UNCHANGED <<first, current>>
    /\ UNCHANGED <<incoming, last, ready, notify, base, controller, nSent,
                   bank, len, i, taken>>

\* The loop ends; an empty bank is left for the other one.
RecvCopied ==
    /\ pc = "copy" /\ ~(i < len /\ first[bank] < last[bank])
    /\ IF first[bank] = last[bank]
       THEN /\ first' = [first EXCEPT ![bank] = 0]
            /\ current' = Other(bank)
            /\ pc' = "done"
            /\ UNCHANGED ret
       ELSE RecvReturn(i) /\ UNCHANGED <<first, current>>
    /\ UNCHANGED <<incoming, last, ready, notify, base, controller, nSent,
                   bank, len, i, taken>>

\* Mutant: recv gives the bank back and forgets to release the endpoint.
RecvDoneUnreleased ==
    /\ pc = "done"
    /\ ready' = [ready EXCEPT ![bank] = FALSE]
    /\ notify' = FALSE
    /\ RecvReturn(i)
    /\ UNCHANGED <<current, incoming, first, last, base, controller, nSent,
                   bank, len, i, taken>>

\* Mutant: the endpoint is released whether or not the interrupt asked for it.
RecvDoneReleasing ==
    /\ pc = "done"
    /\ ready' = [ready EXCEPT ![bank] = FALSE]
    /\ notify' = FALSE
    /\ release
    /\ RecvReturn(i)
    /\ UNCHANGED <<current, incoming, first, last, base, addr, trcpt, enabled, nSent,
                   bank, len, i, taken>>

\* Under the guard: the bank is given back, and a full endpoint released.
RecvDone ==
    /\ pc = "done"
    /\ ready' = [ready EXCEPT ![bank] = FALSE]
    /\ notify' = FALSE
    /\ IF notify THEN release ELSE UNCHANGED <<armed, byteCount>>
    /\ RecvReturn(i)
    /\ UNCHANGED <<current, incoming, first, last, base, addr, trcpt, enabled, nSent,
                   bank, len, i, taken>>

RecvStep == RecvReady \/ RecvCopy \/ RecvCopied \/ RecvDone

\* available(): the ready flag under the guard, then the two counters.
AvailableReady ==
    /\ pc = "idle"
    /\ bank' = current
    /\ IF ready[current] THEN pc' = "count" /\ UNCHANGED ret ELSE RecvReturn(0)
    /\ UNCHANGED <<handler, base, controller, nSent, len, i, taken>>

AvailableCount ==
    /\ pc = "count"
    /\ RecvReturn(last[bank] - first[bank])
    /\ UNCHANGED <<handler, base, controller, nSent, bank, len, i, taken>>

-----------------------------------------------------------------------------
(* The controller and the host *)

\* The controller fills the armed bank and keeps it until it is released.  A
\* transfer ends with a short packet, an empty one included, or a full bank.
Transfer ==
    /\ enabled /\ armed
    /\ \E n \in 0 .. Size :
          /\ nSent + n <= MaxBytes
          /\ byteCount' = n /\ nSent' = nSent + n
          /\ base' = IF n = 0 THEN base ELSE [base EXCEPT ![addr] = nSent]
    /\ armed' = FALSE /\ trcpt' = TRUE
    /\ UNCHANGED <<handler, addr, enabled, pc, call, taken>>

\* A bus reset disables the endpoint and clears its flags.
ResetEndpoint ==
    /\ armed' = FALSE /\ trcpt' = FALSE /\ enabled' = FALSE
    /\ UNCHANGED <<handler, base, addr, byteCount, nSent, pc, call, taken>>

-----------------------------------------------------------------------------
(* What the handler promises *)

Unread(b) == IF ready[b] THEN last[b] - first[b] ELSE 0

\* The bank recv is giving back counts as empty.
Left(b) == IF pc = "done" /\ b = bank THEN 0 ELSE Unread(b)

\* Bytes of a complete transfer that the interrupt has not seen yet.
Unseen == IF trcpt THEN byteCount ELSE 0

\* Every byte the controller has accepted is taken, in a bank or about to be
\* seen by the interrupt: none is overwritten and none counted twice.
NoneLost == enabled => nSent = taken + Left(0) + Left(1) + Unseen

\* The next byte recv copies is the one behind the last it copied: the banks
\* are emptied in the order they were filled.
NextInOrder == ready[current] => base[current] + first[current] = taken

\* "when ready0==true the buffer is not being filled and last0 is constant":
\* the controller is never armed with the bank that recv copies from.
BankStable == pc \in {"copy", "count"} => ready[bank] /\ ~(armed /\ enabled /\ addr = bank)

\* The controller is never armed with a bank that holds bytes to read.
NeverOverwrites == enabled /\ armed => Left(addr) = 0

\* An endpoint that does not accept transfers has somebody bound to release it.
NotForgotten == enabled => armed \/ trcpt \/ notify

\* The bank to be emptied first: the one recv is giving back, or current.
Oldest == IF pc = "done" THEN bank ELSE current

\* What the flags say of each other wherever the thread is preempted: the banks
\* take turns, and notify is set exactly when both are full.
BanksTakeTurns ==
    /\ ready[Other(Oldest)] => ready[Oldest]
    /\ incoming = IF ready[0] <=> ready[1] THEN Oldest ELSE Other(Oldest)
    /\ notify <=> ready[0] /\ ready[1]
    /\ pc = "done" => current = Other(bank) /\ ready[bank]
    /\ pc \in {"copy", "count"} => current = bank /\ ready[bank]

\* The controller's view of the endpoint agrees with the handler's.
ControllerAgrees ==
    /\ armed => byteCount = 0
    /\ enabled => /\ addr = incoming
                  /\ notify => ~armed /\ ~trcpt
                  /\ trcpt /\ byteCount > 0 => base[incoming] = nSent - byteCount

\* The counters stay within the banks, and the second full bank goes on where
\* the first one ends.
BanksChained ==
    /\ \A b \in Banks : IF ready[b] THEN first[b] <= last[b] ELSE first[b] = 0
    /\ pc = "done" => first[bank] = 0
    /\ pc # "done" /\ ready[Other(current)] =>
          /\ first[Other(current)] = 0
          /\ base[Other(current)] = base[current] + last[current]

\* The handover of the banks between recv, the interrupt and the controller.
HandoverInv ==
    /\ BanksTakeTurns /\ ControllerAgrees /\ BanksChained
    /\ NoneLost /\ NextInOrder /\ NotForgotten
=============================================================================

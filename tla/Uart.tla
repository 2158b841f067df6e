--------------------------------- MODULE Uart ---------------------------------
(***************************************************************************)
(* The interrupt-driven serial port: cores/arduino/Uart.cpp over the USART *)
(* half of SERCOM.cpp and two RingBuffers.  One core runs the thread       *)
(* ("main": the sketch calling write, read, flush, availableForWrite,      *)
(* begin and end), the SERCOM interrupt ("irq": IrqHandler, at the lowest  *)
(* priority) and, in UartIsr, another interrupt of higher priority         *)
(* ("isr").  A context runs only when no more urgent one is active, and it *)
(* is preempted between any two of its accesses to the rings and to the    *)
(* registers: each such access is a step, named by pc.                     *)
(* A byte is its number in the order of the write() calls (transmit side)  *)
(* or of its arrival (receive side): the code never looks at the value.    *)
(***************************************************************************)
EXTENDS RingBuffer

CONSTANTS
    Threshold,   \* RTS_RX_THRESHOLD
    HasRTS,      \* whether uc_pinRTS is a pin: read() and IrqHandler drive RTS
    Slack,       \* bytes the far end may still start once RTS is de-asserted
    LineErrors,  \* whether bytes may arrive with a framing error
    MaxTx,       \* bound on the bytes the sketch writes
    MaxRx,       \* bound on the bytes that arrive
    MaxBegins    \* bound on the calls of begin()

ASSUME UartAssumption ==
    /\ Threshold \in Nat /\ Slack \in Nat
    /\ MaxTx \in Nat /\ MaxRx \in Nat /\ MaxBegins \in Nat
    /\ HasRTS \in BOOLEAN /\ LineErrors \in BOOLEAN

Contexts == {"main", "irq", "isr"}
NoByte == 0
FifoDepth == 2   \* receive FIFO of the USART

VARIABLES
    txBuffer, rxBuffer,   \* the two rings
    dataReg,    \* transmit DATA register, NoByte when INTFLAG.DRE is set
    shiftReg,   \* byte being shifted out
    txc,        \* INTFLAG.TXC
    dreIE,      \* INTENSET.DRE: the data-register-empty interrupt is enabled
    gone,       \* bytes that left the transmitter, shifted out or reset away
    rxFifo,     \* received bytes not yet read from DATA, with their FERR flag
    error,      \* INTFLAG.ERROR
    nRx,        \* bytes that arrived on the line
    rts,        \* the RTS output asks for data
    slack,      \* bytes started since RTS was de-asserted
    enabled, begins,      \* the USART is enabled; calls of begin() so far
    primask,    \* interrupts are masked by the thread
    nWritten,   \* bytes handed to write()
    pc,         \* where each context is
    val,        \* the value each context's call works on and returns
    nextI,      \* each context's local i in store_char
    popped,     \* each context's local data in IrqHandler
    wrapped,    \* the branch the thread's availableForStore() took
    lastRead    \* the last byte a read() took

txRegs == <<dataReg, shiftReg, txc, gone>>
rxHw == <<rxFifo, error, nRx>>
flow == <<rts, slack>>
life == <<enabled, begins>>
local == <<val, nextI, popped, wrapped, lastRead>>
vars == <<txBuffer, rxBuffer, txRegs, dreIE, rxHw, flow, life, primask, nWritten, pc, local>>

Received == [byte : Nat, ferr : BOOLEAN]

TypeOK ==
    /\ txBuffer \in Rings(Nat) /\ rxBuffer \in Rings(Nat)
    /\ dataReg \in Nat /\ shiftReg \in Nat /\ gone \in Nat
    /\ txc \in BOOLEAN /\ dreIE \in BOOLEAN /\ error \in BOOLEAN
    /\ rxFifo \in Seq(Received) /\ nRx \in Nat
    /\ rts \in BOOLEAN /\ slack \in Nat
    /\ enabled \in BOOLEAN /\ begins \in Nat
    /\ primask \in BOOLEAN /\ nWritten \in Nat
    /\ pc \in [Contexts ->
           {"idle", "w_dre", "w_avail", "w_direct", "w_full", "w_store", "w_publish", "w_enable",
            "h_ferr", "h_rx", "h_tx", "h_tail", "h_data", "h_disable", "h_err",
            "r_load", "r_tail", "r_compare", "r_space", "r_assert",
            "f_wait", "f_dre", "f_txc", "a_compare", "a_space"}]
    /\ val \in [Contexts -> Int] /\ popped \in [Contexts -> Nat]
    /\ nextI \in [Contexts -> Index]
    /\ wrapped \in BOOLEAN /\ lastRead \in Int

Init ==
    /\ txBuffer = NewRing /\ rxBuffer = NewRing
    /\ dataReg = NoByte /\ shiftReg = NoByte /\ txc = FALSE /\ gone = 0 /\ dreIE = FALSE
    /\ rxFifo = <<>> /\ error = FALSE /\ nRx = 0
    /\ rts = FALSE /\ slack = Slack
    /\ enabled = FALSE /\ begins = 0 /\ primask = FALSE /\ nWritten = 0
    /\ pc = [c \in Contexts |-> "idle"]
    /\ val = [c \in Contexts |-> NoByte] /\ popped = [c \in Contexts |-> NoByte]
    /\ nextI = [c \in Contexts |-> 0]
    /\ wrapped = FALSE /\ lastRead = 0

-----------------------------------------------------------------------------
(* Who runs *)

\* Preemption: a context runs only when no more urgent one is active.
Runs(c) == /\ c # "isr" => pc["isr"] = "idle"
           /\ c = "main" => pc["irq"] = "idle"

At(c, l) == Runs(c) /\ pc[c] = l
Goto(c, l) == pc' = [pc EXCEPT ![c] = l]

\* A call of the thread returns; a sketch that masked interrupts unmasks them.
Return(c) == /\ Goto(c, "idle")
             /\ primask' = IF c = "main" THEN FALSE ELSE primask

DRE == enabled /\ dataReg = NoByte
RXC == rxFifo # <<>>

WriteData(b) == /\ DRE
                /\ dataReg' = b
                /\ txc' = FALSE
                /\ UNCHANGED <<shiftReg, gone>>

-----------------------------------------------------------------------------
(* Uart::write *)

WriteCheckDre(c) ==
    /\ At(c, "w_dre")
    /\ Goto(c, IF DRE THEN "w_avail" ELSE "w_full")
    /\ UNCHANGED <<txBuffer, rxBuffer, txRegs, dreIE, rxHw, flow, life, primask, nWritten, local>>

\* Mutant: write() tests DRE only and overtakes the bytes in the ring.
WriteCheckAvailableDropped(c) ==
    /\ At(c, "w_avail")
    /\ Goto(c, "w_direct")
    /\ UNCHANGED <<txBuffer, rxBuffer, txRegs, dreIE, rxHw, flow, life, primask, nWritten, local>>

WriteCheckAvailable(c) ==
    /\ At(c, "w_avail")
    /\ Goto(c, IF available(txBuffer) = 0 THEN "w_direct" ELSE "w_full")
    /\ UNCHANGED <<txBuffer, rxBuffer, txRegs, dreIE, rxHw, flow, life, primask, nWritten, local>>

\* writeDataUART spins until DRE before it writes DATA.
WriteDirect(c) ==
    /\ At(c, "w_direct")
    /\ WriteData(val[c])
    /\ Return(c)
    /\ UNCHANGED <<txBuffer, rxBuffer, dreIE, rxHw, flow, life, nWritten, local>>

\* Mutant: write() does not wait for a slot.
WriteRoomUnchecked(c) ==
    /\ At(c, "w_full")
    /\ Goto(c, "w_store")
    /\ UNCHANGED <<txBuffer, rxBuffer, txRegs, dreIE, rxHw, flow, life, primask, nWritten, local>>

WriteRoom(c) ==
    /\ At(c, "w_full") /\ ~isFull(txBuffer)
    /\ Goto(c, "w_store")
    /\ UNCHANGED <<txBuffer, rxBuffer, txRegs, dreIE, rxHw, flow, life, primask, nWritten, local>>

\* Mutant: never from a thread that masks interrupts.
WritePollIsrOnly(c) ==
    /\ At(c, "w_full") /\ isFull(txBuffer)
    /\ c = "isr"
    /\ DRE
    /\ Goto(c, "h_ferr")
    /\ UNCHANGED <<txBuffer, rxBuffer, txRegs, dreIE, rxHw, flow, life, primask, nWritten, local>>

\* Full, and the SERCOM interrupt cannot come: run the handler by hand.
WritePoll(c) ==
    /\ At(c, "w_full") /\ isFull(txBuffer)
    /\ primask \/ c = "isr"
    /\ DRE
    /\ Goto(c, "h_ferr")
    /\ UNCHANGED <<txBuffer, rxBuffer, txRegs, dreIE, rxHw, flow, life, primask, nWritten, local>>

WriteStore(c) ==
    /\ At(c, "w_store")
    /\ nextI' = [nextI EXCEPT ![c] = nextIndex(txBuffer.iHead)]
    /\ IF isFull(txBuffer)
       THEN txBuffer' = txBuffer /\ Goto(c, "w_enable")
       ELSE txBuffer' = StoreSlot(txBuffer, val[c]) /\ Goto(c, "w_publish")
    /\ UNCHANGED <<rxBuffer, txRegs, dreIE, rxHw, flow, life, primask, nWritten,
                   val, popped, wrapped, lastRead>>

WritePublish(c) ==
    /\ At(c, "w_publish")
    /\ txBuffer' = PublishHead(txBuffer, nextI[c])
    /\ Goto(c, "w_enable")
    /\ UNCHANGED <<rxBuffer, txRegs, dreIE, rxHw, flow, life, primask, nWritten, local>>

\* Mutant: enable the interrupt only while the data register is busy.
WriteEnableIfBusy(c) ==
    /\ At(c, "w_enable")
    /\ dreIE' = (dreIE \/ ~DRE)
    /\ Return(c)
    /\ UNCHANGED <<txBuffer, rxBuffer, txRegs, rxHw, flow, life, nWritten, local>>

WriteEnable(c) ==
    /\ At(c, "w_enable")
    /\ dreIE' = TRUE
    /\ Return(c)
    /\ UNCHANGED <<txBuffer, rxBuffer, txRegs, rxHw, flow, life, nWritten, local>>

WriteStep(c) == \/ WriteCheckDre(c) \/ WriteCheckAvailable(c) \/ WriteDirect(c) \/ WriteRoom(c)
                \/ WritePoll(c) \/ WriteStore(c) \/ WritePublish(c) \/ WriteEnable(c)

-----------------------------------------------------------------------------
(* Uart::IrqHandler, run by the interrupt or by hand from write() *)

\* The STATUS.FERR flag goes with the byte that is next in the FIFO; writing
\* it back clears the flag of the byte that came next.
ClearFrameError(fifo) ==
    IF fifo = <<>> THEN fifo ELSE [fifo EXCEPT ![1] = [@ EXCEPT !.ferr = FALSE]]

HandleFrameError(c) ==
    /\ At(c, "h_ferr")
    /\ rxFifo' = IF RXC /\ rxFifo[1].ferr THEN ClearFrameError(Tail(rxFifo)) ELSE rxFifo
    /\ Goto(c, "h_rx")
    /\ UNCHANGED <<txBuffer, rxBuffer, txRegs, dreIE, error, nRx, flow, life, primask,
                   nWritten, local>>

\* Mutant: de-assert RTS only when no slot is left.
DeassertWhenFull(r) == HasRTS /\ isFull(r)

\* De-assert RTS when the space left in the ring is below the threshold.
Deassert(r) == HasRTS /\ availableForStore(r) < Threshold

HandleReceive(c) ==
    /\ At(c, "h_rx")
    /\ rxBuffer' = IF RXC THEN store_char(rxBuffer, rxFifo[1].byte) ELSE rxBuffer
    /\ rxFifo' = IF RXC THEN Tail(rxFifo) ELSE rxFifo
    /\ rts' = (rts /\ ~(RXC /\ Deassert(rxBuffer')))
    /\ Goto(c, "h_tx")
    /\ UNCHANGED <<txBuffer, txRegs, dreIE, error, nRx, slack, life, primask, nWritten, local>>

\* read_char loads the slot here and moves the tail in the next step.
HandleTransmit(c) ==
    /\ At(c, "h_tx")
    /\ Goto(c, CASE ~DRE -> "h_err"
                 [] DRE /\ available(txBuffer) > 0 -> "h_tail"
                 [] OTHER -> "h_disable")
    /\ popped' = [popped EXCEPT ![c] = IF isEmpty(txBuffer) THEN @
                                       ELSE txBuffer.aucBuffer[txBuffer.iTail]]
    /\ UNCHANGED <<txBuffer, rxBuffer, txRegs, dreIE, rxHw, flow, life, primask, nWritten,
                   val, nextI, wrapped, lastRead>>

HandleTail(c) ==
    /\ At(c, "h_tail")
    /\ txBuffer' = DropTail(txBuffer)
    /\ Goto(c, "h_data")
    /\ UNCHANGED <<rxBuffer, txRegs, dreIE, rxHw, flow, life, primask, nWritten, local>>

HandleData(c) ==
    /\ At(c, "h_data")
    /\ WriteData(popped[c])
    /\ Goto(c, "h_err")
    /\ UNCHANGED <<txBuffer, rxBuffer, dreIE, rxHw, flow, life, primask, nWritten, local>>

HandleDisable(c) ==
    /\ At(c, "h_disable")
    /\ dreIE' = FALSE
    /\ Goto(c, "h_err")
    /\ UNCHANGED <<txBuffer, rxBuffer, txRegs, rxHw, flow, life, primask, nWritten, local>>

\* INTFLAG.bit.ERROR = 1 reads INTFLAG and writes it back: every flag that is
\* cleared by writing one is cleared, TXC with ERROR.  clearStatusUART writes
\* zeros to STATUS, which clears none of its write-one-to-clear flags.
HandleError(c) ==
    /\ At(c, "h_err")
    /\ error' = FALSE
    /\ txc' = (txc /\ ~error)
    /\ Goto(c, IF c = "irq" THEN "idle" ELSE "w_full")
    /\ UNCHANGED <<txBuffer, rxBuffer, dataReg, shiftReg, gone, dreIE, rxFifo, nRx, flow, life,
                   primask, nWritten, local>>

HandlerStep(c) == \/ HandleFrameError(c) \/ HandleReceive(c) \/ HandleTransmit(c) \/ HandleTail(c)
                  \/ HandleData(c) \/ HandleDisable(c) \/ HandleError(c)

\* The NVIC takes the SERCOM interrupt: RXC, ERROR and, if enabled, DRE.
IrqEnter ==
    /\ At("irq", "idle") /\ ~primask
    /\ RXC \/ error \/ (dreIE /\ DRE)
    /\ Goto("irq", "h_ferr")
    /\ UNCHANGED <<txBuffer, rxBuffer, txRegs, dreIE, rxHw, flow, life, primask, nWritten, local>>

-----------------------------------------------------------------------------
(* Uart::read *)

\* Mutant: read_char moves the tail of an empty ring too.
ReadLoadUnchecked ==
    /\ At("main", "r_load")
    /\ val' = [val EXCEPT !["main"] = rxBuffer.aucBuffer[rxBuffer.iTail]]
    /\ Goto("main", "r_tail")
    /\ UNCHANGED <<txBuffer, rxBuffer, txRegs, dreIE, rxHw, flow, life, primask, nWritten,
                   nextI, popped, wrapped, lastRead>>

ReadLoad ==
    /\ At("main", "r_load")
    /\ val' = [val EXCEPT !["main"] = peek(rxBuffer)]
    /\ Goto("main", IF isEmpty(rxBuffer) THEN "r_compare" ELSE "r_tail")
    /\ UNCHANGED <<txBuffer, rxBuffer, txRegs, dreIE, rxHw, flow, life, primask, nWritten,
                   nextI, popped, wrapped, lastRead>>

ReadTail ==
    /\ At("main", "r_tail")
    /\ rxBuffer' = DropTail(rxBuffer)
    /\ lastRead' = val["main"]
    /\ Goto("main", "r_compare")
    /\ UNCHANGED <<txBuffer, txRegs, dreIE, rxHw, flow, life, primask, nWritten,
                   val, nextI, popped, wrapped>>

ReadCompare ==
    /\ At("main", "r_compare")
    /\ wrapped' = isWrapped(rxBuffer)
    /\ Goto("main", IF HasRTS THEN "r_space" ELSE "idle")
    /\ UNCHANGED <<txBuffer, rxBuffer, txRegs, dreIE, rxHw, flow, life, primask, nWritten,
                   val, nextI, popped, lastRead>>

\* Mutant: assert RTS only on more space than a ring has.
ReadSpaceNever ==
    /\ At("main", "r_space")
    /\ Goto("main", IF SpaceSeen(rxBuffer, wrapped) > N - 1 THEN "r_assert" ELSE "idle")
    /\ UNCHANGED <<txBuffer, rxBuffer, txRegs, dreIE, rxHw, flow, life, primask, nWritten, local>>

ReadSpace ==
    /\ At("main", "r_space")
    /\ Goto("main", IF SpaceSeen(rxBuffer, wrapped) > Threshold THEN "r_assert" ELSE "idle")
    /\ UNCHANGED <<txBuffer, rxBuffer, txRegs, dreIE, rxHw, flow, life, primask, nWritten, local>>

ReadAssert ==
    /\ At("main", "r_assert")
    /\ rts' = TRUE /\ slack' = 0
    /\ Goto("main", "idle")
    /\ UNCHANGED <<txBuffer, rxBuffer, txRegs, dreIE, rxHw, life, primask, nWritten, local>>

ReadStep == ReadLoad \/ ReadTail \/ ReadCompare \/ ReadSpace \/ ReadAssert

-----------------------------------------------------------------------------
(* Uart::flush and SERCOM::flushUART; Uart::availableForWrite *)

\* Mutant: flush() looks at the registers only.
FlushWaitDropped ==
    /\ At("main", "f_wait")
    /\ Goto("main", "f_dre")
    /\ UNCHANGED <<txBuffer, rxBuffer, txRegs, dreIE, rxHw, flow, life, primask, nWritten, local>>

FlushWait ==
    /\ At("main", "f_wait") /\ available(txBuffer) = 0
    /\ Goto("main", "f_dre")
    /\ UNCHANGED <<txBuffer, rxBuffer, txRegs, dreIE, rxHw, flow, life, primask, nWritten, local>>

\* Mutant: flushUART waits for TXC even when nothing was ever sent.
FlushAlwaysTxc ==
    /\ At("main", "f_dre")
    /\ Goto("main", "f_txc")
    /\ UNCHANGED <<txBuffer, rxBuffer, txRegs, dreIE, rxHw, flow, life, primask, nWritten, local>>

FlushCheckDre ==
    /\ At("main", "f_dre")
    /\ Goto("main", IF DRE THEN "idle" ELSE "f_txc")
    /\ UNCHANGED <<txBuffer, rxBuffer, txRegs, dreIE, rxHw, flow, life, primask, nWritten, local>>

FlushComplete ==
    /\ At("main", "f_txc") /\ txc
    /\ Goto("main", "idle")
    /\ UNCHANGED <<txBuffer, rxBuffer, txRegs, dreIE, rxHw, flow, life, primask, nWritten, local>>

FlushStep == FlushWait \/ FlushCheckDre \/ FlushComplete

RoomCompare ==
    /\ At("main", "a_compare")
    /\ wrapped' = isWrapped(txBuffer)
    /\ Goto("main", "a_space")
    /\ UNCHANGED <<txBuffer, rxBuffer, txRegs, dreIE, rxHw, flow, life, primask, nWritten,
                   val, nextI, popped, lastRead>>

RoomSpace ==
    /\ At("main", "a_space")
    /\ val' = [val EXCEPT !["main"] = SpaceSeen(txBuffer, wrapped)]
    /\ Goto("main", "idle")
    /\ UNCHANGED <<txBuffer, rxBuffer, txRegs, dreIE, rxHw, flow, life, primask, nWritten,
                   nextI, popped, wrapped, lastRead>>

-----------------------------------------------------------------------------
(* What the sketch calls from the thread *)

\* write(), with interrupts masked around it or not.
CallWrite ==
    /\ At("main", "idle") /\ enabled /\ nWritten < MaxTx
    /\ nWritten' = nWritten + 1
    /\ val' = [val EXCEPT !["main"] = nWritten + 1]
    /\ primask' \in BOOLEAN
    /\ Goto("main", "w_dre")
    /\ UNCHANGED <<txBuffer, rxBuffer, txRegs, dreIE, rxHw, flow, life,
                   nextI, popped, wrapped, lastRead>>

Call(entry) ==
    /\ At("main", "idle") /\ enabled
    /\ Goto("main", entry)
    /\ UNCHANGED <<txBuffer, rxBuffer, txRegs, dreIE, rxHw, flow, life, primask, nWritten, local>>

CallRead == Call("r_load")
CallFlush == Call("f_wait")
CallAvailableForWrite == Call("a_compare")

\* The software reset of the USART: DATA, the shift register, the FIFO, the
\* flags and the interrupt enables.
ResetUART(lost) ==
    /\ dataReg' = NoByte /\ shiftReg' = NoByte /\ txc' = FALSE /\ dreIE' = FALSE
    /\ rxFifo' = <<>> /\ error' = FALSE
    /\ gone' = gone + lost

InTransmitter == (IF dataReg = NoByte THEN 0 ELSE 1) + (IF shiftReg = NoByte THEN 0 ELSE 1)

\* begin() resets and enables the USART; it leaves the rings alone.
Begin ==
    /\ At("main", "idle") /\ begins < MaxBegins
    /\ begins' = begins + 1 /\ enabled' = TRUE
    /\ ResetUART(InTransmitter)
    /\ rts' = (rts \/ HasRTS) /\ slack' = IF HasRTS THEN 0 ELSE slack
    /\ UNCHANGED <<txBuffer, rxBuffer, nRx, primask, nWritten, pc, local>>

\* A port that is ended is begun again (begins < MaxBegins leaves room for it).
End ==
    /\ At("main", "idle") /\ enabled /\ begins < MaxBegins
    /\ enabled' = FALSE
    /\ ResetUART(InTransmitter + available(txBuffer))
    /\ rxBuffer' = clear(rxBuffer) /\ txBuffer' = clear(txBuffer)
    /\ UNCHANGED <<nRx, flow, begins, primask, nWritten, pc, local>>

-----------------------------------------------------------------------------
(* The USART and the far end of the line *)

\* A byte moves from DATA to the shift register, or the last one is complete.
Shift ==
    /\ enabled /\ (dataReg # NoByte \/ shiftReg # NoByte)
    /\ shiftReg' = dataReg /\ dataReg' = NoByte
    /\ gone' = IF shiftReg = NoByte THEN gone ELSE gone + 1
    /\ txc' = (txc \/ dataReg = NoByte)
    /\ UNCHANGED <<txBuffer, rxBuffer, dreIE, rxHw, flow, life, primask, nWritten, pc, local>>

\* A byte arrives; a full FIFO drops it and reports an error.  A far end that
\* obeys RTS starts at most Slack bytes after it is de-asserted.
Arrive ==
    /\ enabled /\ nRx < MaxRx
    /\ HasRTS => rts \/ slack < Slack
    /\ nRx' = nRx + 1
    /\ slack' = IF HasRTS /\ ~rts THEN slack + 1 ELSE slack
    /\ \E ferr \in IF LineErrors THEN BOOLEAN ELSE {FALSE} :
          IF Len(rxFifo) < FifoDepth
          THEN /\ rxFifo' = Append(rxFifo, [byte |-> nRx + 1, ferr |-> ferr])
               /\ error' = (error \/ ferr)
          ELSE /\ error' = TRUE
               /\ UNCHANGED rxFifo
    /\ UNCHANGED <<txBuffer, rxBuffer, txRegs, dreIE, rts, life, primask, nWritten, pc, local>>

-----------------------------------------------------------------------------

MainStep == WriteStep("main") \/ HandlerStep("main") \/ ReadStep \/ FlushStep
            \/ RoomCompare \/ RoomSpace
MainCall == CallWrite \/ CallRead \/ CallFlush \/ CallAvailableForWrite \/ Begin \/ End
IrqStep == HandlerStep("irq")

Next == MainStep \/ MainCall \/ IrqEnter \/ IrqStep \/ Shift \/ Arrive

Spec == Init /\ [][Next]_vars

\* The shift clock runs, the NVIC delivers a pending unmasked interrupt, the
\* handler and the call the thread is in go on.  Nothing makes the sketch call.
Fairness == WF_vars(Shift) /\ WF_vars(IrqEnter) /\ WF_vars(IrqStep) /\ WF_vars(MainStep)

FairSpec == Spec /\ Fairness

-----------------------------------------------------------------------------
(* Properties *)

\* Bytes reach the line in the order of the write() calls, none twice and none
\* left out: whatever write() and IrqHandler interleave, the byte in the shift
\* register is the one behind those that are gone, and the next one is in DATA.
TxInOrder == /\ shiftReg # NoByte => shiftReg = gone + 1
             /\ dataReg # NoByte => dataReg = gone + 1 + (IF shiftReg = NoByte THEN 0 ELSE 1)

\* write() has taken a byte and not yet put it where the line will get it.
HandlerSteps == {"h_ferr", "h_rx", "h_tx", "h_tail", "h_data", "h_disable", "h_err"}
Pending == pc["main"] \in {"w_dre", "w_avail", "w_direct", "w_full", "w_store", "w_publish"}
                            \cup HandlerSteps

\* Bytes that left the ring side, and whether IrqHandler holds one between.
Out == gone + InTransmitter
Held == IF pc["main"] = "h_data" \/ pc["irq"] = "h_data" THEN 1 ELSE 0

\* Why the bytes stay in order: each context's local knowledge agrees with the
\* ring and the registers whenever it may be preempted.
Preemption ==
    /\ pc["isr"] = "idle"
    /\ pc["irq"] \in {"idle"} \cup HandlerSteps
    /\ pc["irq"] # "idle" => ~primask
    /\ pc["main"] \in HandlerSteps => primask
NothingLeft == available(txBuffer) = 0 /\ pc["irq"] \notin {"h_tail", "h_data"}
HandlerAgrees ==
    \A c \in {"main", "irq"} :
        /\ pc[c] \in {"h_tail", "h_data"} => popped[c] = Out + 1
        /\ pc[c] = "h_tail" => available(txBuffer) > 0
        /\ pc[c] = "h_disable" => available(txBuffer) = 0
WriterAgrees ==
    /\ Pending => val["main"] = nWritten
    /\ pc["main"] \in {"w_direct", "f_dre", "f_txc"} => NothingLeft
    /\ pc["main"] \in {"w_store", "w_publish"} => ~isFull(txBuffer)
    /\ pc["main"] = "w_publish" =>
          /\ txBuffer.aucBuffer[txBuffer.iHead] = val["main"]
          /\ nextI["main"] = nextIndex(txBuffer.iHead)

\* Every byte written is in one place: out, held by the handler, in the ring at
\* its turn, or still with write().
NoneLost == /\ nWritten = Out + Held + available(txBuffer) + (IF Pending THEN 1 ELSE 0)
            /\ HoldsFrom(txBuffer, Out + Held + 1)
            /\ txc => dataReg = NoByte /\ shiftReg = NoByte

\* The inductive invariant of the transmit path.
TxInv == Preemption /\ HandlerAgrees /\ WriterAgrees /\ NoneLost /\ TxInOrder

\* read() delivers bytes in the order of arrival, none twice, whatever the
\* handler stores between its load of the slot and its move of the tail.
ReadsInOrder == pc["main"] = "r_tail" => val["main"] > lastRead

\* With RTS and a far end that stops within Slack bytes, the handler never
\* meets a full receive ring: no byte is dropped by store_char, although read()
\* may assert RTS on a space it computed before the last interrupts.
RxNeverDropped ==
    \A c \in Contexts : (pc[c] = "h_rx" /\ RXC) => ~isFull(rxBuffer)

\* Bytes wait in the ring with nobody bound to send them.
Stranded == /\ available(txBuffer) > 0 /\ ~dreIE
            /\ pc["main"] # "w_enable"

\* No interleaving of write() and IrqHandler strands bytes in the ring with the
\* data-register-empty interrupt off; only begin() on a port in use does.
StrandedOnlyByBegin == [][Stranded' => Stranded \/ begins' # begins]_vars

\* When flush() returns, at most the byte in the shift register is still to go.
FlushLeavesOne ==
    [][(pc["main"] \in {"f_dre", "f_txc"} /\ pc'["main"] = "idle")
          => /\ nWritten' - gone' <= 1
             /\ dataReg' = NoByte /\ isEmpty(txBuffer')]_vars

\* flush() waits until the last bit has been sent (CHANGELOG).
FlushSendsLastBit ==
    [][(pc["main"] \in {"f_dre", "f_txc"} /\ pc'["main"] = "idle") => gone' = nWritten']_vars

\* availableForWrite() never promises room that is not there, although it
\* compares the indices, is preempted, and reads them again to subtract; what it
\* does return then is too small, or negative.
RoomNotOverstated ==
    [][(pc["main"] = "a_space" /\ pc'["main"] = "idle")
          => val'["main"] <= N - 1 - available(txBuffer)]_vars

\* The bytes handed to write() all leave, whether the thread masks interrupts
\* or not, unless begin() stranded them.
TxDelivered == \A k \in 1 .. MaxTx : nWritten >= k ~> (gone >= k \/ Stranded)

\* flush() returns, unless begin() stranded what it waits for.
FlushReturns == pc["main"] = "f_wait" ~> (pc["main"] = "idle" \/ Stranded)

\* A sketch that keeps reading gets RTS asserted again.
RtsReleased == ([]<>(pc["main"] = "r_load") /\ <>[]enabled) => []<>rts

\* The transmitter as one queue of bytes: shift register, DATA, the byte the
\* handler has taken from the ring, and the ring.
Opt(b) == IF b = NoByte THEN <<>> ELSE <<b>>
Pipeline == Opt(shiftReg) \o Opt(dataReg)
            \o (IF \E c \in Contexts : pc[c] = "h_data"
                THEN <<popped[CHOOSE c \in Contexts : pc[c] = "h_data"]>> ELSE <<>>)
            \o Contents(txBuffer)
Accepted == nWritten - (IF Pending THEN 1 ELSE 0)

\* The port implements a bounded first-in first-out queue of the bytes written.
Queue == INSTANCE ByteQueue WITH queue <- Pipeline, put <- Accepted, Capacity <- N + 1
QueueSpec == Queue!Spec
=============================================================================

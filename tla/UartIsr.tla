------------------------------- MODULE UartIsr --------------------------------
(***************************************************************************)
(* The serial port of Uart when a second interrupt, of higher priority     *)
(* than the SERCOM's, also calls write(): an attachInterrupt callback that *)
(* prints.  It preempts the thread and IrqHandler between any two          *)
(* accesses, and on a full ring its write() runs IrqHandler by hand.       *)
(***************************************************************************)
EXTENDS Uart

\* The interrupt fires and its handler calls write(); the byte is the next one.
IsrWrite ==
    /\ At("isr", "idle") /\ ~primask /\ enabled /\ nWritten < MaxTx
    /\ nWritten' = nWritten + 1
    /\ val' = [val EXCEPT !["isr"] = nWritten + 1]
    /\ Goto("isr", "w_dre")
    /\ UNCHANGED <<txBuffer, rxBuffer, txRegs, dreIE, rxHw, flow, life, primask,
                   nextI, popped, wrapped, lastRead>>

IsrStep == WriteStep("isr") \/ HandlerStep("isr")

IsrNext == Next \/ IsrWrite \/ IsrStep

IsrSpec == Init /\ [][IsrNext]_vars

\* A write() from an interrupt of higher priority sends its byte and every
\* other byte once: the byte being shifted out is not the one waiting in DATA.
SentOnce == shiftReg # NoByte => shiftReg # dataReg
=============================================================================

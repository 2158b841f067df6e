---------------------------------- MODULE I2S ----------------------------------
(***************************************************************************)
(* The I2S library: I2SClass over an I2SDoubleBuffer and one DMA channel   *)
(* (libraries/I2S/src).  The sketch fills or empties one half of the       *)
(* double buffer while the DMA controller sends or fills the other; the    *)
(* halves change places in the masked sections of write(), read() and      *)
(* available(), and in the DMA interrupt (onService, onTransferComplete).  *)
(* The sketch may mask interrupts, so a completed transfer may wait.  The  *)
(* callbacks onTransmit and onReceive use the same operations at a moment  *)
(* when the thread is between two of them.                                 *)
(* Sizes count samples.  A sample is its number in the order of the        *)
(* write() calls (sending) or of its arrival on the line (receiving).      *)
(***************************************************************************)
EXTENDS Integers

CONSTANTS
    Size,       \* I2S_BUFFER_SIZE, in samples
    MaxOut,     \* bound on the samples the sketch writes
    MaxIn,      \* bound on the samples that arrive
    MaxBegins,  \* bound on the calls of begin()
    MaxErrors   \* bound on the transfers that end in an error

ASSUME I2SAssumption ==
    /\ Size \in Nat \ {0}
    /\ MaxOut \in Nat /\ MaxIn \in Nat /\ MaxBegins \in Nat /\ MaxErrors \in Nat

Halves == {0, 1}
Slots == 0 .. Size - 1
States == {"IDLE", "TRANSMITTER", "RECEIVER"}

VARIABLES
    buffer, length, readOffset, index,   \* I2SDoubleBuffer
    state,                  \* _state
    dmaTransferInProgress,  \* what I2SClass believes
    begun,      \* begin() has allocated the channel, end() has not freed it
    ending,     \* the thread is inside end(), the channel already freed
    valid,      \* the VALID bit of the channel's descriptor
    running,    \* the channel is enabled and has beats left
    dmaHalf, dmaPos, dmaEnd,   \* the half it works on, its next slot, its end
    tcmpl, terr,   \* the channel's interrupt flags
    nWritten,   \* samples accepted by write()
    nOut,       \* samples on the line, or thrown away by end()
    nIn,        \* samples that arrived on the line
    lastRead,   \* the last sample read() returned
    begins, errors

doubleBuffer == <<buffer, length, readOffset, index>>
channel == <<valid, running, dmaHalf, dmaPos, dmaEnd>>
flags == <<tcmpl, terr>>
life == <<begun, ending, begins>>
counts == <<nWritten, nOut, nIn, lastRead>>
vars == <<doubleBuffer, state, dmaTransferInProgress, life, channel, flags, counts, errors>>

TypeOK ==
    /\ buffer \in [Halves -> [Slots -> Nat]]
    /\ length \in [Halves -> 0 .. Size] /\ readOffset \in [Halves -> 0 .. Size]
    /\ index \in Halves /\ state \in States
    /\ dmaTransferInProgress \in BOOLEAN /\ begun \in BOOLEAN /\ ending \in BOOLEAN
    /\ valid \in BOOLEAN /\ running \in BOOLEAN
    /\ dmaHalf \in Halves /\ dmaPos \in 0 .. Size /\ dmaEnd \in 0 .. Size
    /\ tcmpl \in BOOLEAN /\ terr \in BOOLEAN
    /\ nWritten \in Nat /\ nOut \in Nat /\ nIn \in Nat /\ lastRead \in Nat
    /\ begins \in Nat /\ errors \in Nat

Init ==
    /\ buffer = [h \in Halves |-> [s \in Slots |-> 0]]
    /\ length = [h \in Halves |-> 0] /\ readOffset = [h \in Halves |-> 0] /\ index = 0
    /\ state = "IDLE" /\ dmaTransferInProgress = FALSE
    /\ begun = FALSE /\ ending = FALSE /\ begins = 0
    /\ valid = FALSE /\ running = FALSE /\ dmaHalf = 0 /\ dmaPos = 0 /\ dmaEnd = 0
    /\ tcmpl = FALSE /\ terr = FALSE /\ errors = 0
    /\ nWritten = 0 /\ nOut = 0 /\ nIn = 0 /\ lastRead = 0

-----------------------------------------------------------------------------
(* I2SDoubleBuffer and DMAClass::transfer *)

\* Mutant: swap() stays at the same half.
OtherSame(h) == h

Other(h) == 1 - h
Least(a, b) == IF a < b THEN a ELSE b

available == length[index] - readOffset[index]
availableForWrite == Size - (length[index] - readOffset[index])

\* The half that the sketch gets next holds len samples, none of them read.
Swap(len) == /\ index' = Other(index)
             /\ length' = [length EXCEPT ![Other(index)] = len]
             /\ readOffset' = [readOffset EXCEPT ![Other(index)] = 0]

\* Mutant: one beat too few is programmed.
TransferShort(isValid, n) ==
    IF isValid
    THEN UNCHANGED channel
    ELSE /\ valid' = TRUE /\ running' = (n > 1)
         /\ dmaHalf' = index /\ dmaPos' = 0 /\ dmaEnd' = n - 1

\* The channel works on the first n slots of the half at index; it refuses,
\* and nobody looks at the answer, when its descriptor is still valid.
Transfer(isValid, n) ==
    IF isValid
    THEN UNCHANGED channel
    ELSE /\ valid' = TRUE /\ running' = (n > 0)
         /\ dmaHalf' = index /\ dmaPos' = 0 /\ dmaEnd' = n

-----------------------------------------------------------------------------
(* The sketch *)

\* begin(): the channel is reset and the double buffer is empty.
Begin ==
    /\ ~begun /\ ~ending /\ begins < MaxBegins
    /\ begun' = TRUE /\ begins' = begins + 1
    /\ valid' = FALSE /\ running' = FALSE /\ tcmpl' = FALSE /\ terr' = FALSE
    /\ index' = 0 /\ length' = [h \in Halves |-> 0] /\ readOffset' = [h \in Halves |-> 0]
    /\ UNCHANGED <<buffer, state, dmaTransferInProgress, ending, dmaHalf, dmaPos, dmaEnd,
                   counts, errors>>

\* A sketch uses one direction from begin() to end().
Open(direction) == begun /\ ~ending /\ state \in {"IDLE", direction}

AvailableForWrite ==
    /\ Open("TRANSMITTER")
    /\ state' = "TRANSMITTER"
    /\ UNCHANGED <<doubleBuffer, dmaTransferInProgress, life, channel, flags, counts, errors>>

\* Mutant: memcpy to the start of the half.
FilledFromStart(n) == [buffer EXCEPT ![index] =
                          [s \in Slots |-> IF s < n THEN nWritten + 1 + s ELSE @[s]]]

\* memcpy of n new samples behind those of the half at index.
Filled(n) == [buffer EXCEPT ![index] =
                 [s \in Slots |-> IF s \in length[index] .. length[index] + n - 1
                                  THEN nWritten + 1 + (s - length[index]) ELSE @[s]]]

Write(size) ==
    LET n == Least(size, availableForWrite) IN
    /\ Open("TRANSMITTER") /\ nWritten + n <= MaxOut
    /\ state' = "TRANSMITTER"
    /\ buffer' = Filled(n)
    /\ nWritten' = nWritten + n
    /\ IF ~dmaTransferInProgress /\ available + n > 0
       THEN /\ dmaTransferInProgress' = TRUE
            /\ Transfer(valid, available + n)
            /\ index' = Other(index)
            /\ length' = [length EXCEPT ![index] = @ + n, ![Other(index)] = 0]
            /\ readOffset' = [readOffset EXCEPT ![Other(index)] = 0]
       ELSE /\ length' = [length EXCEPT ![index] = @ + n]
            /\ UNCHANGED <<readOffset, index, dmaTransferInProgress, channel>>
    /\ UNCHANGED <<life, flags, nOut, nIn, lastRead, errors>>

\* No transfer fills the other half, and the sketch's half has been emptied.
NeedsInput(left) == ~dmaTransferInProgress /\ left = 0

\* read() of size samples; available() is the read of none.
Read(size) ==
    LET n == Least(size, available) IN
    /\ Open("RECEIVER")
    /\ state' = "RECEIVER"
    /\ lastRead' = IF n = 0 THEN lastRead ELSE buffer[index][readOffset[index] + n - 1]
    /\ IF NeedsInput(available - n)
       THEN /\ dmaTransferInProgress' = TRUE
            /\ Transfer(valid, Size - (available - n))
            /\ index' = Other(index)
            /\ length' = [length EXCEPT ![Other(index)] = 0]
            /\ readOffset' = [readOffset EXCEPT ![index] = @ + n, ![Other(index)] = 0]
       ELSE /\ readOffset' = [readOffset EXCEPT ![index] = @ + n]
            /\ UNCHANGED <<length, index, dmaTransferInProgress, channel>>
    /\ UNCHANGED <<buffer, life, flags, nWritten, nOut, nIn, errors>>

\* end() disables and frees the channel; a completion that is already flagged
\* may come before it clears the rest, and enable the channel again.
EndFree ==
    /\ begun /\ ~ending
    /\ running' = FALSE
    /\ ending' = TRUE
    /\ UNCHANGED <<doubleBuffer, state, dmaTransferInProgress, begun, begins, valid, dmaHalf,
                   dmaPos, dmaEnd, flags, counts, errors>>

EndClear ==
    /\ ending
    /\ state' = "IDLE" /\ dmaTransferInProgress' = FALSE
    /\ begun' = FALSE /\ ending' = FALSE
    /\ nOut' = nWritten
    /\ UNCHANGED <<doubleBuffer, begins, channel, flags, nWritten, nIn, lastRead, errors>>

-----------------------------------------------------------------------------
(* The DMA controller, driven by the clock of the line.  It moves nothing  *)
(* once end() has disabled the serializer.                                 *)

Advance ==
    /\ dmaPos' = dmaPos + 1
    /\ running' = (dmaPos + 1 < dmaEnd)
    /\ tcmpl' = (dmaPos + 1 = dmaEnd)

SendBeat ==
    /\ state = "TRANSMITTER" /\ running
    /\ nOut' = nOut + 1
    /\ Advance
    /\ UNCHANGED <<doubleBuffer, state, dmaTransferInProgress, life, valid, dmaHalf, dmaEnd,
                   terr, nWritten, nIn, lastRead, errors>>

\* A sample arrives: it is stored by a running transfer, lost without one.
Arrive ==
    /\ state = "RECEIVER" /\ nIn < MaxIn
    /\ nIn' = nIn + 1
    /\ IF running
       THEN /\ buffer' = [buffer EXCEPT ![dmaHalf][dmaPos] = nIn + 1]
            /\ Advance
       ELSE UNCHANGED <<buffer, dmaPos, running, tcmpl>>
    /\ UNCHANGED <<length, readOffset, index, state, dmaTransferInProgress, life, valid,
                   dmaHalf, dmaEnd, terr, nWritten, nOut, lastRead, errors>>

TransferError ==
    /\ running /\ state # "IDLE" /\ errors < MaxErrors
    /\ running' = FALSE /\ terr' = TRUE /\ errors' = errors + 1
    /\ UNCHANGED <<doubleBuffer, state, dmaTransferInProgress, life, valid, dmaHalf, dmaPos,
                   dmaEnd, tcmpl, counts>>

-----------------------------------------------------------------------------
(* The DMA interrupt *)

\* An error is cleared and nobody is told: I2SClass registers no callback.
ServiceError ==
    /\ terr
    /\ terr' = FALSE /\ valid' = FALSE
    /\ UNCHANGED <<doubleBuffer, state, dmaTransferInProgress, life, running, dmaHalf, dmaPos,
                   dmaEnd, tcmpl, counts, errors>>

\* onService: the descriptor is invalidated before the callback.
Service == /\ tcmpl /\ tcmpl' = FALSE
           /\ UNCHANGED <<buffer, state, life, terr, counts, errors>>

\* Mutant: the descriptor is invalidated behind the callback.
SendNextRefused ==
    /\ Service /\ state = "TRANSMITTER" /\ available > 0
    /\ Transfer(valid, available)
    /\ Swap(0)
    /\ UNCHANGED dmaTransferInProgress

\* onTransferComplete, sending: the half that the sketch filled goes next.
SendNext ==
    /\ Service /\ state = "TRANSMITTER" /\ available > 0
    /\ Transfer(FALSE, available)
    /\ Swap(0)
    /\ UNCHANGED dmaTransferInProgress

\* Mutant: the descriptor is invalidated behind the callback.
ReceiveNextRefused ==
    /\ Service /\ state # "TRANSMITTER" /\ available = 0
    /\ Transfer(valid, availableForWrite)
    /\ Swap(availableForWrite)
    /\ UNCHANGED dmaTransferInProgress

\* onTransferComplete, otherwise: the half that the sketch has emptied is
\* filled next, and the sketch gets the one just filled.  end() leaves
\* the state that this branch takes for a receiver.
ReceiveNext ==
    /\ Service /\ state # "TRANSMITTER" /\ available = 0
    /\ Transfer(FALSE, availableForWrite)
    /\ Swap(availableForWrite)
    /\ UNCHANGED dmaTransferInProgress

\* onTransferComplete: the sketch was too slow.
Stop ==
    /\ Service
    /\ IF state = "TRANSMITTER" THEN available = 0 ELSE available > 0
    /\ dmaTransferInProgress' = FALSE
    /\ valid' = FALSE
    /\ UNCHANGED <<length, readOffset, index, running, dmaHalf, dmaPos, dmaEnd>>

DmaInterrupt == ServiceError \/ SendNext \/ ReceiveNext \/ Stop

-----------------------------------------------------------------------------
Sketch == \/ Begin \/ AvailableForWrite \/ EndFree \/ EndClear
          \/ \E size \in 1 .. Size : Write(size)
          \/ \E size \in 0 .. Size : Read(size)

Next == Sketch \/ SendBeat \/ Arrive \/ TransferError \/ DmaInterrupt

Spec == Init /\ [][Next]_vars

\* The line's clock, the interrupt and the sketch's polling go on.
Fairness == /\ WF_vars(SendBeat) /\ WF_vars(DmaInterrupt)
            /\ WF_vars(EndClear) /\ WF_vars(Read(Size))

FairSpec == Spec /\ Fairness
-----------------------------------------------------------------------------
(* Properties *)

\* The sketch and the DMA controller never work on the same half: whatever
\* write() copies and read() returns is out of the reach of the channel.
HalvesApart == valid /\ state # "IDLE" => index # dmaHalf

\* The next sample for the line is the oldest one that was written and not
\* sent, across any number of swaps by write() and by the interrupt.
SentInOrder == state = "TRANSMITTER" /\ running => buffer[dmaHalf][dmaPos] = nOut + 1

\* Samples that wait in the sketch's half have a transfer before them whose
\* completion will send them; only an error that nobody reports breaks it.
NotForgotten ==
    state = "TRANSMITTER" /\ available > 0 /\ errors = 0 /\ ~ending
        => dmaTransferInProgress /\ (running \/ tcmpl)

\* What read() will return is newer than all it has returned, in the order of
\* arrival and without a gap inside a half, and has really arrived.
InputInOrder ==
    state = "RECEIVER" =>
        \A s \in readOffset[index] .. length[index] - 1 :
            /\ lastRead < buffer[index][s] /\ buffer[index][s] <= nIn
            /\ s > readOffset[index] => buffer[index][s] = buffer[index][s - 1] + 1

\* As long as the interrupt finds the sketch's half emptied, every half that
\* the channel fills is handed to the sketch whole.
HandedOver ==
    [][state = "RECEIVER" /\ index' # index /\ dmaTransferInProgress
        => index' = dmaHalf /\ dmaPos = Size /\ length'[index'] = Size]_vars

\* read() switches to a half that "will be empty": no half that the channel
\* has filled is thrown away.
EmptyAtRestart ==
    [][state = "RECEIVER" /\ index' # index /\ ~dmaTransferInProgress
        => ~(dmaHalf = index' /\ dmaPos = Size)]_vars

\* Without transfer errors, everything that write() accepted gets on the line
\* (or is thrown away by end()).
Sent == \A k \in 1 .. MaxOut : nWritten >= k ~> (nOut >= k \/ errors > 0)

\* A sketch that keeps reading keeps the channel at work: after each half, and
\* after a stop because the sketch was slow, a transfer is really under way
\* again, one that DMA.transfer has not refused.  An error ends it for good,
\* for nobody reports it.
Resumes == (state = "RECEIVER" /\ ~running)
               ~> (running \/ state # "RECEIVER" \/ errors > 0)
=============================================================================

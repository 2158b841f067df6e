--------------------------- MODULE UsbSerial_proofs ---------------------------
(***************************************************************************)
(* The handover of the two banks of the OUT endpoint, proved for every     *)
(* bank size, request length and number of bytes, and for every place      *)
(* where the USB interrupt may preempt recv or available, as long as the   *)
(* host configures the device only between reads.  The inductive invariant *)
(* is TypeOK /\ CallInv /\ HandoverInv: BanksTakeTurns ties the flags of   *)
(* the banks to the place of the thread, ControllerAgrees ties the         *)
(* descriptor to incoming, BanksChained ties the bytes of the two banks    *)
(* together, and CallInv keeps the sketch to one call at a time.           *)
(***************************************************************************)
EXTENDS UsbSerial, TLAPS

\* Between the calls of the sketch nobody is inside the handler.
CallInv == op = "none" => pc = "idle"

IInv == TypeOK /\ CallInv /\ HandoverInv

-----------------------------------------------------------------------------
(* Types *)

\* A step inside recv or available keeps the types: its counters stay within
\* the bank because first never passes last.
LEMMA HandlerStepType ==
    ASSUME IInv, HandlerStep
    PROVE  TypeOK'
<1> USE EndpointAssumption, SerialAssumption
    DEF IInv, TypeOK, TypeEndpoint, Banks, Other, RecvReturn, handler, controller, serial
<1>1. CASE RecvReady
  BY <1>1 DEF RecvReady, HandlerStep
<1>2. CASE RecvCopy
  <2>1. first[bank] + 1 \in 0 .. Size /\ base[bank] + first[bank] + 1 \in Nat
    BY <1>2 DEF RecvCopy
  <2>2. QED  BY <1>2, <2>1 DEF RecvCopy, HandlerStep
<1>3. CASE RecvCopied
  BY <1>3 DEF RecvCopied, HandlerStep
<1>4. CASE RecvDone
  <2>1. ready' \in [Banks -> BOOLEAN]
    BY <1>4 DEF RecvDone
  <2>2. armed' \in BOOLEAN /\ notify' \in BOOLEAN
    BY <1>4 DEF RecvDone, release
  <2>3. byteCount' \in 0 .. Size
    BY <1>4 DEF RecvDone, release
  <2>4. QED  BY <1>4, <2>1, <2>2, <2>3 DEF RecvDone, HandlerStep
<1>5. CASE AvailableCount
  <2>1. last[bank] - first[bank] \in Nat
    BY <1>5 DEF AvailableCount, HandoverInv, BanksTakeTurns, BanksChained
  <2>2. QED  BY <1>5, <2>1 DEF AvailableCount, HandlerStep
<1>6. QED  BY <1>1, <1>2, <1>3, <1>4, <1>5 DEF HandlerStep, RecvStep

\* Every step keeps the types.
LEMMA TypeStep ==
    ASSUME IInv, [Next]_vars
    PROVE  TypeOK'
<1> USE EndpointAssumption, SerialAssumption
    DEF IInv, TypeOK, TypeEndpoint, Banks, Other, handler, controller, call, serial
<1>1. CASE TakePeeked
  BY <1>1 DEF TakePeeked, endpoint
<1>2. CASE CallRead \/ CallPeek
  BY <1>2 DEF CallRead, CallPeek, CallByte, EnterRecv
<1>3. CASE CallReadBytes
  BY <1>3 DEF CallReadBytes, EnterRecv
<1>4. CASE CallAvailable
  BY <1>4 DEF CallAvailable, AvailableReady, RecvReturn
<1>5. CASE RecvConfigured
  BY <1>5 DEF RecvConfigured, RecvReturn, NotConfigured
<1>6. CASE HandlerStep
  BY <1>6, HandlerStepType
<1>7. CASE ReturnRead \/ ReturnPeek \/ ReadBytesTimeout
  BY <1>7 DEF ReturnRead, ReturnPeek, ReadBytesTimeout, Leave
<1>8. CASE ReadBytesAgain
  <2>1. count' \in 0 .. SizeT - 1 /\ length - count' \in Nat
    BY <1>8 DEF ReadBytesAgain
  <2>2. QED  BY <1>8, <2>1 DEF ReadBytesAgain, EnterRecv
<1>9. CASE ReadBytesFull
  <2>1. count' \in 0 .. SizeT - 1
    BY <1>9 DEF ReadBytesFull
  <2>2. QED  BY <1>9, <2>1 DEF ReadBytesFull, Leave
<1>10. CASE Interrupt
  <2>1. ready' \in [Banks -> BOOLEAN] /\ last' \in [Banks -> 0 .. Size]
    BY <1>10 DEF Interrupt, HandleEndpoint
  <2>2. incoming' \in Banks /\ addr' \in Banks
    BY <1>10 DEF Interrupt, HandleEndpoint
  <2>3. armed' \in BOOLEAN /\ trcpt' \in BOOLEAN
    BY <1>10 DEF Interrupt, HandleEndpoint, release
  <2>4. notify' \in BOOLEAN
    BY <1>10 DEF Interrupt, HandleEndpoint
  <2>5. byteCount' \in 0 .. Size
    BY <1>10 DEF Interrupt, HandleEndpoint, release
  <2>6. QED
    BY <1>10, <2>1, <2>2, <2>3, <2>4, <2>5 DEF Interrupt, HandleEndpoint
<1>11. CASE Transfer /\ UNCHANGED serial
  <2>1. armed' \in BOOLEAN /\ trcpt' \in BOOLEAN
    BY <1>11 DEF Transfer
  <2>2. byteCount' \in 0 .. Size /\ nSent' \in Nat /\ base' \in [Banks -> Nat]
    BY <1>11 DEF Transfer
  <2>3. QED  BY <1>11, <2>1, <2>2 DEF Transfer
<1>12. CASE SetConfiguration
  <2>1. armed' \in BOOLEAN /\ notify' \in BOOLEAN /\ enabled' \in BOOLEAN
    BY <1>12 DEF SetConfiguration, NewHandler, release
  <2>2. /\ first' \in [Banks -> 0 .. Size] /\ last' \in [Banks -> 0 .. Size]
        /\ ready' \in [Banks -> BOOLEAN]
    BY <1>12 DEF SetConfiguration, NewHandler
  <2>3. byteCount' \in 0 .. Size
    BY <1>12 DEF SetConfiguration, NewHandler, release
  <2>4. QED  BY <1>12, <2>1, <2>2, <2>3 DEF SetConfiguration, NewHandler
<1>13. CASE EndOfReset
  BY <1>13 DEF EndOfReset, ResetEndpoint
<1>14. CASE UNCHANGED vars
  BY <1>14 DEF vars, endpoint
<1>15. QED
  BY <1>1, <1>2, <1>3, <1>4, <1>5, <1>6, <1>7, <1>8, <1>9, <1>10, <1>11, <1>12, <1>13, <1>14
  DEF Next, Call, SerialStep, Host

-----------------------------------------------------------------------------
(* The handover *)

\* A step of the thread outside the bank it copies from, which leaves the
\* handler and the controller alone, keeps the handover.
LEMMA QuietStep ==
    ASSUME HandoverInv,
           UNCHANGED <<handler, base, controller, nSent, taken>>,
           pc # "done", pc' \notin {"done", "copy", "count"}
    PROVE  HandoverInv'
<1>1. Oldest' = Oldest /\ \A b \in Banks : Left(b)' = Left(b)
  BY DEF Oldest, Left, Unread, handler
<1>2. BanksTakeTurns'
  BY <1>1 DEF HandoverInv, BanksTakeTurns, Other, handler
<1>3. ControllerAgrees'
  BY DEF HandoverInv, ControllerAgrees, handler, controller
<1>4. BanksChained'
  BY DEF HandoverInv, BanksChained, Other, handler
<1>5. NoneLost' /\ NextInOrder' /\ NotForgotten'
  BY <1>1 DEF HandoverInv, NoneLost, NextInOrder, NotForgotten, Unseen, Banks, handler,
    controller
<1>6. QED  BY <1>2, <1>3, <1>4, <1>5 DEF HandoverInv

\* recv and available find the current bank ready, and it is theirs.
LEMMA EnterBank ==
    ASSUME IInv, RecvReady \/ AvailableReady
    PROVE  HandoverInv'
<1> USE DEF IInv, TypeOK, TypeEndpoint, Banks, Other, RecvReturn, handler, controller
<1>1. CASE ~ready[current]
  <2>1. pc # "done" /\ pc' = "returned" /\ UNCHANGED <<handler, base, controller, nSent, taken>>
    BY <1>1 DEF RecvReady, AvailableReady
  <2>2. QED  BY <2>1, QuietStep
<1>2. CASE ready[current]
  <2>1. /\ pc # "done" /\ pc' \in {"copy", "count"} /\ bank' = current
        /\ UNCHANGED <<handler, base, controller, nSent, taken>>
    BY <1>2 DEF RecvReady, AvailableReady
  <2>2. QED
    BY <1>2, <2>1 DEF HandoverInv, BanksTakeTurns, ControllerAgrees, BanksChained, NoneLost,
      NextInOrder, NotForgotten, Oldest, Left, Unread, Unseen
<1>3. QED  BY <1>1, <1>2

\* Copying a byte takes the next one of the oldest bank.
LEMMA CopyByte ==
    ASSUME IInv, RecvCopy
    PROVE  HandoverInv'
<1> USE DEF IInv, TypeOK, TypeEndpoint, HandoverInv, Banks, Other, RecvCopy, controller
<1>1. /\ bank = current /\ ready[bank] /\ taken = base[bank] + first[bank]
      /\ first'[bank] = first[bank] + 1 /\ first'[Other(bank)] = first[Other(bank)]
      /\ taken' = taken + 1 /\ first'[bank] <= last[bank]
  BY DEF BanksTakeTurns, NextInOrder
<1>2. BanksTakeTurns' /\ ControllerAgrees' /\ NotForgotten'
  BY DEF BanksTakeTurns, ControllerAgrees, NotForgotten, Oldest
<1>3. BanksChained'
  BY <1>1 DEF BanksChained
<1>4. NextInOrder'
  BY <1>1 DEF NextInOrder
<1>5. Left(bank)' = Left(bank) - 1 /\ Left(Other(bank))' = Left(Other(bank))
  BY <1>1 DEF Left, Unread
<1>6. NoneLost'
  BY <1>1, <1>5 DEF NoneLost, Left, Unread, Unseen
<1>7. QED  BY <1>2, <1>3, <1>4, <1>6

\* The end of the copying loop moves on to the other bank when this one is empty.
LEMMA EndCopy ==
    ASSUME IInv, RecvCopied
    PROVE  HandoverInv'
<1> USE DEF IInv, TypeOK, TypeEndpoint, Banks, Other, RecvCopied, RecvReturn, handler, controller
<1>1. CASE first[bank] # last[bank]
  BY <1>1, QuietStep
<1>2. CASE first[bank] = last[bank]
  <2> USE DEF HandoverInv
  <2>1. /\ bank = current /\ ready[bank] /\ taken = base[bank] + last[bank]
        /\ pc' = "done" /\ current' = Other(bank) /\ bank' = bank
        /\ first'[bank] = 0 /\ first'[Other(bank)] = first[Other(bank)]
    BY <1>2 DEF BanksTakeTurns, NextInOrder
  <2>2. BanksTakeTurns' /\ ControllerAgrees' /\ NotForgotten'
    BY <2>1 DEF BanksTakeTurns, ControllerAgrees, NotForgotten, Oldest
  <2>3. BanksChained'
    BY <2>1 DEF BanksChained
  <2>4. NextInOrder'
    BY <2>1 DEF NextInOrder, BanksChained
  <2>5. Left(bank)' = 0 /\ Left(bank) = 0 /\ Left(Other(bank))' = Left(Other(bank))
    BY <1>2, <2>1 DEF Left, Unread
  <2>6. NoneLost'
    BY <2>1, <2>5 DEF NoneLost, Left, Unread, Unseen
  <2>7. QED  BY <2>2, <2>3, <2>4, <2>6
<1>3. QED  BY <1>1, <1>2

\* Giving a bank back releases the endpoint exactly when nobody else will.
LEMMA GiveBack ==
    ASSUME IInv, RecvDone
    PROVE  HandoverInv'
<1> USE DEF IInv, TypeOK, TypeEndpoint, HandoverInv, Banks, Other, RecvDone, RecvReturn, release
<1>1. /\ current = Other(bank) /\ ready[bank] /\ first[bank] = 0
      /\ pc' = "returned" /\ current' = current
      /\ ~ready'[bank] /\ (ready'[current] <=> ready[current])
  <2>1. current = Other(bank) /\ ready[bank] /\ first[bank] = 0
    BY DEF BanksTakeTurns, BanksChained
  <2>2. ready' = [ready EXCEPT ![bank] = FALSE] /\ pc' = "returned" /\ current' = current
    OBVIOUS
  <2>3. QED  BY <2>1, <2>2
<1>2. BanksTakeTurns'
  <2>1. /\ incoming = IF ready[current] THEN bank ELSE current
        /\ incoming' = incoming /\ ~notify'
    BY <1>1 DEF BanksTakeTurns, Oldest
  <2>2. Oldest' = current
    BY <1>1 DEF Oldest
  <2>3. QED  BY <1>1, <2>1, <2>2 DEF BanksTakeTurns
<1>3. ControllerAgrees'
  BY <1>1 DEF ControllerAgrees, NoneLost
<1>4. BanksChained' /\ NextInOrder'
  BY <1>1 DEF BanksChained, NextInOrder
<1>5. Left(0)' = Left(0) /\ Left(1)' = Left(1)
  BY <1>1 DEF Left, Unread
<1>6. NoneLost'
  BY <1>5 DEF NoneLost, ControllerAgrees, Unseen
<1>7. NotForgotten'
  BY DEF NotForgotten
<1>8. QED  BY <1>2, <1>3, <1>4, <1>6, <1>7

\* The interrupt hands the filled bank over, behind the bytes of the other one.
LEMMA HandOver ==
    ASSUME IInv, HandleEndpoint
    PROVE  HandoverInv'
<1> USE DEF IInv, TypeOK, TypeEndpoint, HandoverInv, Banks, Other, HandleEndpoint, release, call
<1>1. CASE byteCount = 0
  <2>1. ~notify /\ ~ready[incoming] /\ incoming' = incoming /\ ready' = ready
    BY <1>1 DEF ControllerAgrees, BanksTakeTurns, Oldest
  <2>2. Left(0)' = Left(0) /\ Left(1)' = Left(1)
    BY <1>1, <2>1 DEF Left, Unread
  <2>3. BanksTakeTurns'
    BY <1>1 DEF BanksTakeTurns, Oldest
  <2>4. ControllerAgrees' /\ NotForgotten'
    BY <1>1, <2>1 DEF ControllerAgrees, NotForgotten
  <2>5. BanksChained' /\ NextInOrder'
    BY <1>1, <2>1 DEF BanksChained, NextInOrder, BanksTakeTurns, Oldest
  <2>6. NoneLost'
    BY <1>1, <2>2 DEF NoneLost, Unseen
  <2>7. QED  BY <2>3, <2>4, <2>5, <2>6
<1>2. CASE byteCount # 0
  <2>1. /\ ~notify /\ ~ready[incoming] /\ first[incoming] = 0 /\ Left(incoming) = 0
        /\ base[incoming] = nSent - byteCount
    BY <1>2 DEF ControllerAgrees, BanksTakeTurns, BanksChained, Oldest, Left, Unread
  <2>2. /\ incoming' = Other(incoming) /\ ready'[incoming] /\ last'[incoming] = byteCount
        /\ ready'[Other(incoming)] <=> ready[Other(incoming)]
        /\ last'[Other(incoming)] = last[Other(incoming)]
        /\ notify' <=> ready[Other(incoming)]
    BY <1>2
  <2>3. BanksTakeTurns'
    <3>1. Oldest' = Oldest /\ Oldest \in Banks
      BY <1>2 DEF Oldest
    <3>2. /\ pc' = pc /\ current' = current /\ bank' = bank
          /\ (ready[0] => ready'[0]) /\ (ready[1] => ready'[1])
      BY <1>2
    <3>3. QED  BY <2>1, <2>2, <3>1, <3>2 DEF BanksTakeTurns
  <2>4. ControllerAgrees' /\ NotForgotten'
    BY <1>2, <2>1, <2>2 DEF ControllerAgrees, NotForgotten
  <2>5. base[incoming] = taken + Left(Other(incoming))
    BY <2>1 DEF NoneLost, Unseen, Left, Unread
  <2>6. BanksChained'
    BY <1>2, <2>1, <2>2, <2>5 DEF BanksChained, NextInOrder, BanksTakeTurns, Oldest, Left,
      Unread
  <2>7. NextInOrder'
    BY <1>2, <2>1, <2>2, <2>5 DEF NextInOrder, BanksTakeTurns, Oldest, Left, Unread
  <2>8. \A b \in Banks : Left(b)' = IF b = incoming THEN byteCount ELSE Left(b)
    <3>1. pc = "done" => incoming # bank
      BY <2>1 DEF BanksTakeTurns
    <3>2. pc' = pc /\ bank' = bank /\ first' = first
      BY <1>2
    <3>3. Banks = {incoming, Other(incoming)} /\ Other(incoming) # incoming
      OBVIOUS
    <3>4. SUFFICES ASSUME NEW b \in Banks
                   PROVE  Left(b)' = IF b = incoming THEN byteCount ELSE Left(b)
      OBVIOUS
    <3>5. CASE b = incoming
      BY <2>1, <2>2, <3>1, <3>2, <3>5 DEF Left, Unread
    <3>6. CASE b = Other(incoming)
      BY <2>1, <2>2, <3>1, <3>2, <3>3, <3>6 DEF Left, Unread
    <3>7. QED  BY <3>3, <3>5, <3>6
  <2>9. NoneLost'
    BY <1>2, <2>1, <2>8 DEF NoneLost, Unseen, Left, Unread
  <2>10. QED  BY <2>3, <2>4, <2>6, <2>7, <2>9
<1>3. QED  BY <1>1, <1>2

\* A transfer fills the bank the handler expects, which holds nothing to read.
LEMMA Fill ==
    ASSUME IInv, Transfer
    PROVE  HandoverInv'
<1> USE DEF IInv, TypeOK, TypeEndpoint, HandoverInv, Banks, Other, handler, call
<1>1. /\ armed /\ enabled /\ byteCount = 0 /\ addr = incoming /\ ~notify /\ ~ready[incoming]
      /\ UNCHANGED <<current, incoming, first, last, ready, notify, addr, enabled, pc, bank, taken>>
      /\ armed' = FALSE /\ trcpt' = TRUE
  BY DEF Transfer, ControllerAgrees, BanksTakeTurns, Oldest
<1>2. /\ byteCount' \in 0 .. Size /\ nSent' = nSent + byteCount'
      /\ byteCount' = 0 => base' = base
      /\ byteCount' # 0 => base' = [base EXCEPT ![incoming] = nSent]
  BY <1>1 DEF Transfer
<1>3. base'[Other(incoming)] = base[Other(incoming)]
  BY <1>2
<1>4. BanksTakeTurns' /\ NotForgotten'
  BY <1>1 DEF BanksTakeTurns, NotForgotten, Oldest
<1>5. ControllerAgrees'
  BY <1>1, <1>2 DEF ControllerAgrees
<1>6. BanksChained' /\ NextInOrder'
  BY <1>1, <1>3 DEF BanksChained, NextInOrder, BanksTakeTurns, Oldest
<1>7. Left(0)' = Left(0) /\ Left(1)' = Left(1)
  BY <1>1 DEF Left, Unread
<1>8. NoneLost'
  BY <1>1, <1>2, <1>7 DEF NoneLost, Unseen, Left, Unread
<1>9. QED  BY <1>4, <1>5, <1>6, <1>8

\* A new handler starts with nothing to read and nothing owed.
LEMMA Configure ==
    ASSUME IInv, NewHandler, pc = "idle"
    PROVE  HandoverInv'
BY DEF IInv, TypeOK, TypeEndpoint, HandoverInv, Banks, Other, NewHandler, release, call,
  BanksTakeTurns, ControllerAgrees, BanksChained, NoneLost, NextInOrder, NotForgotten,
  Oldest, Left, Unread, Unseen

\* A bus reset keeps the flags of the handler.
LEMMA Disable ==
    ASSUME IInv, ResetEndpoint
    PROVE  HandoverInv'
BY DEF IInv, HandoverInv, ResetEndpoint, handler, call, Other,
  BanksTakeTurns, ControllerAgrees, BanksChained, NoneLost, NextInOrder, NotForgotten, Oldest

\* Every step keeps the handover, when the host configures only between reads.
LEMMA HandoverStep ==
    ASSUME ~BusyConfigure, IInv, [Next]_vars
    PROVE  HandoverInv'
<1>1. CASE TakePeeked \/ UNCHANGED vars
  <2>1. UNCHANGED endpoint
    BY <1>1 DEF TakePeeked, vars
  <2>2. QED
    BY <2>1 DEF IInv, HandoverInv, endpoint, handler, controller, call, BanksTakeTurns, Other,
      ControllerAgrees, BanksChained, NoneLost, NextInOrder, NotForgotten, Oldest, Left,
      Unread, Unseen
<1>2. CASE CallRead \/ CallPeek \/ CallReadBytes
  <2>1. /\ pc # "done"
        /\ pc' = "config" /\ UNCHANGED <<handler, base, controller, nSent, taken>>
    BY <1>2 DEF CallRead, CallPeek, CallByte, CallReadBytes, EnterRecv, Idle, IInv, CallInv
  <2>2. QED  BY <2>1, QuietStep DEF IInv
<1>3. CASE CallAvailable
  BY <1>3, EnterBank DEF CallAvailable
<1>4. CASE RecvConfigured
  BY <1>4, QuietStep DEF RecvConfigured, RecvReturn, IInv
<1>5. CASE HandlerStep
  <2>1. CASE AvailableCount
    BY <2>1, QuietStep DEF AvailableCount, RecvReturn, IInv
  <2>2. QED
    BY <1>5, <2>1, EnterBank, CopyByte, EndCopy, GiveBack DEF HandlerStep, RecvStep
<1>6. CASE SerialStep
  <2>1. /\ pc = "returned" /\ pc' \in {"idle", "config"}
        /\ UNCHANGED <<handler, base, controller, nSent, taken>>
    BY <1>6 DEF SerialStep, ReturnRead, ReturnPeek, ReadBytesTimeout, ReadBytesAgain,
      ReadBytesFull, Leave, EnterRecv
  <2>2. QED  BY <2>1, QuietStep DEF IInv
<1>7. CASE Interrupt
  BY <1>7, HandOver DEF Interrupt
<1>8. CASE Host
  BY <1>8, Fill, Configure, Disable DEF Host, SetConfiguration, EndOfReset
<1>9. QED
  BY <1>1, <1>2, <1>3, <1>4, <1>5, <1>6, <1>7, <1>8 DEF Next, Call

-----------------------------------------------------------------------------
(* The results *)

\* Every step keeps the sketch to one call at a time.
LEMMA CallStep ==
    ASSUME IInv, [Next]_vars
    PROVE  CallInv'
<1> USE DEF IInv, CallInv, call, serial
<1>1. CASE Call
  BY <1>1 DEF Call, TakePeeked, CallRead, CallPeek, CallByte, CallReadBytes, CallAvailable,
    endpoint
<1>2. CASE RecvConfigured \/ HandlerStep
  <2>1. pc # "idle" /\ op' = op
    BY <1>2 DEF RecvConfigured, HandlerStep, RecvStep, RecvReady, RecvCopy, RecvCopied,
      RecvDone,
      AvailableCount
  <2>2. QED  BY <2>1
<1>3. CASE SerialStep
  BY <1>3 DEF SerialStep, ReturnRead, ReturnPeek, ReadBytesTimeout, ReadBytesAgain,
    ReadBytesFull,
    Leave, EnterRecv
<1>4. CASE Interrupt \/ Host
  BY <1>4 DEF Interrupt, HandleEndpoint, Host, Transfer, SetConfiguration, NewHandler,
    EndOfReset,
    ResetEndpoint
<1>5. CASE UNCHANGED vars
  BY <1>5 DEF vars, endpoint
<1>6. QED  BY <1>1, <1>2, <1>3, <1>4, <1>5 DEF Next

\* The initial state satisfies the inductive invariant.
LEMMA InitInv == Init => IInv
<1> SUFFICES ASSUME Init PROVE IInv
  OBVIOUS
<1> USE EndpointAssumption, SerialAssumption DEF Init, InitEndpoint, Banks, Other
<1>1. TypeEndpoint
  <2>1. /\ notify \in BOOLEAN /\ armed \in BOOLEAN /\ trcpt \in BOOLEAN /\ enabled \in BOOLEAN
    OBVIOUS
  <2>2. /\ ready \in [Banks -> BOOLEAN] /\ base \in [Banks -> Nat]
        /\ first \in [Banks -> 0 .. Size] /\ last \in [Banks -> 0 .. Size]
    OBVIOUS
  <2>3. QED  BY <2>1, <2>2 DEF TypeEndpoint
<1>2. TypeOK
  <2>1. configured \in BOOLEAN
    OBVIOUS
  <2>2. QED  BY <1>1, <2>1 DEF TypeOK
<1>3. BanksTakeTurns /\ BanksChained
  BY DEF BanksTakeTurns, BanksChained, Oldest
<1>4. ControllerAgrees /\ NoneLost /\ NextInOrder /\ NotForgotten
  BY DEF ControllerAgrees, NoneLost, NextInOrder, NotForgotten
<1>5. QED  BY <1>2, <1>3, <1>4 DEF IInv, CallInv, HandoverInv

\* Types and the handover hold in every reachable state, when the host
\* configures the device only between reads.
LEMMA Invariance ==
    ASSUME ~BusyConfigure
    PROVE  Spec => []IInv
<1>1. Init => IInv
  BY InitInv
<1>2. IInv /\ [Next]_vars => IInv'
  BY TypeStep, CallStep, HandoverStep DEF IInv
<1>3. QED  BY <1>1, <1>2, PTL DEF Spec

\* Every variable of the USB serial port keeps its type.
THEOREM TypeCorrect ==
    ASSUME ~BusyConfigure
    PROVE  Spec => []TypeOK
<1>1. IInv => TypeOK
  BY DEF IInv
<1>2. QED  BY <1>1, Invariance, PTL

\* The two banks of recv, handleEndpoint and the controller stay in step
\* wherever the interrupt preempts the thread.
THEOREM Handover ==
    ASSUME ~BusyConfigure
    PROVE  Spec => []HandoverInv
<1>1. IInv => HandoverInv
  BY DEF IInv
<1>2. QED  BY <1>1, Invariance, PTL

\* Every byte the controller accepted has been taken, is in a bank or is about
\* to be seen by the interrupt.
THEOREM NothingLost ==
    ASSUME ~BusyConfigure
    PROVE  Spec => []NoneLost
<1>1. IInv => NoneLost
  BY DEF IInv, HandoverInv
<1>2. QED  BY <1>1, Invariance, PTL

\* recv takes the bytes of the host in their order.
THEOREM InOrder ==
    ASSUME ~BusyConfigure
    PROVE  Spec => []NextInOrder
<1>1. IInv => NextInOrder
  BY DEF IInv, HandoverInv
<1>2. QED  BY <1>1, Invariance, PTL

\* The controller is never armed with the bank that recv or available reads.
THEOREM StableBank ==
    ASSUME ~BusyConfigure
    PROVE  Spec => []BankStable
<1>1. IInv => BankStable
  BY DEF IInv, TypeOK, TypeEndpoint, Banks, Other, HandoverInv, BanksTakeTurns,
    ControllerAgrees, Oldest, BankStable
<1>2. QED  BY <1>1, Invariance, PTL

\* The controller is never armed with a bank that holds bytes to read.
THEOREM NoOverwrite ==
    ASSUME ~BusyConfigure
    PROVE  Spec => []NeverOverwrites
<1>1. IInv => NeverOverwrites
  BY DEF IInv, TypeOK, TypeEndpoint, Banks, Other, HandoverInv, BanksTakeTurns,
    ControllerAgrees, Oldest, NeverOverwrites, Left, Unread
<1>2. QED  BY <1>1, Invariance, PTL

\* An endpoint that accepts no transfer has a pending interrupt or a full pair
\* of banks, whose reader is bound to release it.
THEOREM NotForgottenAlways ==
    ASSUME ~BusyConfigure
    PROVE  Spec => []NotForgotten
<1>1. IInv => NotForgotten
  BY DEF IInv, HandoverInv
<1>2. QED  BY <1>1, Invariance, PTL
=============================================================================

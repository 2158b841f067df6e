---------------------------- MODULE LineReset_proofs ----------------------------
(***************************************************************************)
(* The application is erased only as the last request asked, for every     *)
(* length of the count-down and every number of requests.                  *)
(***************************************************************************)
EXTENDS LineReset, TLAPS

USE DEF lineInfo, handler, host, history

(***************************************************************************)
(* The inductive invariant.  As long as no request has come in between,    *)
(* what tickReset holds is what ticks is, and ticks follows the last       *)
(* request and the ticks since; the device's view of the port is the       *)
(* host's unless end() has cleared it.                                     *)
(***************************************************************************)
HeldInv ==
    /\ tick = "store" => held \in 1 .. Delay
    /\ tick = "test" => held \in 0 .. Delay - 1
    /\ ~torn /\ tick \in {"store", "test"} => held = ticks
    /\ ticks = 0 => erased \/ (tick = "test" /\ held = 0)
    /\ erased => tick = "idle"

PortInv ==
    /\ dwDTERate = hostRate \/ dwDTERate = 0
    /\ lineState = hostDtr \/ stale
    /\ asked => Touched(hostRate, hostDtr) \/ stale

CountInv ==
    ~torn /\ ~erased =>
        IF asked THEN ticks = Delay - since + (IF tick = "store" THEN 1 ELSE 0)
                 ELSE ticks = -1 /\ tick \notin {"store", "test"}

IInv == TypeOK /\ HeldInv /\ PortInv /\ CountInv /\ ErasedAsAsked

-----------------------------------------------------------------------------
LEMMA TouchRateNotZero == TouchRate # 0
  BY DEF TouchRate

LEMMA DelayInRange == Delay \in -1 .. Delay /\ -1 \in -1 .. Delay /\ 0 \in 0 .. Delay
  BY LineResetAssumption

LEMMA InitIInv == Init => IInv
<1> SUFFICES ASSUME Init PROVE IInv
  OBVIOUS
<1>1. TypeOK
  BY DelayInRange DEF Init, TypeOK
<1>2. HeldInv
  BY DEF Init, HeldInv
<1>3. PortInv
  BY DEF Init, PortInv
<1>4. CountInv
  BY DEF Init, CountInv
<1>5. ErasedAsAsked
  BY DEF Init, ErasedAsAsked
<1> QED
  BY <1>1, <1>2, <1>3, <1>4, <1>5 DEF IInv

\* SysTick, one access at a time.
LEMMA TickEnterStep == IInv /\ TickEnter => IInv'
<1> SUFFICES ASSUME IInv, TickEnter PROVE IInv'
  OBVIOUS
<1>1. TypeOK'
  BY DEF IInv, TickEnter, TypeOK
<1>2. HeldInv'
  BY DEF IInv, TickEnter, HeldInv
<1>3. PortInv'
  BY DEF IInv, TickEnter, PortInv
<1>4. CountInv'
  BY DEF IInv, TickEnter, CountInv
<1>5. ErasedAsAsked'
  BY DEF TickEnter, ErasedAsAsked
<1> QED
  BY <1>1, <1>2, <1>3, <1>4, <1>5 DEF IInv

LEMMA TickLoadStep == IInv /\ TickLoad => IInv'
<1> SUFFICES ASSUME IInv, TickLoad PROVE IInv'
  OBVIOUS
<1>1. TypeOK'
  BY LineResetAssumption DEF IInv, TickLoad, Seen, TypeOK
<1>2. HeldInv'
  BY DEF IInv, TickLoad, TypeOK, HeldInv
<1>3. PortInv'
  BY DEF IInv, TickLoad, PortInv
<1>4. CountInv'
  BY LineResetAssumption DEF IInv, TickLoad, Seen, TypeOK, HeldInv, CountInv
<1>5. ErasedAsAsked'
  BY DEF IInv, TickLoad, HeldInv, ErasedAsAsked
<1> QED
  BY <1>1, <1>2, <1>3, <1>4, <1>5 DEF IInv

LEMMA TickStoreStep == IInv /\ TickStore => IInv'
<1> SUFFICES ASSUME IInv, TickStore PROVE IInv'
  OBVIOUS
<1>1. TypeOK'
  <2>1. held - 1 \in -1 .. Delay
    BY LineResetAssumption DEF IInv, HeldInv, TickStore
  <2> QED
    BY <2>1 DEF IInv, TypeOK, TickStore
<1>2. HeldInv'
  BY LineResetAssumption DEF IInv, TickStore, HeldInv
<1>3. PortInv'
  BY DEF IInv, TickStore, PortInv
<1>4. CountInv'
  BY LineResetAssumption DEF IInv, TickStore, TypeOK, HeldInv, CountInv
<1>5. ErasedAsAsked'
  BY DEF IInv, TickStore, ErasedAsAsked
<1> QED
  BY <1>1, <1>2, <1>3, <1>4, <1>5 DEF IInv

LEMMA TickTestStep == IInv /\ TickTest => IInv'
<1> SUFFICES ASSUME IInv, TickTest PROVE IInv'
  OBVIOUS
<1>1. TypeOK'
  BY DEF IInv, TickTest, TypeOK
<1>2. HeldInv'
  BY DEF IInv, TickTest, HeldInv
<1>3. PortInv'
  BY DEF IInv, TickTest, PortInv
<1>4. CountInv'
  BY DEF IInv, TickTest, HeldInv, CountInv
<1>5. ErasedAsAsked'
  BY LineResetAssumption DEF IInv, TickTest, TypeOK, HeldInv, PortInv, CountInv, ErasedAsAsked
<1> QED
  BY <1>1, <1>2, <1>3, <1>4, <1>5 DEF IInv

\* The requests
LEMMA SetLineCodingStep ==
    ASSUME NEW rate \in Bauds, IInv, SetLineCoding(rate) PROVE IInv'
<1>1. TypeOK'
  <2>1. ticks' \in -1 .. Delay
    BY DelayInRange DEF SetLineCoding, Request, ArmOrCancel
  <2>2. requests' \in Nat /\ since' \in 0 .. Delay
    BY DelayInRange DEF IInv, TypeOK, SetLineCoding, Request
  <2>3. torn' \in BOOLEAN /\ asked' \in BOOLEAN
    BY DEF SetLineCoding, Request, Touched
  <2> QED
    BY <2>1, <2>2, <2>3 DEF IInv, TypeOK, SetLineCoding, Request
<1>2. HeldInv'
  BY LineResetAssumption
     DEF IInv, SetLineCoding, Request, ArmOrCancel, TypeOK, HeldInv, CountInv
<1>3. PortInv'
  BY DEF IInv, SetLineCoding, Request, TypeOK, PortInv
<1>4. CountInv'
  <2>1. asked' = Touched(rate, lineState) /\ since' = 0 /\ tick' = tick
    BY DEF SetLineCoding, Request
  <2>2. ~torn' => tick \notin {"store", "test"}
    BY DEF SetLineCoding, Request
  <2>3. ticks' = IF asked' THEN Delay ELSE -1
    BY <2>1 DEF SetLineCoding, Request, ArmOrCancel
  <2> QED
    BY <2>1, <2>2, <2>3, LineResetAssumption DEF CountInv
<1>5. ErasedAsAsked'
  BY DEF SetLineCoding, Request, ErasedAsAsked
<1> QED
  BY <1>1, <1>2, <1>3, <1>4, <1>5 DEF IInv

LEMMA SetControlLineStateStep ==
    ASSUME NEW dtr \in BOOLEAN, IInv, SetControlLineState(dtr) PROVE IInv'
<1>1. TypeOK'
  <2>1. ticks' \in -1 .. Delay
    BY DelayInRange DEF SetControlLineState, Request, ArmOrCancel
  <2>2. requests' \in Nat /\ since' \in 0 .. Delay
    BY DelayInRange DEF IInv, TypeOK, SetControlLineState, Request
  <2>3. torn' \in BOOLEAN /\ asked' \in BOOLEAN
    BY DEF SetControlLineState, Request, Touched
  <2> QED
    BY <2>1, <2>2, <2>3 DEF IInv, TypeOK, SetControlLineState, Request
<1>2. HeldInv'
  BY LineResetAssumption
     DEF IInv, SetControlLineState, Request, ArmOrCancel, TypeOK, HeldInv, CountInv
<1>3. PortInv'
  BY TouchRateNotZero DEF IInv, SetControlLineState, Request, PortInv, Touched
<1>4. CountInv'
  <2>1. asked' = Touched(dwDTERate, dtr) /\ since' = 0 /\ tick' = tick
    BY DEF SetControlLineState, Request
  <2>2. ~torn' => tick \notin {"store", "test"}
    BY DEF SetControlLineState, Request
  <2>3. ticks' = IF asked' THEN Delay ELSE -1
    BY <2>1 DEF SetControlLineState, Request, ArmOrCancel
  <2> QED
    BY <2>1, <2>2, <2>3, LineResetAssumption DEF CountInv
<1>5. ErasedAsAsked'
  BY DEF SetControlLineState, Request, ErasedAsAsked
<1> QED
  BY <1>1, <1>2, <1>3, <1>4, <1>5 DEF IInv

\* Serial_::end()
LEMMA EndRateStep == IInv /\ EndRate => IInv'
<1> SUFFICES ASSUME IInv, EndRate PROVE IInv'
  OBVIOUS
<1>1. TypeOK'
  BY DEF IInv, EndRate, TypeOK
<1>2. HeldInv'
  BY DEF IInv, EndRate, HeldInv
<1>3. PortInv'
  BY DEF IInv, EndRate, PortInv
<1>4. CountInv'
  BY DEF IInv, EndRate, CountInv
<1>5. ErasedAsAsked'
  BY DEF EndRate, ErasedAsAsked
<1> QED
  BY <1>1, <1>2, <1>3, <1>4, <1>5 DEF IInv

LEMMA EndLineStateStep == IInv /\ EndLineState => IInv'
<1> SUFFICES ASSUME IInv, EndLineState PROVE IInv'
  OBVIOUS
<1>1. TypeOK'
  BY DEF IInv, EndLineState, TypeOK
<1>2. HeldInv'
  BY DEF IInv, EndLineState, HeldInv
<1>3. PortInv'
  BY DEF IInv, EndLineState, PortInv
<1>4. CountInv'
  BY DEF IInv, EndLineState, CountInv
<1>5. ErasedAsAsked'
  BY DEF EndLineState, ErasedAsAsked
<1> QED
  BY <1>1, <1>2, <1>3, <1>4, <1>5 DEF IInv

LEMMA StepIInv == IInv /\ [Next]_vars => IInv'
<1> SUFFICES ASSUME IInv, [Next]_vars PROVE IInv'
  OBVIOUS
<1>1. CASE TickEnter
  BY <1>1, TickEnterStep
<1>2. CASE TickStep
  BY <1>2, TickLoadStep, TickStoreStep, TickTestStep DEF TickStep
<1>3. CASE HostRequest
  BY <1>3, SetLineCodingStep, SetControlLineStateStep DEF HostRequest
<1>4. CASE EndRate \/ EndLineState
  BY <1>4, EndRateStep, EndLineStateStep
<1>5. CASE UNCHANGED vars
  BY <1>5 DEF vars, IInv, TypeOK, HeldInv, PortInv, CountInv, ErasedAsAsked
<1> QED
  BY <1>1, <1>2, <1>3, <1>4, <1>5 DEF Next

-----------------------------------------------------------------------------
THEOREM Invariance == Spec => []IInv
  BY InitIInv, StepIInv, PTL DEF Spec

\* Every variable keeps its type; the count-down never leaves -1 .. Delay.
THEOREM TypeCorrect == Spec => []TypeOK
<1>1. IInv => TypeOK
  BY DEF IInv
<1> QED
  BY <1>1, Invariance, PTL

\* The application is erased only as the last request asked, unless a request
\* is torn apart by tickReset.
THEOREM NoResetUnasked == Spec => []ErasedAsAsked
<1>1. IInv => ErasedAsAsked
  BY DEF IInv
<1> QED
  BY <1>1, Invariance, PTL

\* What is left of the count-down is what the ticks since the request left.
THEOREM CountDown == Spec => []CountsDown
<1>1. IInv => CountsDown
  BY DEF IInv, CountInv, CountsDown
<1> QED
  BY <1>1, Invariance, PTL
=============================================================================

------------------------------- MODULE LineReset -------------------------------
(***************************************************************************)
(* The reset into the bootloader: the host's SET_LINE_CODING and           *)
(* SET_CONTROL_LINE_STATE requests, handled by CDC_Setup in the USB        *)
(* interrupt (USB/CDC.cpp), arm and cancel a count-down that tickReset     *)
(* runs in SysTick (Reset.cpp), an interrupt that USB preempts; the sketch *)
(* may clear the line state with Serial_::end().                           *)
(* At 1200 baud with DTR low the device restarts in its bootloader after   *)
(* Delay ticks, its application erased.                                    *)
(***************************************************************************)
EXTENDS Integers

CONSTANTS
    Delay,         \* the argument of initiateReset: 250
    Bauds,         \* the rates that the host sets
    MaxRequests    \* bound on the host's requests

ASSUME LineResetAssumption ==
    /\ Delay \in Nat \ {0} /\ Bauds \subseteq Nat /\ MaxRequests \in Nat

VARIABLES
    dwDTERate, lineState,   \* _usbLineInfo; of lineState, DTR
    ticks,                  \* the count-down, or -1
    tick, held,             \* where SysTick is, and ticks as it has read it
    sketch,                 \* where the thread is
    erased,                 \* banzai() has run
    requests,               \* the requests handled
    hostRate, hostDtr,      \* the port as the host has set it
    since,                  \* ticks that tickReset has seen since the last request
    asked,                  \* the last request armed the reset
    torn,                   \* the last request came while tickReset held a value
    stale                   \* end() cleared the line state after the host set it

lineInfo == <<dwDTERate, lineState>>
handler == <<tick, held>>
host == <<requests, hostRate, hostDtr>>
history == <<since, asked, torn, stale>>
vars == <<lineInfo, ticks, handler, sketch, erased, host, history>>

InitialRate == 115200
TouchRate == 1200

TypeOK ==
    /\ dwDTERate \in Bauds \cup {0, InitialRate} /\ lineState \in BOOLEAN
    /\ ticks \in -1 .. Delay /\ held \in -1 .. Delay
    /\ tick \in {"idle", "load", "store", "test"} /\ sketch \in {"idle", "end"}
    /\ erased \in BOOLEAN /\ requests \in Nat
    /\ hostRate \in Bauds \cup {InitialRate} /\ hostDtr \in BOOLEAN
    /\ since \in 0 .. Delay /\ asked \in BOOLEAN /\ torn \in BOOLEAN /\ stale \in BOOLEAN

Init ==
    /\ dwDTERate = InitialRate /\ lineState = FALSE
    /\ ticks = -1 /\ tick = "idle" /\ held = -1
    /\ sketch = "idle" /\ erased = FALSE
    /\ requests = 0 /\ hostRate = InitialRate /\ hostDtr = FALSE
    /\ since = 0 /\ asked = FALSE /\ torn = FALSE /\ stale = FALSE

Touched(rate, dtr) == rate = TouchRate /\ ~dtr

-----------------------------------------------------------------------------
(* SysTick_DefaultHandler: tickReset, one access to ticks at a time.       *)

TickEnter ==
    /\ tick = "idle" /\ ~erased
    /\ tick' = "load"
    /\ UNCHANGED <<lineInfo, ticks, held, sketch, erased, host, history>>

Seen == since' = IF since < Delay THEN since + 1 ELSE since

\* Mutant: a count-down of one tick counts as none.
TickLoadLate ==
    /\ tick = "load" /\ Seen
    /\ IF ticks <= 1 THEN tick' = "idle" /\ UNCHANGED held
                     ELSE tick' = "store" /\ held' = ticks
    /\ UNCHANGED <<lineInfo, ticks, sketch, erased, host, asked, torn, stale>>

\* No count-down runs, or ticks is in a register.
TickLoad ==
    /\ tick = "load" /\ Seen
    /\ IF ticks = -1 THEN tick' = "idle" /\ UNCHANGED held
                     ELSE tick' = "store" /\ held' = ticks
    /\ UNCHANGED <<lineInfo, ticks, sketch, erased, host, asked, torn, stale>>

\* ticks--: whatever a request has written meanwhile is overwritten.
TickStore ==
    /\ tick = "store"
    /\ ticks' = held - 1 /\ held' = held - 1
    /\ tick' = "test"
    /\ UNCHANGED <<lineInfo, sketch, erased, host, history>>

TickTest ==
    /\ tick = "test"
    /\ tick' = "idle" /\ erased' = (held = 0)
    /\ UNCHANGED <<lineInfo, ticks, held, sketch, host, history>>

TickStep == TickLoad \/ TickStore \/ TickTest

-----------------------------------------------------------------------------
(* CDC_Setup, in the USB interrupt: nothing preempts it.                   *)

\* Mutant: a request that does not arm the reset leaves it alone.
ArmOrCancelArmOnly(rate, dtr) == ticks' = IF Touched(rate, dtr) THEN Delay ELSE ticks

\* initiateReset or cancelReset, by the line coding and the line state.
ArmOrCancel(rate, dtr) == ticks' = IF Touched(rate, dtr) THEN Delay ELSE -1

Request(rate, dtr) ==
    /\ ~erased /\ requests < MaxRequests
    /\ requests' = requests + 1
    /\ ArmOrCancel(rate, dtr)
    /\ since' = 0 /\ asked' = Touched(rate, dtr) /\ torn' = (tick \in {"store", "test"})
    /\ UNCHANGED <<handler, sketch, erased>>

SetLineCoding(rate) ==
    /\ Request(rate, lineState)
    /\ dwDTERate' = rate /\ hostRate' = rate
    /\ UNCHANGED <<lineState, hostDtr, stale>>

SetControlLineState(dtr) ==
    /\ Request(dwDTERate, dtr)
    /\ lineState' = dtr /\ hostDtr' = dtr /\ stale' = FALSE
    /\ UNCHANGED <<dwDTERate, hostRate>>

-----------------------------------------------------------------------------
(* Serial_::end() in the thread: memset clears the rate first.             *)

EndRate ==
    /\ sketch = "idle" /\ tick = "idle" /\ ~erased
    /\ sketch' = "end" /\ dwDTERate' = 0
    /\ UNCHANGED <<lineState, ticks, handler, erased, host, history>>

EndLineState ==
    /\ sketch = "end" /\ tick = "idle" /\ ~erased
    /\ sketch' = "idle" /\ lineState' = FALSE /\ stale' = TRUE
    /\ UNCHANGED <<dwDTERate, ticks, handler, erased, host, since, asked, torn>>

-----------------------------------------------------------------------------
HostRequest ==
    \/ \E rate \in Bauds : SetLineCoding(rate)
    \/ \E dtr \in BOOLEAN : SetControlLineState(dtr)

Next == TickEnter \/ TickStep \/ HostRequest \/ EndRate \/ EndLineState

Spec == Init /\ [][Next]_vars

\* SysTick runs every millisecond and its handler does not wait for anything.
FairSpec == Spec /\ WF_vars(TickEnter) /\ WF_vars(TickStep)

-----------------------------------------------------------------------------
(* Properties *)

\* The application is erased only as the last request asked: it armed the
\* reset at least Delay ticks ago, and the host's port is set to 1200 baud and
\* closed, unless the sketch's end() hides that it is open.  The exception is a
\* request that comes between tickReset's read and its write of ticks, or
\* before its test: the write undoes it (cancelReset in CDC.cpp, Reset.cpp).
ErasedAsAsked ==
    erased => \/ torn
              \/ /\ asked /\ since = Delay
                 /\ Touched(hostRate, hostDtr) \/ stale

\* While the reset is armed by the last request, its count-down is what the
\* ticks since then have left of Delay, wherever SysTick is preempted.
CountsDown ==
    ticks >= 0 /\ ~torn /\ ~erased =>
        ticks = Delay - since + (IF tick = "store" THEN 1 ELSE 0)

\* The 1200 baud touch works: once the host has closed the port at 1200 baud
\* the device restarts in its bootloader, or the host asks for something else.
TouchResets == ticks > 0 ~> (erased \/ ticks = -1)

\* What the comment in CDC_Setup says: the reset comes when the port is closed.
ClosedAtReset == erased /\ ~torn => ~hostDtr
=============================================================================

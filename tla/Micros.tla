-------------------------------- MODULE Micros --------------------------------
(***************************************************************************)
(* The time (cores/arduino/delay.c): micros() reads the SysTick counter,   *)
(* its pending bit and _ulTickCount one after the other and repeats until  *)
(* the three agree, while the counter runs and SysTick_Handler may come in *)
(* between, may be masked, or may itself be preempted by the interrupt     *)
(* that calls micros(); delay() waits on it.                               *)
(* One cycle of the counter stands for one microsecond and Period of them  *)
(* for the 1000 of a tick, so that the scaling of the counter is the       *)
(* identity.  An unsigned long holds numbers below Word.                   *)
(***************************************************************************)
EXTENDS Integers

CONSTANTS
    Period,     \* cycles of a tick: SysTick->LOAD + 1
    Word,       \* 2^32
    MaxDelay,   \* bound on the argument of delay()
    MaxAge      \* bound on the cycles that a call lasts

ASSUME MicrosAssumption ==
    /\ Period \in Nat /\ Period > 1 /\ Word \in Nat /\ MaxDelay \in Nat /\ MaxAge \in Nat
    /\ MaxAge + Period < Word /\ MaxDelay * Period < MaxAge

Callers == {"thread", "isr"}   \* the isr has a higher priority than SysTick

VARIABLES
    cycle,         \* the true time, modulo what millis() can tell apart
    pending,       \* SCB->ICSR.PENDSTSET
    entered,       \* SysTick_Handler is entered and has not counted yet
    _ulTickCount,
    masked,        \* PRIMASK, set by the thread
    pc,            \* who is where in micros()
    older, newer,  \* ticks, pend, count and ticks2, pend2, count2
    first,         \* the reads are those before the loop
    age,           \* cycles since the call of micros()
    ms, start,     \* of delay()
    delaying,      \* where the thread is in delay()
    asked, since   \* its argument, cycles since its call

clock == <<cycle, pending, entered, _ulTickCount>>
call == <<pc, older, newer, first>>
delay == <<ms, start, delaying, asked>>
vars == <<clock, masked, call, age, delay, since>>

Reading == [ticks : 0 .. Period - 1, pend : {0, 1}, count : 0 .. Word - 1]
NoReading == [ticks |-> 0, pend |-> 0, count |-> 0]

TypeOK ==
    /\ cycle \in 0 .. Period * Word - 1 /\ pending \in BOOLEAN /\ entered \in BOOLEAN
    /\ _ulTickCount \in 0 .. Word - 1 /\ masked \in BOOLEAN
    /\ pc \in [Callers -> {"idle", "ticks", "pend", "count", "done"}]
    /\ older \in Reading /\ newer \in Reading /\ first \in BOOLEAN /\ age \in 0 .. MaxAge
    /\ ms \in 0 .. MaxDelay /\ start \in 0 .. Word - 1
    /\ delaying \in {"no", "start", "wait", "return"} /\ asked \in 0 .. MaxDelay /\ since \in 0 .. MaxAge

Init ==
    /\ cycle = 0 /\ pending = FALSE /\ entered = FALSE /\ _ulTickCount = 0 /\ masked = FALSE
    /\ pc = [c \in Callers |-> "idle"] /\ older = NoReading /\ newer = NoReading
    /\ first = FALSE /\ age = 0
    /\ ms = 0 /\ start = 0 /\ delaying = "no" /\ asked = 0 /\ since = 0

-----------------------------------------------------------------------------
(* SysTick *)

Val == (Period - 1) - (cycle % Period)

InMicros == \E c \in Callers : pc[c] # "idle"

\* The counter requests the interrupt when it reaches 0 and is reloaded one
\* cycle later.  Interrupts are never off for a whole period: no tick is lost.
Advance ==
    /\ cycle' = (cycle + 1) % (Period * Word)
    /\ Val = 1 => ~pending
    /\ pending' = (pending \/ Val = 1)
    /\ InMicros => age < MaxAge
    /\ delaying # "no" => since < MaxAge
    /\ age' = IF InMicros THEN age + 1 ELSE 0
    /\ since' = IF delaying # "no" THEN since + 1 ELSE 0

Cycle == Advance /\ UNCHANGED <<entered, _ulTickCount, masked, call, delay>>

\* Exception entry clears the pending bit.
Enter ==
    /\ pending /\ ~entered /\ ~masked /\ pc["isr"] = "idle"
    /\ pending' = FALSE /\ entered' = TRUE
    /\ UNCHANGED <<cycle, _ulTickCount, masked, call, age, delay, since>>

\* SysTick_DefaultHandler; the entry lasts longer than the cycle at 0.
Count ==
    /\ entered /\ pc["isr"] = "idle" /\ Val # 0
    /\ _ulTickCount' = (_ulTickCount + 1) % Word /\ entered' = FALSE
    /\ UNCHANGED <<cycle, pending, masked, call, age, delay, since>>

-----------------------------------------------------------------------------
(* micros().  The thread runs when no interrupt does, and one that is      *)
(* pending and not masked comes before its next instruction.               *)

Runs(c) == c = "thread" => ~entered /\ pc["isr"] = "idle" /\ (pending => masked)

Call(c) ==
    /\ pc[c] = "idle"
    /\ pc' = [pc EXCEPT ![c] = "ticks"] /\ first' = TRUE /\ age' = 0

ReadTicks(c) ==
    /\ pc[c] = "ticks" /\ Runs(c)
    /\ pc' = [pc EXCEPT ![c] = "pend"]
    /\ older' = newer /\ newer' = [newer EXCEPT !.ticks = Val]
    /\ UNCHANGED <<clock, masked, first, age, delay, since>>

\* A cycle passes before the next round reads the counter again.
ReadPend(c) ==
    /\ pc[c] = "pend" /\ Runs(c)
    /\ pc' = [pc EXCEPT ![c] = "count"]
    /\ newer' = [newer EXCEPT !.pend = IF pending THEN 1 ELSE 0]
    /\ Advance
    /\ UNCHANGED <<entered, _ulTickCount, masked, older, first, delay>>

\* Mutant: the roll-over of the counter is not looked for.
AgreeButTicks(reading) == older.pend = reading.pend /\ older.count = reading.count

\* The loop's condition.
Agree(reading) ==
    /\ older.pend = reading.pend /\ older.count = reading.count
    /\ older.ticks >= reading.ticks

ReadCount(c) ==
    /\ pc[c] = "count" /\ Runs(c)
    /\ newer' = [newer EXCEPT !.count = _ulTickCount]
    /\ first' = FALSE
    /\ pc' = [pc EXCEPT ![c] = IF ~first /\ Agree(newer') THEN "done" ELSE "ticks"]
    /\ UNCHANGED <<clock, masked, older, age, delay, since>>

Result == ((older.count + older.pend) * Period + (Period - 1 - older.ticks)) % Word

Forget == older' = NoReading /\ newer' = NoReading /\ age' = 0

MicrosStep == \E c \in Callers : ReadTicks(c) \/ ReadPend(c) \/ ReadCount(c)

-----------------------------------------------------------------------------
(* The callers.  An isr that comes while the thread is in micros() changes *)
(* nothing that the thread reads and is left out.                          *)

ThreadCall ==
    /\ Call("thread") /\ Runs("thread") /\ delaying = "no"
    /\ UNCHANGED <<clock, masked, older, newer, delay, since>>

IsrCall ==
    /\ Call("isr") /\ ~masked /\ pc["thread"] = "idle"
    /\ UNCHANGED <<clock, masked, older, newer, delay, since>>

Return(c) ==
    /\ pc[c] = "done" /\ delaying = "no"
    /\ pc' = [pc EXCEPT ![c] = "idle"] /\ Forget
    /\ UNCHANGED <<clock, masked, first, delay, since>>

\* noInterrupts() and interrupts()
Mask ==
    /\ ~InMicros /\ ~entered /\ delaying = "no"
    /\ masked' = ~masked
    /\ UNCHANGED <<clock, call, age, delay, since>>

-----------------------------------------------------------------------------
(* delay(), in the thread.                                                 *)

CallDelay(n) ==
    /\ Call("thread") /\ Runs("thread") /\ delaying = "no" /\ ~masked
    /\ delaying' = "start" /\ asked' = n /\ ms' = n /\ since' = 0
    /\ UNCHANGED <<clock, masked, older, newer, start>>

Polled == pc["thread"] = "done" /\ Runs("thread")

CallAgain ==
    /\ pc' = [pc EXCEPT !["thread"] = IF delaying' = "wait" THEN "ticks" ELSE "idle"]
    /\ first' = TRUE /\ Forget
    /\ UNCHANGED <<clock, masked, asked, since>>

DelayStart ==
    /\ Polled /\ delaying = "start"
    /\ start' = Result /\ delaying' = "wait" /\ UNCHANGED ms
    /\ CallAgain

\* Mutant: the two numbers are compared, not their difference.
ElapsedCompared == Result >= (start + Period) % Word

\* micros() - start >= 1000, in unsigned arithmetic.
Elapsed == (Result - start) % Word >= Period

NextStart == (start + Period) % Word

DelayPoll ==
    /\ Polled /\ delaying = "wait"
    /\ ms' = IF Elapsed THEN ms - 1 ELSE ms
    /\ start' = IF Elapsed THEN NextStart ELSE start
    /\ delaying' = IF ms' = 0 THEN "return" ELSE "wait"
    /\ CallAgain

DelayReturn ==
    /\ delaying = "return"
    /\ delaying' = "no" /\ asked' = 0 /\ start' = 0 /\ since' = 0
    /\ UNCHANGED <<clock, masked, call, age, ms>>

-----------------------------------------------------------------------------
ThreadStep == ThreadCall \/ Mask \/ DelayStart \/ DelayPoll \/ DelayReturn

Next ==
    \/ Cycle \/ Enter \/ Count \/ MicrosStep \/ ThreadStep \/ IsrCall
    \/ \E c \in Callers : Return(c)
    \/ \E n \in 1 .. MaxDelay : CallDelay(n)

Spec == Init /\ [][Next]_vars

-----------------------------------------------------------------------------
(* Properties *)

\* How long ago it was what micros() says, modulo Word.
Ago == (cycle - Result) % Word

\* micros() returns a time between its call and its return, whatever comes
\* between its reads (delay.c: "Interrupt-compatible version of micros"),
\* except to an interrupt that has preempted SysTick_Handler before it counts:
\* its pending bit is cleared and the tick not yet counted, and the result is a
\* millisecond behind.
MicrosInCall ==
    \A c \in Callers : pc[c] = "done" =>
        Ago <= age \/ (entered /\ (Ago - Period) \in 0 .. age)

\* micros() returns a time between its call and its return, to every caller.
MicrosExact == \A c \in Callers : pc[c] = "done" => Ago <= age

\* delay(n) lasts n milliseconds at least, across the wrap of micros().
DelayLongEnough == delaying = "return" => since >= asked * Period
=============================================================================

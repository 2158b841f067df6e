----------------------------- MODULE Micros_proofs -----------------------------
(***************************************************************************)
(* micros() and delay(), proved for every period of SysTick, every width   *)
(* of the numbers and every interleaving of the counter, SysTick_Handler   *)
(* and the callers.  In this order: arithmetic modulo Word; types and who  *)
(* may run when; SysTick; the rounds of micros(); delay().                 *)
(***************************************************************************)
EXTENDS Micros, TLAPS

-----------------------------------------------------------------------------
(* Numbers modulo Word.                                                    *)

\* x is a whole number of Words: two times that differ by it look the same.
Multiple(x) == \E k \in Int : x = k * Word

LEMMA MultipleZero == Multiple(0)
<1>1. 0 = 0 * Word
  BY MicrosAssumption
<1> QED
  BY <1>1 DEF Multiple

LEMMA MultipleSum ==
    ASSUME NEW x \in Int, NEW y \in Int, Multiple(x), Multiple(y)
    PROVE  Multiple(x + y) /\ Multiple(x - y)
<1>1. PICK j \in Int : x = j * Word
  BY DEF Multiple
<1>2. PICK k \in Int : y = k * Word
  BY DEF Multiple
<1>3. Word \in Int
  BY MicrosAssumption
<1>4. x + y = (j + k) * Word /\ x - y = (j - k) * Word
  BY <1>1, <1>2, <1>3
<1> QED
  BY <1>4 DEF Multiple

LEMMA MultipleOfWord ==
    ASSUME NEW k \in Int
    PROVE  Multiple(k * Word)
  BY DEF Multiple

\* The only one among the numbers below Word is 0.
LEMMA SmallMultiple ==
    ASSUME NEW x \in Int, Multiple(x), - Word < x, x < Word
    PROVE  x = 0
<1>1. PICK k \in Int : x = k * Word
  BY DEF Multiple
<1>2. Word \in Nat
  BY MicrosAssumption
<1>3. CASE k >= 1
  <2>1. (k - 1) * Word >= 0
    BY <1>2, <1>3
  <2>2. (k - 1) * Word = k * Word - Word
    BY <1>2
  <2> QED
    BY <1>1, <1>2, <2>1, <2>2
<1>4. CASE k <= -1
  <2>1. (- k - 1) * Word >= 0
    BY <1>2, <1>4
  <2>2. (- k - 1) * Word = - (k * Word) - Word
    BY <1>2
  <2> QED
    BY <1>1, <1>2, <2>1, <2>2
<1>5. CASE k = 0
  BY <1>1, <1>2, <1>5
<1> QED
  BY <1>3, <1>4, <1>5

LEMMA Remainder ==
    ASSUME NEW m \in Nat, m > 0, NEW x \in Int
    PROVE  /\ x % m \in 0 .. m - 1
           /\ \E q \in Int : x = q * m + (x % m)
<1>1. x % m \in 0 .. m - 1
  OBVIOUS
<1>2. x = (x \div m) * m + (x % m) /\ x \div m \in Int
  OBVIOUS
<1> QED
  BY <1>1, <1>2

\* The remainder is the only number below m that differs from x by a multiple.
LEMMA RemainderIs ==
    ASSUME NEW m \in Nat, m > 0, NEW x \in Int, NEW r \in 0 .. m - 1,
           \E q \in Int : x = q * m + r
    PROVE  x % m = r
<1>0. PICK q \in Int : x = q * m + r
  OBVIOUS
<1>1. PICK p \in Int : x = p * m + (x % m)
  BY Remainder
<1>2. x % m \in 0 .. m - 1
  BY Remainder
<1>3. CASE p >= q + 1
  <2>1. (p - q - 1) * m >= 0
    BY <1>3
  <2>2. (p - q - 1) * m = p * m - q * m - m
    OBVIOUS
  <2> QED
    BY <1>0, <1>1, <1>2, <2>1, <2>2
<1>4. CASE q >= p + 1
  <2>1. (q - p - 1) * m >= 0
    BY <1>4
  <2>2. (q - p - 1) * m = q * m - p * m - m
    OBVIOUS
  <2> QED
    BY <1>0, <1>1, <1>2, <2>1, <2>2
<1>5. CASE p = q
  BY <1>0, <1>1, <1>2, <1>5
<1> QED
  BY <1>3, <1>4, <1>5

LEMMA RemainderMultiple ==
    ASSUME NEW x \in Int
    PROVE  x % Word \in 0 .. Word - 1 /\ Multiple(x - (x % Word))
<1>1. Word \in Nat /\ Word > 0
  BY MicrosAssumption
<1>2. PICK q \in Int : x = q * Word + (x % Word)
  BY <1>1, Remainder
<1>3. x % Word \in 0 .. Word - 1
  BY <1>1, Remainder
<1>4. x - (x % Word) = q * Word
  BY <1>1, <1>2, <1>3
<1> QED
  BY <1>3, <1>4 DEF Multiple

\* Two numbers below Word that look the same are.
LEMMA SameRemainder ==
    ASSUME NEW x \in Int, NEW d \in 0 .. Word - 1, Multiple(x - d)
    PROVE  x % Word = d
<1>1. Word \in Nat /\ Word > 0
  BY MicrosAssumption
<1>2. x % Word \in 0 .. Word - 1 /\ Multiple(x - (x % Word))
  BY RemainderMultiple
<1>3. Multiple((x - d) - (x - (x % Word)))
  BY <1>1, <1>2, MultipleSum
<1>4. (x - d) - (x - (x % Word)) = (x % Word) - d
  BY <1>1, <1>2
<1>5. Multiple((x % Word) - d)
  BY <1>3, <1>4
<1>6. (x % Word) - d = 0
  BY <1>1, <1>2, <1>5, SmallMultiple
<1> QED
  BY <1>1, <1>2, <1>6

-----------------------------------------------------------------------------
(* Types *)

LEMMA PeriodType ==
    /\ Period \in Nat /\ Period > 1 /\ Word \in Nat /\ Word > 1
    /\ MaxAge \in Nat /\ MaxDelay \in Nat /\ MaxAge + Period < Word
    /\ Period * Word \in Nat /\ Period * Word > Period /\ Period * Word > 1
<1>1. /\ Period \in Nat /\ Period > 1 /\ Word \in Nat /\ Word > 1
      /\ MaxAge \in Nat /\ MaxDelay \in Nat /\ MaxAge + Period < Word
  BY MicrosAssumption
<1>2. Period * (Word - 1) > 0 /\ Period * Word = Period * (Word - 1) + Period
  BY <1>1
<1> QED
  BY <1>1, <1>2

LEMMA ValType ==
    ASSUME TypeOK
    PROVE  Val \in 0 .. Period - 1
<1>1. cycle \in Int
  BY PeriodType DEF TypeOK
<1>2. cycle % Period \in 0 .. Period - 1
  BY <1>1, PeriodType, Remainder
<1> QED
  BY <1>2, PeriodType DEF Val

\* The counter counts down and is reloaded; cycle goes on, or starts again at 0
\* after Word ticks.
LEMMA AdvanceCycle ==
    ASSUME TypeOK, Advance
    PROVE  /\ cycle' \in 0 .. Period * Word - 1
           /\ Val' = IF Val = 0 THEN Period - 1 ELSE Val - 1
           /\ \E j \in Int : cycle' = cycle + 1 - j * Word
<1>1. /\ cycle \in 0 .. Period * Word - 1
      /\ cycle' = (cycle + 1) % (Period * Word)
  BY DEF TypeOK, Advance
<1>0. cycle \in Int /\ Period \in Nat /\ Period > 0
  BY <1>1, PeriodType
<1>2. cycle % Period \in 0 .. Period - 1
  BY <1>0, Remainder
<1>3. PICK q \in Int : cycle = q * Period + (cycle % Period)
  BY <1>0, Remainder
<1> DEFINE p == cycle % Period
<1>4. p \in 0 .. Period - 1 /\ cycle = q * Period + p /\ Val = Period - 1 - p
  BY <1>2, <1>3, PeriodType DEF Val
<1> HIDE DEF p
<1>5. cycle' = IF cycle + 1 = Period * Word THEN 0 ELSE cycle + 1
  <2> DEFINE m == Period * Word  r == IF cycle + 1 = m THEN 0 ELSE cycle + 1
  <2>1. m \in Nat /\ m > 0 /\ r \in 0 .. m - 1 /\ cycle + 1 \in Int
    BY <1>1, PeriodType
  <2>2. \E k \in Int : cycle + 1 = k * m + r
    <3>1. CASE cycle + 1 = m
      <4>1. cycle + 1 = 1 * m + r
        BY <2>1, <3>1
      <4> QED
        BY <4>1
    <3>2. CASE cycle + 1 # m
      <4>1. cycle + 1 = 0 * m + r
        BY <2>1, <3>2
      <4> QED
        BY <4>1
    <3> QED
      BY <3>1, <3>2
  <2> HIDE DEF m, r
  <2>3. (cycle + 1) % m = r
    BY <2>1, <2>2, RemainderIs
  <2> QED
    BY <1>1, <2>3 DEF m, r
<1>6. cycle' \in 0 .. Period * Word - 1
  BY <1>1, <1>5, PeriodType
<1>7. \E j \in Int : cycle' = cycle + 1 - j * Word
  <2>1. CASE cycle + 1 = Period * Word
    BY <1>1, <1>5, <2>1, PeriodType
  <2>2. CASE cycle + 1 # Period * Word
    <3>1. cycle' = cycle + 1 - 0 * Word
      BY <1>1, <1>5, <2>2, PeriodType
    <3> QED
      BY <3>1
  <2> QED
    BY <2>1, <2>2
<1>8. (cycle + 1) % Period = IF p = Period - 1 THEN 0 ELSE p + 1
  <2> DEFINE r == IF p = Period - 1 THEN 0 ELSE p + 1
  <2>1. r \in 0 .. Period - 1
    BY <1>0, <1>4
  <2>2. \E k \in Int : cycle + 1 = k * Period + r
    <3>1. CASE p = Period - 1
      <4>1. cycle + 1 = (q + 1) * Period + r /\ q + 1 \in Int
        BY <1>0, <1>4, <3>1
      <4> QED
        BY <4>1
    <3>2. CASE p # Period - 1
      <4>1. cycle + 1 = q * Period + r
        BY <1>0, <1>4, <3>2
      <4> QED
        BY <4>1
    <3> QED
      BY <3>1, <3>2
  <2> HIDE DEF r
  <2>3. cycle + 1 \in Int
    BY <1>0
  <2>4. (cycle + 1) % Period = r
    BY <1>0, <2>1, <2>2, <2>3, RemainderIs
  <2> QED
    BY <2>4 DEF r
<1>9. cycle' % Period = (cycle + 1) % Period
  <2>1. CASE cycle + 1 = Period * Word
    <3>1. 0 \in 0 .. Period - 1 /\ cycle + 1 \in Int
      BY <1>0
    <3>2. \E k \in Int : cycle + 1 = k * Period + 0
      <4>1. cycle + 1 = Word * Period + 0 /\ Word \in Int
        BY <2>1, PeriodType
      <4> QED
        BY <4>1
    <3>3. (cycle + 1) % Period = 0
      BY <1>0, <3>1, <3>2, RemainderIs
    <3>4. \E k \in Int : 0 = k * Period + 0
      <4>1. 0 = 0 * Period + 0
        BY <1>0
      <4> QED
        BY <4>1
    <3>5. 0 % Period = 0
      BY <1>0, <3>1, <3>4, RemainderIs
    <3> QED
      BY <1>5, <2>1, <3>3, <3>5
  <2>2. CASE cycle + 1 # Period * Word
    BY <1>5, <2>2
  <2> QED
    BY <2>1, <2>2
<1>10. Val' = Period - 1 - (IF p = Period - 1 THEN 0 ELSE p + 1)
  BY <1>8, <1>9, PeriodType DEF Val
<1>11. Val' = IF Val = 0 THEN Period - 1 ELSE Val - 1
  BY <1>4, <1>10, PeriodType
<1> QED
  BY <1>6, <1>7, <1>11

USE DEF clock, call, delay

LEMMA AdvanceType ==
    ASSUME TypeOK, Advance
    PROVE  /\ cycle' \in 0 .. Period * Word - 1 /\ pending' \in BOOLEAN
           /\ age' \in 0 .. MaxAge /\ since' \in 0 .. MaxAge
<1>1. cycle' \in 0 .. Period * Word - 1
  BY AdvanceCycle
<1>2. pending' \in BOOLEAN
  BY DEF TypeOK, Advance
<1>3. age' \in 0 .. MaxAge
  BY PeriodType DEF TypeOK, Advance
<1>4. since' \in 0 .. MaxAge
  BY PeriodType DEF TypeOK, Advance
<1> QED
  BY <1>1, <1>2, <1>3, <1>4

LEMMA ReadingType ==
    ASSUME NEW r \in Reading
    PROVE  /\ r.ticks \in 0 .. Period - 1 /\ r.pend \in {0, 1} /\ r.count \in 0 .. Word - 1
           /\ r.ticks \in Int /\ r.pend \in Int /\ r.count \in Int
  BY PeriodType DEF Reading

\* The number that micros() returns before it is cut to a word.
Sum(r) == (r.count + r.pend) * Period + (Period - 1 - r.ticks)

LEMMA ResultType ==
    ASSUME TypeOK
    PROVE  Sum(older) \in Int /\ Result = Sum(older) % Word /\ Result \in 0 .. Word - 1
<1>1. older.ticks \in Int /\ older.pend \in Int /\ older.count \in Int
  BY ReadingType DEF TypeOK
<1>2. Sum(older) \in Int
  BY <1>1, PeriodType DEF Sum
<1>3. Result = Sum(older) % Word
  BY DEF Result, Sum
<1> QED
  BY <1>2, <1>3, RemainderMultiple

LEMMA NextStartType ==
    ASSUME TypeOK
    PROVE  NextStart \in 0 .. Word - 1
  BY RemainderMultiple, PeriodType DEF NextStart, TypeOK

(***************************************************************************)
(* Who is where: one caller at a time, none in the thread while an entered *)
(* handler waits for interrupts to be on, and delay() with its counters.   *)
(***************************************************************************)
AloneInv ==
    /\ pc["thread"] = "idle" \/ pc["isr"] = "idle"
    /\ pc["thread"] # "idle" /\ masked => ~entered

DelayingInv ==
    /\ delaying # "no" => ~masked
    /\ delaying = "return" => pc["thread"] = "idle" /\ ms = 0
    /\ delaying \in {"start", "wait"} =>
           pc["thread"] # "idle" /\ ms \in 1 .. asked /\ age <= since

CallerInv == TypeOK /\ AloneInv /\ DelayingInv

LEMMA TypesStep == CallerInv /\ [Next]_vars => TypeOK'
<1> SUFFICES ASSUME CallerInv, [Next]_vars PROVE TypeOK'
  OBVIOUS
<1>0. TypeOK
  BY DEF CallerInv
<1>a. NoReading \in Reading
  BY PeriodType DEF NoReading, Reading
<1>b. Val \in 0 .. Period - 1
  BY <1>0, ValType
<1>1. CASE Cycle
  BY <1>0, <1>1, AdvanceType DEF Cycle, TypeOK
<1>2. CASE Enter
  BY <1>0, <1>2 DEF Enter, TypeOK
<1>3. CASE Count
  <2>1. _ulTickCount + 1 \in Int
    BY <1>0, PeriodType DEF TypeOK
  <2>2. _ulTickCount' \in 0 .. Word - 1
    BY <1>0, <1>3, <2>1, RemainderMultiple DEF Count
  <2> QED
    BY <1>0, <1>3, <2>2 DEF Count, TypeOK
<1>4. ASSUME NEW c \in Callers, ReadTicks(c) PROVE TypeOK'
  <2>1. newer' \in Reading
    BY <1>0, <1>4, <1>b DEF ReadTicks, TypeOK, Reading
  <2> QED
    BY <1>0, <1>4, <2>1 DEF ReadTicks, TypeOK
<1>5. ASSUME NEW c \in Callers, ReadPend(c) PROVE TypeOK'
  <2>1. newer' \in Reading
    BY <1>0, <1>5 DEF ReadPend, TypeOK, Reading
  <2>2. pc' \in [Callers -> {"idle", "ticks", "pend", "count", "done"}]
    BY <1>0, <1>5 DEF ReadPend, TypeOK
  <2> QED
    BY <1>0, <1>5, <2>1, <2>2, AdvanceType DEF ReadPend, TypeOK
<1>6. ASSUME NEW c \in Callers, ReadCount(c) PROVE TypeOK'
  <2>1. newer' \in Reading
    BY <1>0, <1>6 DEF ReadCount, TypeOK, Reading
  <2> QED
    BY <1>0, <1>6, <2>1 DEF ReadCount, TypeOK
<1>7. CASE ThreadCall \/ IsrCall
  <2>1. pc' \in [Callers -> {"idle", "ticks", "pend", "count", "done"}] /\ age' \in 0 .. MaxAge
    BY <1>0, <1>7, PeriodType DEF ThreadCall, IsrCall, Call, TypeOK, Callers
  <2> QED
    BY <1>0, <1>7, <2>1 DEF ThreadCall, IsrCall, Call, TypeOK
<1>8. CASE Mask
  BY <1>0, <1>8 DEF Mask, TypeOK
<1>9. CASE DelayStart
  BY <1>0, <1>9, <1>a, ResultType, PeriodType DEF DelayStart, CallAgain, Forget, TypeOK, Callers
<1>10. CASE DelayPoll
  <2>1. ms' \in 0 .. MaxDelay
    BY <1>0, <1>10, PeriodType DEF CallerInv, DelayingInv, DelayPoll, TypeOK
  <2> QED
    BY <1>0, <1>10, <2>1, <1>a, NextStartType, PeriodType
       DEF DelayPoll, CallAgain, Forget, TypeOK, Callers
<1>11. CASE DelayReturn
  BY <1>0, <1>11, PeriodType DEF DelayReturn, TypeOK
<1>12. ASSUME NEW c \in Callers, Return(c) PROVE TypeOK'
  BY <1>0, <1>12, <1>a, PeriodType DEF Return, Forget, TypeOK
<1>13. ASSUME NEW n \in 1 .. MaxDelay, CallDelay(n) PROVE TypeOK'
  BY <1>0, <1>13, PeriodType DEF CallDelay, Call, TypeOK, Callers
<1>14. CASE UNCHANGED vars
  BY <1>0, <1>14 DEF vars, TypeOK
<1> QED
  BY <1>0, <1>1, <1>2, <1>3, <1>4, <1>5, <1>6, <1>7, <1>8, <1>9, <1>10, <1>11, <1>12, <1>13,
     <1>14
     DEF Next, MicrosStep, ThreadStep

LEMMA CallerStep == CallerInv /\ [Next]_vars => CallerInv'
<1> SUFFICES ASSUME CallerInv, [Next]_vars PROVE AloneInv' /\ DelayingInv'
  BY TypesStep DEF CallerInv
<1>0. TypeOK
  BY DEF CallerInv
<1> USE DEF CallerInv, AloneInv, DelayingInv
<1>1. CASE Cycle
  <2>1. delaying \in {"start", "wait"} => age' = age + 1 /\ since' = since + 1
    BY <1>1 DEF Cycle, Advance, InMicros, Callers
  <2> QED
    BY <1>1, <2>1, <1>0 DEF Cycle, TypeOK
<1>2. CASE Enter
  BY <1>2 DEF Enter
<1>3. CASE Count
  BY <1>3 DEF Count
<1>4. ASSUME NEW c \in Callers, ReadTicks(c) \/ ReadCount(c) PROVE AloneInv' /\ DelayingInv'
  <2>1. /\ pc[c] # "idle" /\ pc' = [pc EXCEPT ![c] = pc'[c]] /\ pc'[c] # "idle"
        /\ UNCHANGED <<masked, entered, delaying, ms, asked, age, since>>
    BY <1>4, <1>0 DEF ReadTicks, ReadCount, TypeOK
  <2>2. \A k \in Callers : pc'[k] = "idle" <=> pc[k] = "idle"
    BY <2>1, <1>0 DEF TypeOK
  <2> QED
    BY <2>1, <2>2 DEF Callers
<1>5. ASSUME NEW c \in Callers, ReadPend(c) PROVE AloneInv' /\ DelayingInv'
  <2>1. pc[c] # "idle" /\ pc' = [pc EXCEPT ![c] = "count"]
    BY <1>5 DEF ReadPend
  <2>2. \A k \in Callers : pc'[k] = "idle" <=> pc[k] = "idle"
    BY <2>1, <1>0 DEF TypeOK
  <2>3. delaying \in {"start", "wait"} => age' = age + 1 /\ since' = since + 1
    BY <1>5 DEF ReadPend, Advance, InMicros, Callers
  <2>4. UNCHANGED <<masked, entered, delaying, ms, asked>>
    BY <1>5 DEF ReadPend
  <2>5. AloneInv'
    BY <2>2, <2>4 DEF Callers
  <2> QED
    BY <2>2, <2>3, <2>4, <2>5, <1>0 DEF Callers, TypeOK
<1>7. CASE ThreadCall \/ IsrCall
  BY <1>0, <1>7 DEF ThreadCall, IsrCall, Call, Runs, TypeOK, Callers
<1>8. CASE Mask
  BY <1>8 DEF Mask, InMicros, Callers
<1>9. CASE DelayStart
  BY <1>0, <1>9 DEF DelayStart, Polled, CallAgain, Forget, TypeOK, Callers
<1>10. CASE DelayPoll
  BY <1>0, <1>10, PeriodType DEF DelayPoll, Polled, CallAgain, Forget, TypeOK, Callers
<1>11. CASE DelayReturn
  BY <1>11 DEF DelayReturn
<1>12. ASSUME NEW c \in Callers, Return(c) PROVE AloneInv' /\ DelayingInv'
  BY <1>0, <1>12 DEF Return, TypeOK, Callers
<1>13. ASSUME NEW n \in 1 .. MaxDelay, CallDelay(n) PROVE AloneInv' /\ DelayingInv'
  BY <1>0, <1>13, PeriodType DEF CallDelay, Call, Runs, TypeOK, Callers
<1>14. CASE UNCHANGED vars
  BY <1>14 DEF vars
<1> QED
  BY <1>1, <1>2, <1>3, <1>4, <1>5, <1>7, <1>8, <1>9, <1>10, <1>11, <1>12, <1>13, <1>14
     DEF Next, MicrosStep, ThreadStep

LEMMA InitCaller == Init => CallerInv
<1> SUFFICES ASSUME Init PROVE CallerInv
  OBVIOUS
<1>1. NoReading \in Reading /\ 0 \in 0 .. Period * Word - 1
  BY PeriodType DEF NoReading, Reading
<1>2. pc \in [Callers -> {"idle", "ticks", "pend", "count", "done"}]
  BY DEF Init
<1>3. 0 \in 0 .. Word - 1 /\ 0 \in 0 .. MaxAge /\ 0 \in 0 .. MaxDelay
  BY PeriodType
<1>4. TypeOK
  BY <1>1, <1>2, <1>3 DEF Init, TypeOK
<1> QED
  BY <1>4 DEF Init, CallerInv, AloneInv, DelayingInv, Callers

-----------------------------------------------------------------------------
(* SysTick: the ticks counted, requested and under way are those of cycle. *)

Bit(x) == IF x THEN 1 ELSE 0

\* Cycles since the last tick was requested, plus those before the request
\* that its period has already spent: -1 while the counter is at 0.
Into(v) == IF v = 0 THEN -1 ELSE Period - 1 - v

\* The n-th tick began b cycles before t, modulo Word.
DueAt(n, b, t) == Multiple(n * Period + b - t)

ClockInv ==
    /\ DueAt(_ulTickCount + Bit(pending) + Bit(entered), Into(Val), cycle)
    /\ Val = 0 => pending \/ entered

LEMMA DueLater ==
    ASSUME TypeOK, Advance, NEW n \in Int, NEW b \in Int, DueAt(n, b, cycle)
    PROVE  DueAt(n, b + 1, cycle')
<1>1. PICK j \in Int : cycle' = cycle + 1 - j * Word
  BY AdvanceCycle
<1>2. cycle \in Int /\ Period \in Int /\ Word \in Int
  BY PeriodType DEF TypeOK
<1> DEFINE p == n * Period  w == j * Word
<1>3. p \in Int /\ w \in Int /\ Multiple(w) /\ Multiple(p + b - cycle) /\ cycle' = cycle + 1 - w
  BY <1>1, <1>2, MultipleOfWord DEF DueAt
<1> HIDE DEF p, w
<1>4. Multiple((p + b - cycle) + w)
  BY <1>2, <1>3, MultipleSum
<1>5. (p + b - cycle) + w = p + (b + 1) - cycle'
  BY <1>2, <1>3
<1>6. Multiple(p + (b + 1) - cycle')
  BY <1>4, <1>5
<1> QED
  BY <1>6 DEF p, DueAt

\* A count that wraps is a whole number of Words of cycles less.
LEMMA DueWraps ==
    ASSUME NEW x \in Int, NEW m \in Int, NEW b \in Int, NEW t \in Int, DueAt(x + m, b, t)
    PROVE  DueAt((x % Word) + m, b, t)
<1>0. Word \in Nat /\ Word > 0 /\ Period \in Int
  BY PeriodType
<1>1. PICK q \in Int : x = q * Word + (x % Word)
  BY <1>0, Remainder
<1> DEFINE y == x % Word
<1>2. y \in Int /\ x = q * Word + y
  BY <1>1, RemainderMultiple
<1> HIDE DEF y
<1> DEFINE a == (x + m) * Period + b - t  k == q * Period  c == k * Word
<1>3. a \in Int /\ c \in Int /\ Multiple(a) /\ Multiple(c)
  <2>1. q * Period \in Int
    BY <1>0
  <2>2. Multiple(c)
    <3>1. k \in Int
      BY <2>1
    <3> HIDE DEF k
    <3> QED
      BY <3>1, MultipleOfWord
  <2>5. c \in Int
    BY <1>0, <2>1
  <2>3. Multiple(a)
    BY DEF DueAt
  <2>4. a \in Int
    BY <1>0
  <2> QED
    BY <2>2, <2>3, <2>4, <2>5
<1>4. Multiple(a - c)
  BY <1>3, MultipleSum
<1>5. a - c = (y + m) * Period + b - t
  BY <1>2, PeriodType
<1> HIDE DEF a, c
<1>6. DueAt(y + m, b, t)
  BY <1>4, <1>5 DEF DueAt
<1> QED
  BY <1>6 DEF y

LEMMA IntoType ==
    ASSUME NEW v \in 0 .. Period - 1
    PROVE  Into(v) \in Int /\ Into(v) >= -1 /\ Into(v) <= Period - 1 - v
  BY PeriodType DEF Into

\* A cycle later.
LEMMA IntoLater ==
    ASSUME TypeOK, Advance
    PROVE  /\ Into(Val') = IF Val = 1 THEN -1 ELSE Into(Val) + 1
           /\ Into(Val') <= Into(Val) + 1
           /\ Into(Val) \in Int /\ Into(Val') \in Int /\ Into(Val) >= -1
<1>1. Val \in 0 .. Period - 1 /\ Val' = IF Val = 0 THEN Period - 1 ELSE Val - 1
  BY ValType, AdvanceCycle
<1> DEFINE v == Val  w == Val'
<1>2. v \in 0 .. Period - 1 /\ w = IF v = 0 THEN Period - 1 ELSE v - 1
  BY <1>1
<1> HIDE DEF v, w
<1>3. /\ Into(w) = IF v = 1 THEN -1 ELSE Into(v) + 1
      /\ Into(w) <= Into(v) + 1
      /\ Into(v) \in Int /\ Into(w) \in Int /\ Into(v) >= -1
  BY <1>2, PeriodType DEF Into
<1> QED
  BY <1>3 DEF v, w

LEMMA AdvanceClock ==
    ASSUME TypeOK, ClockInv, Advance, UNCHANGED <<entered, _ulTickCount>>
    PROVE  ClockInv'
<1> DEFINE n == _ulTickCount + Bit(pending) + Bit(entered)
           n1 == _ulTickCount + Bit(pending') + Bit(entered)
<1>1. n \in Int /\ n1 = IF Val = 1 THEN n + 1 ELSE n
  <2>1. _ulTickCount \in Int
    BY PeriodType DEF TypeOK
  <2>2. CASE Val = 1
    <3>1. ~pending /\ pending'
      BY <2>2 DEF Advance
    <3> QED
      BY <2>1, <2>2, <3>1 DEF Bit
  <2>3. CASE Val # 1
    <3>1. pending' <=> pending
      BY <2>3 DEF Advance, TypeOK
    <3> QED
      BY <2>1, <2>3, <3>1 DEF Bit
  <2> QED
    BY <2>2, <2>3
<1>2. DueAt(n, Into(Val) + 1, cycle')
  BY <1>1, DueLater, IntoLater DEF ClockInv
<1>3. DueAt(n1, Into(Val'), cycle')
  <2>1. CASE Val = 1
    <3>1. Into(Val) + 1 = Period - 1 /\ Into(Val') = -1
      BY <2>1, IntoLater, PeriodType DEF Into
    <3>2. (n + 1) * Period + (-1) - cycle' = n * Period + (Period - 1) - cycle'
      BY <1>1, PeriodType, AdvanceCycle
    <3> QED
      BY <1>1, <1>2, <2>1, <3>1, <3>2 DEF DueAt
  <2>2. CASE Val # 1
    BY <1>1, <1>2, <2>2, IntoLater
  <2> QED
    BY <2>1, <2>2
<1>4. Val' = 0 => pending' \/ entered'
  <2>1. Val' = 0 => Val = 1
    BY ValType, AdvanceCycle, PeriodType
  <2> QED
    BY <2>1 DEF Advance
<1>5. DueAt((_ulTickCount + Bit(pending) + Bit(entered))', Into(Val)', cycle')
  BY <1>3
<1> QED
  BY <1>4, <1>5 DEF ClockInv

LEMMA ClockStep == CallerInv /\ ClockInv /\ [Next]_vars => ClockInv'
<1> SUFFICES ASSUME CallerInv, ClockInv, [Next]_vars PROVE ClockInv'
  OBVIOUS
<1>0. TypeOK
  BY DEF CallerInv
<1>1. CASE Cycle
  BY <1>0, <1>1, AdvanceClock DEF Cycle
<1>2. ASSUME NEW c \in Callers, ReadPend(c) PROVE ClockInv'
  BY <1>0, <1>2, AdvanceClock DEF ReadPend
<1>3. CASE Enter
  BY <1>0, <1>3 DEF Enter, ClockInv, Bit, Val, TypeOK
<1>4. CASE Count
  <2>1. /\ entered /\ ~entered' /\ UNCHANGED <<cycle, pending>> /\ Val # 0
        /\ _ulTickCount' = (_ulTickCount + 1) % Word
    BY <1>4 DEF Count
  <2>2. DueAt((_ulTickCount + 1) + Bit(pending), Into(Val), cycle)
    BY <1>0, <2>1 DEF ClockInv, Bit, TypeOK
  <2>3. _ulTickCount + 1 \in Int /\ Bit(pending) \in Int /\ Into(Val) \in Int /\ cycle \in Int
    BY <1>0, ValType, IntoType, PeriodType DEF TypeOK, Bit
  <2>4. DueAt(_ulTickCount' + Bit(pending), Into(Val), cycle)
    BY <2>1, <2>2, <2>3, DueWraps
  <2>5. Val' = Val /\ Bit(entered') = 0 /\ _ulTickCount' \in Int
    BY <2>1, <2>3, RemainderMultiple DEF Val, Bit
  <2>6. DueAt(_ulTickCount' + Bit(pending) + 0, Into(Val), cycle)
    BY <2>3, <2>4, <2>5
  <2> QED
    BY <2>1, <2>5, <2>6 DEF ClockInv
<1>5. CASE UNCHANGED clock
  BY <1>5 DEF ClockInv, Val
<1>6. ASSUME NEW c \in Callers, ReadTicks(c) \/ ReadCount(c) \/ Return(c) PROVE UNCHANGED clock
  BY <1>6 DEF ReadTicks, ReadCount, Return
<1>7. ASSUME NEW n \in 1 .. MaxDelay, CallDelay(n) PROVE UNCHANGED clock
  BY <1>7 DEF CallDelay
<1>8. ThreadStep \/ IsrCall \/ UNCHANGED vars => UNCHANGED clock
  BY DEF ThreadStep, ThreadCall, Mask, DelayStart, DelayPoll, CallAgain, DelayReturn, IsrCall,
         vars
<1> QED
  BY <1>1, <1>2, <1>3, <1>4, <1>5, <1>6, <1>7, <1>8 DEF Next, MicrosStep

LEMMA InitClock == Init => ClockInv
<1> SUFFICES ASSUME Init PROVE ClockInv
  OBVIOUS
<1>1. \E q \in Int : 0 = q * Period + 0
  <2>1. 0 = 0 * Period + 0
    BY PeriodType
  <2> QED
    BY <2>1
<1>2. 0 % Period = 0
  BY <1>1, PeriodType, RemainderIs
<1>3. Val = Period - 1 /\ Into(Val) = 0 /\ Val # 0
  BY <1>2, PeriodType DEF Init, Val, Into
<1>4. (_ulTickCount + Bit(pending) + Bit(entered)) * Period + Into(Val) - cycle = 0
  BY <1>3, PeriodType DEF Init, Bit
<1> QED
  BY <1>3, <1>4, MultipleZero DEF ClockInv, DueAt

-----------------------------------------------------------------------------
(* micros() *)

\* What SysTick_Handler, preempted by the caller, has not counted.
Lag == IF pc["isr"] # "idle" /\ entered THEN 1 ELSE 0

\* SysTick_Handler can neither be entered nor count while the caller runs.
Frozen == masked \/ pc["isr"] # "idle"

Phase(r) == Period - 1 - r.ticks

\* Tick n, counted from what the handler lags behind, began b cycles ago.
Behind(n, b) == DueAt(n + Lag, b, cycle)

(***************************************************************************)
(* The counter is read first.  What a round finds out after that about the *)
(* number of ticks dates the begin of a tick: b cycles ago, and no longer  *)
(* ago than the phase read at its start allows; e is how long ago the last *)
(* round read the counter.                                                 *)
(***************************************************************************)
TicksInv ==
    ~first => \E b \in Int : /\ 0 <= b /\ Into(Val) <= b /\ b <= age + Phase(newer)
                             /\ Behind(newer.count + newer.pend, b)

OldInv(e) ==
    ~first => \E b \in Int : /\ e <= b /\ e + Into(newer.ticks) <= b /\ b <= age + Phase(older)
                             /\ Behind(older.count + older.pend, b)

ReadInv(e) == 0 <= e /\ e <= age /\ Into(Val) <= e + Into(newer.ticks) /\ OldInv(e)

NewInv(e) ==
    IF Frozen THEN \E b \in Int : /\ 0 <= b /\ Into(Val) <= b /\ b <= e + Into(newer.ticks)
                                  /\ Behind(_ulTickCount + newer.pend, b)
              ELSE newer.pend = 0

DoneInv == \E d \in Int : /\ 0 <= d /\ d <= age
                          /\ Behind(older.count + older.pend, Phase(older) + d)

LoopInv ==
    \A c \in Callers :
        /\ pc[c] = "ticks" => TicksInv
        /\ pc[c] = "pend" => \E e \in Int : ReadInv(e)
        /\ pc[c] = "count" => \E e \in Int : ReadInv(e) /\ NewInv(e)
        /\ pc[c] = "done" => DoneInv

TimeInv == CallerInv /\ ClockInv /\ LoopInv

LEMMA Numbers ==
    ASSUME TypeOK
    PROVE  /\ Lag \in Int /\ age \in Int /\ cycle \in Int /\ _ulTickCount \in Int
           /\ Val \in 0 .. Period - 1 /\ Into(Val) \in Int /\ Into(Val) >= -1
           /\ older.count + older.pend \in Int /\ newer.count + newer.pend \in Int
           /\ newer.pend \in Int /\ older.pend \in Int /\ older.count \in Int /\ newer.count \in Int
           /\ Phase(older) \in 0 .. Period - 1 /\ Phase(newer) \in 0 .. Period - 1
           /\ older.ticks \in 0 .. Period - 1 /\ newer.ticks \in 0 .. Period - 1
           /\ Into(newer.ticks) \in Int /\ Into(newer.ticks) <= Phase(newer)
           /\ Into(newer.ticks) >= -1
<1>1. /\ older.ticks \in 0 .. Period - 1 /\ newer.ticks \in 0 .. Period - 1
      /\ newer.pend \in Int /\ older.pend \in Int /\ older.count \in Int /\ newer.count \in Int
  BY ReadingType DEF TypeOK
<1>2. Lag \in Int /\ age \in Int /\ cycle \in Int /\ _ulTickCount \in Int
  BY PeriodType DEF TypeOK, Lag
<1>3. Phase(older) \in 0 .. Period - 1 /\ Phase(newer) \in 0 .. Period - 1
  BY <1>1, PeriodType DEF Phase
<1>4. Val \in 0 .. Period - 1 /\ Into(Val) \in Int /\ Into(Val) >= -1
  BY ValType, IntoType
<1>5. /\ Into(newer.ticks) \in Int /\ Into(newer.ticks) <= Phase(newer)
      /\ Into(newer.ticks) >= -1
  BY <1>1, IntoType DEF Phase
<1>6. older.count + older.pend \in Int /\ newer.count + newer.pend \in Int
  BY <1>1
<1> QED
  BY <1>1, <1>2, <1>3, <1>4, <1>5, <1>6

\* What was b cycles ago is b + 1 cycles ago.
LEMMA BehindLater ==
    ASSUME TypeOK, Advance, Lag' = Lag, NEW n \in Int, NEW b \in Int, Behind(n, b)
    PROVE  DueAt(n + Lag', b + 1, cycle')
<1>1. n + Lag \in Int /\ DueAt(n + Lag, b, cycle)
  BY Numbers DEF Behind
<1> QED
  BY <1>1, DueLater

LEMMA ReadLater ==
    ASSUME TypeOK, Advance, InMicros, Lag' = Lag, UNCHANGED <<older, first>>,
           newer'.ticks = newer.ticks, NEW e \in Int, ReadInv(e)
    PROVE  ReadInv(e + 1)'
<1>1. age' = age + 1 /\ Into(Val') <= Into(Val) + 1
  BY IntoLater DEF Advance
<1>2. 0 <= e + 1 /\ e + 1 <= age' /\ Into(Val') <= e + 1 + Into(newer'.ticks)
  BY <1>1, Numbers, IntoLater DEF ReadInv
<1>3. ASSUME ~first
      PROVE  \E b \in Int : /\ e + 1 <= b /\ e + 1 + Into(newer'.ticks) <= b
                            /\ b <= age' + Phase(older)
                            /\ DueAt(older.count + older.pend + Lag', b, cycle')
  <2>1. PICK b \in Int : /\ e <= b /\ e + Into(newer.ticks) <= b /\ b <= age + Phase(older)
                         /\ Behind(older.count + older.pend, b)
    BY <1>3 DEF ReadInv, OldInv
  <2>2. DueAt(older.count + older.pend + Lag', b + 1, cycle')
    BY <2>1, BehindLater, Numbers
  <2>3. /\ e + 1 <= b + 1 /\ e + 1 + Into(newer'.ticks) <= b + 1 /\ b + 1 <= age' + Phase(older)
        /\ b + 1 \in Int
    BY <1>1, <2>1, Numbers
  <2> QED
    BY <2>2, <2>3
<1>4. OldInv(e + 1)'
  BY <1>3 DEF OldInv, Behind, Phase
<1> QED
  BY <1>2, <1>4 DEF ReadInv

LEMMA CycleLoop ==
    ASSUME TimeInv, Cycle
    PROVE  LoopInv'
<1>0. /\ TypeOK /\ Advance /\ UNCHANGED <<entered, _ulTickCount, masked, pc, older, newer, first>>
      /\ Lag' = Lag
  BY DEF TimeInv, CallerInv, Cycle, Lag
<1>1. SUFFICES ASSUME NEW c \in Callers, pc[c] # "idle"
               PROVE  /\ pc[c] = "ticks" => TicksInv'
                      /\ pc[c] = "pend" => \E e \in Int : ReadInv(e)'
                      /\ pc[c] = "count" => \E e \in Int : ReadInv(e)' /\ NewInv(e)'
                      /\ pc[c] = "done" => DoneInv'
  BY <1>0 DEF LoopInv
<1>2. InMicros /\ age' = age + 1 /\ Into(Val') <= Into(Val) + 1 /\ Into(Val') \in Int
  BY <1>0, <1>1, IntoLater DEF InMicros, Advance
<1>3. ASSUME pc[c] = "ticks" PROVE TicksInv'
  <2> SUFFICES ASSUME ~first PROVE TicksInv'
    BY <1>0 DEF TicksInv
  <2>1. PICK b \in Int : /\ 0 <= b /\ Into(Val) <= b /\ b <= age + Phase(newer)
                         /\ Behind(newer.count + newer.pend, b)
    BY <1>3 DEF TimeInv, LoopInv, TicksInv
  <2>2. DueAt(newer.count + newer.pend + Lag', b + 1, cycle')
    BY <1>0, <2>1, BehindLater, Numbers
  <2>3. 0 <= b + 1 /\ Into(Val') <= b + 1 /\ b + 1 <= age' + Phase(newer) /\ b + 1 \in Int
    BY <1>0, <1>2, <2>1, Numbers
  <2> QED
    BY <1>0, <2>2, <2>3 DEF TicksInv, Behind, Phase
<1>4. ASSUME pc[c] = "pend" PROVE \E e \in Int : ReadInv(e)'
  <2>1. PICK e \in Int : ReadInv(e)
    BY <1>4 DEF TimeInv, LoopInv
  <2>2. ReadInv(e + 1)'
    BY <1>0, <1>2, <2>1, ReadLater
  <2> QED
    BY <2>2
<1>5. ASSUME pc[c] = "count" PROVE \E e \in Int : ReadInv(e)' /\ NewInv(e)'
  <2>1. PICK e \in Int : ReadInv(e) /\ NewInv(e)
    BY <1>5 DEF TimeInv, LoopInv
  <2>2. ReadInv(e + 1)'
    BY <1>0, <1>2, <2>1, ReadLater
  <2>3. CASE Frozen
    <3>1. PICK b \in Int : /\ 0 <= b /\ Into(Val) <= b /\ b <= e + Into(newer.ticks)
                           /\ Behind(_ulTickCount + newer.pend, b)
      BY <2>1, <2>3 DEF NewInv
    <3>2. DueAt(_ulTickCount + newer.pend + Lag', b + 1, cycle')
      BY <1>0, <3>1, BehindLater, Numbers
    <3>3. 0 <= b + 1 /\ Into(Val') <= b + 1 /\ b + 1 <= e + 1 + Into(newer.ticks) /\ b + 1 \in Int
      BY <1>0, <1>2, <3>1, Numbers
    <3>4. NewInv(e + 1)'
      BY <1>0, <2>3, <3>2, <3>3 DEF NewInv, Behind, Frozen
    <3> QED
      BY <2>2, <3>4
  <2>4. CASE ~Frozen
    <3>1. NewInv(e + 1)'
      BY <1>0, <2>1, <2>4 DEF NewInv, Frozen
    <3> QED
      BY <2>2, <3>1
  <2> QED
    BY <2>3, <2>4
<1>6. ASSUME pc[c] = "done" PROVE DoneInv'
  <2>1. PICK d \in Int : /\ 0 <= d /\ d <= age /\ Behind(older.count + older.pend, Phase(older) + d)
    BY <1>6 DEF TimeInv, LoopInv, DoneInv
  <2>2. DueAt(older.count + older.pend + Lag', Phase(older) + d + 1, cycle')
    BY <1>0, <2>1, BehindLater, Numbers
  <2>3. 0 <= d + 1 /\ d + 1 <= age' /\ Phase(older) + d + 1 = Phase(older) + (d + 1)
    BY <1>0, <1>2, <2>1, Numbers
  <2> QED
    BY <1>0, <2>2, <2>3 DEF DoneInv, Behind, Phase
<1> QED
  BY <1>3, <1>4, <1>5, <1>6

\* Only the caller moves.
LEMMA OnlyCaller ==
    ASSUME TypeOK, AloneInv, NEW c \in Callers, pc[c] # "idle"
    PROVE  \A k \in Callers : k # c => pc[k] = "idle"
  BY DEF AloneInv, Callers

LEMMA TicksLoop ==
    ASSUME TimeInv, NEW c \in Callers, ReadTicks(c)
    PROVE  LoopInv'
<1>0. /\ TypeOK /\ AloneInv /\ pc[c] = "ticks" /\ pc' = [pc EXCEPT ![c] = "pend"]
      /\ UNCHANGED <<clock, masked, first, age>>
      /\ older' = newer /\ newer' = [newer EXCEPT !.ticks = Val]
  BY DEF TimeInv, CallerInv, ReadTicks
<1>1. pc'[c] = "pend" /\ \A k \in Callers : k # c => pc'[k] = "idle"
  BY <1>0, OnlyCaller DEF TypeOK
<1>2. Lag' = Lag /\ Val' = Val /\ newer'.ticks = Val
  <2>1. pc'["isr"] = "idle" <=> pc["isr"] = "idle"
    BY <1>0 DEF TypeOK, Callers
  <2>2. newer'.ticks = Val
    BY <1>0 DEF TypeOK, Reading
  <2> QED
    BY <1>0, <2>1, <2>2 DEF Lag, Val
<1>3. OldInv(0)'
  <2> SUFFICES ASSUME ~first PROVE OldInv(0)'
    BY <1>0 DEF OldInv
  <2>1. PICK b \in Int : /\ 0 <= b /\ Into(Val) <= b /\ b <= age + Phase(newer)
                         /\ Behind(newer.count + newer.pend, b)
    BY <1>0 DEF TimeInv, LoopInv, TicksInv
  <2>2. 0 <= b /\ 0 + Into(newer'.ticks) <= b /\ b <= age' + Phase(older')
    BY <1>0, <1>2, <2>1, Numbers
  <2>3. DueAt(older'.count + older'.pend + Lag', b, cycle')
    BY <1>0, <1>2, <2>1 DEF Behind
  <2> QED
    BY <2>2, <2>3 DEF OldInv, Behind, Phase
<1>4. ReadInv(0)'
  BY <1>0, <1>2, <1>3, Numbers DEF ReadInv, TypeOK
<1> QED
  BY <1>1, <1>4 DEF LoopInv

LEMMA PendLoop ==
    ASSUME TimeInv, NEW c \in Callers, ReadPend(c)
    PROVE  LoopInv'
<1>0. /\ TypeOK /\ AloneInv /\ pc[c] = "pend" /\ pc' = [pc EXCEPT ![c] = "count"] /\ Runs(c)
      /\ Advance /\ UNCHANGED <<entered, _ulTickCount, masked, older, first>>
      /\ newer' = [newer EXCEPT !.pend = IF pending THEN 1 ELSE 0]
  BY DEF TimeInv, CallerInv, ReadPend
<1>1. pc'[c] = "count" /\ \A k \in Callers : k # c => pc'[k] = "idle"
  BY <1>0, OnlyCaller DEF TypeOK
<1>2. /\ Lag' = Lag /\ (Frozen' <=> Frozen) /\ InMicros
      /\ newer'.ticks = newer.ticks /\ newer'.pend = Bit(pending)
  <2>1. pc'["isr"] = "idle" <=> pc["isr"] = "idle"
    BY <1>0 DEF TypeOK, Callers
  <2>2. newer'.ticks = newer.ticks /\ newer'.pend = Bit(pending)
    BY <1>0 DEF TypeOK, Reading, Bit
  <2> QED
    BY <1>0, <2>1, <2>2 DEF Lag, Frozen, InMicros
<1>3. PICK e \in Int : ReadInv(e)
  BY <1>0 DEF TimeInv, LoopInv
<1>4. ReadInv(e + 1)'
  BY <1>0, <1>2, <1>3, ReadLater
<1>5. NewInv(e + 1)'
  <2>1. CASE Frozen
    <3>1. Lag = Bit(entered)
      <4>1. CASE pc["isr"] # "idle"
        BY <4>1 DEF Lag, Bit
      <4>2. CASE pc["isr"] = "idle"
        <5>1. c = "thread" /\ ~entered
          BY <1>0, <4>2 DEF Callers, Runs
        <5> QED
          BY <4>2, <5>1 DEF Lag, Bit
      <4> QED
        BY <4>1, <4>2
    <3> DEFINE n == _ulTickCount + Bit(pending) b == Into(Val)
    <3>2. n \in Int /\ n + Lag \in Int /\ b \in Int /\ b >= -1
      BY <1>0, Numbers DEF Bit
    <3>3. DueAt(n + Lag, b, cycle)
      BY <3>1 DEF TimeInv, ClockInv
    <3>4. DueAt(n + Lag, b + 1, cycle')
      BY <1>0, <3>2, <3>3, DueLater
    <3>5. 0 <= b + 1 /\ Into(Val') <= b + 1 /\ b + 1 <= e + 1 + Into(newer.ticks)
      BY <1>0, <1>3, <3>2, Numbers, IntoLater DEF ReadInv
    <3>6. _ulTickCount + newer'.pend + Lag' = n + Lag
      BY <1>2
    <3>7. b + 1 \in Int /\ DueAt(_ulTickCount' + newer'.pend + Lag', b + 1, cycle')
      BY <1>0, <3>2, <3>4, <3>6
    <3> HIDE DEF n, b
    <3> QED
      BY <1>2, <2>1, <3>5, <3>7 DEF NewInv, Behind
  <2>2. CASE ~Frozen
    <3>1. ~pending
      BY <1>0, <2>2 DEF Frozen, Callers, Runs
    <3> QED
      BY <1>2, <2>2, <3>1 DEF NewInv, Bit
  <2> QED
    BY <2>1, <2>2
<1> QED
  BY <1>1, <1>4, <1>5 DEF LoopInv

LEMMA CountLoop ==
    ASSUME TimeInv, NEW c \in Callers, ReadCount(c)
    PROVE  LoopInv'
<1>0. /\ TypeOK /\ AloneInv /\ pc[c] = "count" /\ Runs(c) /\ ~first'
      /\ pc' = [pc EXCEPT ![c] = IF ~first /\ Agree(newer') THEN "done" ELSE "ticks"]
      /\ UNCHANGED <<clock, masked, older, age>>
      /\ newer' = [newer EXCEPT !.count = _ulTickCount]
  BY DEF TimeInv, CallerInv, ReadCount
<1>1. /\ pc'[c] = IF ~first /\ Agree(newer') THEN "done" ELSE "ticks"
      /\ \A k \in Callers : k # c => pc'[k] = "idle"
  BY <1>0, OnlyCaller DEF TypeOK
<1>2. /\ Lag' = Lag /\ Val' = Val /\ newer'.ticks = newer.ticks /\ newer'.pend = newer.pend
      /\ newer'.count = _ulTickCount
  <2>1. pc'["isr"] = "idle" <=> pc["isr"] = "idle"
    BY <1>0 DEF TypeOK, Callers
  <2>2. /\ newer'.ticks = newer.ticks /\ newer'.pend = newer.pend /\ newer'.count = _ulTickCount
    BY <1>0 DEF TypeOK, Reading
  <2> QED
    BY <1>0, <2>1, <2>2 DEF Lag, Val
<1>3. PICK e \in Int : ReadInv(e) /\ NewInv(e)
  BY <1>0 DEF TimeInv, LoopInv
<1>4. \E b \in Int : /\ 0 <= b /\ Into(Val) <= b /\ b <= e + Into(newer.ticks)
                     /\ Behind(_ulTickCount + newer.pend, b)
  <2>1. CASE Frozen
    BY <1>3, <2>1 DEF NewInv
  <2>2. CASE ~Frozen
    <3>1. newer.pend = 0 /\ ~pending /\ ~entered /\ Lag = 0
      BY <1>0, <1>3, <2>2 DEF NewInv, Frozen, Callers, Runs, Lag
    <3>2. Val # 0
      BY <3>1 DEF TimeInv, ClockInv
    <3>3. Into(Val) >= 0
      BY <1>0, <3>2, ValType, PeriodType DEF Into
    <3>4. DueAt(_ulTickCount + newer.pend + Lag, Into(Val), cycle)
      BY <3>1 DEF TimeInv, ClockInv, Bit
    <3>5. Into(Val) <= e + Into(newer.ticks)
      BY <1>3 DEF ReadInv
    <3> QED
      BY <1>0, <3>3, <3>4, <3>5, Numbers DEF Behind
  <2> QED
    BY <2>1, <2>2
<1>5. PICK b \in Int : /\ 0 <= b /\ Into(Val) <= b /\ b <= e + Into(newer.ticks)
                       /\ Behind(_ulTickCount + newer.pend, b)
  BY <1>4
<1>6. ASSUME pc'[c] = "ticks" PROVE TicksInv'
  <2>1. b <= age' + Phase(newer')
    BY <1>0, <1>2, <1>3, <1>5, Numbers DEF ReadInv, Phase
  <2>2. DueAt(newer'.count + newer'.pend + Lag', b, cycle')
    BY <1>0, <1>2, <1>5 DEF Behind
  <2> QED
    BY <1>2, <1>5, <2>1, <2>2 DEF TicksInv, Behind
<1>7. ASSUME pc'[c] = "done" PROVE DoneInv'
  <2>1. /\ ~first /\ older.pend = newer.pend /\ older.count = _ulTickCount
        /\ older.ticks >= newer.ticks
    BY <1>1, <1>2, <1>7 DEF Agree
  <2>2. PICK a \in Int : /\ e <= a /\ e + Into(newer.ticks) <= a /\ a <= age + Phase(older)
                         /\ Behind(older.count + older.pend, a)
    BY <1>3, <2>1 DEF ReadInv, OldInv
  <2> DEFINE t == (_ulTickCount + newer.pend + Lag) * Period - cycle
  <2>3. Multiple(t + a) /\ Multiple(t + b) /\ t \in Int
    <3>1. t \in Int
      BY <1>0, Numbers, PeriodType
    <3>2. (_ulTickCount + newer.pend + Lag) * Period + a - cycle = t + a
          /\ (_ulTickCount + newer.pend + Lag) * Period + b - cycle = t + b
      BY <1>0, Numbers, PeriodType
    <3>3. Multiple(t + a)
      BY <2>1, <2>2, <3>2 DEF Behind, DueAt
    <3>4. Multiple(t + b)
      BY <1>5, <3>2 DEF Behind, DueAt
    <3> QED
      BY <3>1, <3>3, <3>4
  <2> HIDE DEF t
  <2>4. Multiple((t + a) - (t + b)) /\ (t + a) - (t + b) = a - b
    BY <2>3, MultipleSum
  <2>5. b <= a /\ a - b < Word
    <3>1. age <= MaxAge /\ 0 <= age
      BY <1>0 DEF TypeOK
    <3> QED
      BY <1>0, <1>5, <2>2, <3>1, Numbers, PeriodType
  <2>6. a - b = 0
    BY <2>4, <2>5, SmallMultiple, PeriodType
  <2>7. b = e + Into(newer.ticks) /\ a = b
    BY <1>0, <1>5, <2>2, <2>6, Numbers
  <2>8. Into(newer.ticks) = Phase(newer)
    BY <1>0, <2>2, <2>7, Numbers DEF Into, Phase
  <2> DEFINE d == b - Phase(older)
  <2>9. d \in Int /\ 0 <= d /\ d <= age /\ Phase(older) + d = b
    <3>1. Phase(older) <= Phase(newer) /\ Phase(older) \in Int /\ Phase(newer) \in Int
      <4>1. older.ticks \in Int /\ newer.ticks \in Int /\ Period \in Int
        BY <1>0, Numbers, PeriodType
      <4> QED
        BY <2>1, <4>1 DEF Phase
    <3>2. 0 <= e
      BY <1>3 DEF ReadInv
    <3>3. b = e + Phase(newer) /\ b <= age + Phase(older) /\ age \in Int
      BY <1>0, <2>2, <2>7, <2>8, Numbers
    <3> QED
      BY <3>1, <3>2, <3>3
  <2>10. DueAt(older'.count + older'.pend + Lag', Phase(older') + d, cycle')
    BY <1>0, <1>2, <1>5, <2>1, <2>9 DEF Behind
  <2> HIDE DEF d
  <2> QED
    BY <1>0, <2>9, <2>10 DEF DoneInv, Behind
<1> QED
  BY <1>1, <1>6, <1>7 DEF LoopInv

\* The handler moves only while a caller in the thread has interrupts on, and
\* that caller has seen no tick pending.
LEMMA HandlerLoop ==
    ASSUME TimeInv, Enter \/ Count
    PROVE  LoopInv'
<1>0. /\ TypeOK /\ AloneInv /\ pc["isr"] = "idle"
      /\ UNCHANGED <<cycle, masked, pc, older, newer, first, age>>
  BY DEF TimeInv, CallerInv, Enter, Count
<1>1. Lag' = Lag /\ Val' = Val /\ (Frozen' <=> Frozen)
  BY <1>0 DEF Lag, Val, Frozen
<1>2. pc["thread"] # "idle" => ~Frozen
  BY <1>0 DEF Frozen, Enter, Count, AloneInv
<1>3. TicksInv' <=> TicksInv
  BY <1>0, <1>1 DEF TicksInv, Behind, Phase
<1>4. \A e \in Int : ReadInv(e)' <=> ReadInv(e)
  BY <1>0, <1>1 DEF ReadInv, OldInv, Behind, Phase
<1>5. \A e \in Int : ~Frozen => (NewInv(e)' <=> NewInv(e))
  BY <1>0, <1>1 DEF NewInv
<1>6. DoneInv' <=> DoneInv
  BY <1>0, <1>1 DEF DoneInv, Behind, Phase
<1> QED
  BY <1>0, <1>2, <1>3, <1>4, <1>5, <1>6 DEF TimeInv, LoopInv, Callers

\* A call starts the loop, or nobody is left in it.
LEMMA CallLoop ==
    ASSUME TimeInv,
           \/ ThreadCall \/ IsrCall \/ DelayStart \/ DelayPoll
           \/ \E n \in 1 .. MaxDelay : CallDelay(n)
           \/ \E c \in Callers : Return(c)
    PROVE  LoopInv'
<1>0. TypeOK /\ AloneInv
  BY DEF TimeInv, CallerInv
<1>1. \A c \in Callers : pc'[c] = "idle" \/ (pc'[c] = "ticks" /\ first')
  BY <1>0 DEF ThreadCall, IsrCall, DelayStart, DelayPoll, Polled, CallAgain, CallDelay, Return,
              Call, Runs, TypeOK, AloneInv, Callers
<1> QED
  BY <1>1 DEF LoopInv, TicksInv

LEMMA TimeStep == TimeInv /\ [Next]_vars => TimeInv'
<1> SUFFICES ASSUME TimeInv, [Next]_vars PROVE LoopInv'
  BY CallerStep, ClockStep DEF TimeInv
<1>1. CASE Cycle
  BY <1>1, CycleLoop
<1>2. CASE Enter \/ Count
  BY <1>2, HandlerLoop
<1>3. CASE MicrosStep
  BY <1>3, TicksLoop, PendLoop, CountLoop DEF MicrosStep
<1>4. CASE \/ ThreadCall \/ IsrCall \/ DelayStart \/ DelayPoll
           \/ \E n \in 1 .. MaxDelay : CallDelay(n)
           \/ \E c \in Callers : Return(c)
  BY <1>4, CallLoop
<1>5. CASE Mask
  BY <1>5 DEF Mask, InMicros, LoopInv
<1>6. CASE DelayReturn \/ UNCHANGED vars
  <2>1. UNCHANGED <<clock, masked, call, age>>
    BY <1>6 DEF DelayReturn, vars
  <2> QED
    BY <2>1
       DEF TimeInv, LoopInv, TicksInv, ReadInv, OldInv, NewInv, DoneInv, Frozen, Behind, Lag,
           Phase, Val
<1> QED
  BY <1>1, <1>2, <1>3, <1>4, <1>5, <1>6 DEF Next, ThreadStep

LEMMA InitTime == Init => TimeInv
<1>1. Init => LoopInv
  BY DEF Init, LoopInv
<1> QED
  BY <1>1, InitCaller, InitClock DEF TimeInv

\* What the callers of micros() have read agrees with the tick count and the true time, wherever
\* the SysTick interrupt comes between the reads.
THEOREM TimeInvariance == Spec => []TimeInv
  BY InitTime, TimeStep, PTL DEF Spec

\* Every variable keeps its type; the loop counter of delay() never passes 0.
THEOREM TypeCorrect == Spec => []TypeOK
<1>1. TimeInv => TypeOK
  BY DEF TimeInv, CallerInv
<1> QED
  BY <1>1, TimeInvariance, PTL

\* What micros() is about to return is d cycles old, or a tick and d cycles if
\* the caller has preempted SysTick_Handler before it counts.
LEMMA ResultAge ==
    ASSUME TimeInv, NEW c \in Callers, pc[c] = "done"
    PROVE  \E d \in 0 .. age : Multiple(Result + (d + Lag * Period) - cycle)
<1>0. TypeOK
  BY DEF TimeInv, CallerInv
<1>1. PICK d \in Int : /\ 0 <= d /\ d <= age
                       /\ Behind(older.count + older.pend, Phase(older) + d)
  BY DEF TimeInv, LoopInv, DoneInv
<1> DEFINE n == older.count + older.pend  x == Sum(older)  r == x % Word
<1>2. x \in Int /\ r \in Int /\ Result = r /\ Multiple(x - r)
  BY <1>0, ResultType, RemainderMultiple
<1>3. (n + Lag) * Period + (Phase(older) + d) - cycle = x + (d + Lag * Period) - cycle
  BY <1>0, Numbers, PeriodType DEF Sum, Phase
<1>4. Multiple(x + (d + Lag * Period) - cycle)
  BY <1>1, <1>3 DEF Behind, DueAt
<1>5. Lag * Period \in Int /\ cycle \in Int /\ age \in Int
  BY <1>0, Numbers, PeriodType
<1> HIDE DEF x, r, n
<1>6. Multiple((x + (d + Lag * Period) - cycle) - (x - r))
  BY <1>2, <1>4, <1>5, MultipleSum
<1>7. (x + (d + Lag * Period) - cycle) - (x - r) = r + (d + Lag * Period) - cycle
  BY <1>2, <1>5
<1>8. Multiple(Result + (d + Lag * Period) - cycle)
  BY <1>2, <1>6, <1>7
<1> QED
  BY <1>1, <1>5, <1>8

LEMMA MultipleNegative ==
    ASSUME NEW x \in Int, Multiple(x)
    PROVE  Multiple(- x)
<1>1. Multiple(0 - x) /\ 0 - x = - x
  BY MultipleZero, MultipleSum
<1> QED
  BY <1>1

\* micros() returns a time between its call and its return, whatever comes
\* between its reads, and a millisecond less to an interrupt that has preempted
\* SysTick_Handler before it counts.
THEOREM MicrosBetweenCallAndReturn == Spec => []MicrosInCall
<1>1. ASSUME TimeInv, NEW c \in Callers, pc[c] = "done"
      PROVE  Ago <= age \/ (entered /\ (Ago - Period) \in 0 .. age)
  <2>0. TypeOK /\ age \in 0 .. MaxAge
    BY <1>1 DEF TimeInv, CallerInv, TypeOK
  <2>1. PICK d \in 0 .. age : Multiple(Result + (d + Lag * Period) - cycle)
    BY <1>1, ResultAge
  <2> DEFINE k == d + Lag * Period
  <2>2. k = IF pc["isr"] # "idle" /\ entered THEN d + Period ELSE d
    BY PeriodType DEF Lag
  <2>3. k \in 0 .. Word - 1 /\ cycle \in Int /\ Result \in Int
    BY <2>0, <2>2, Numbers, ResultType, PeriodType
  <2> HIDE DEF k
  <2>4. Multiple(Result + k - cycle)
    BY <2>1 DEF k
  <2>5. Multiple(-(Result + k - cycle)) /\ -(Result + k - cycle) = (cycle - Result) - k
    BY <2>3, <2>4, MultipleNegative
  <2>6. Ago = k
    BY <2>3, <2>5, SameRemainder DEF Ago
  <2> QED
    BY <2>0, <2>2, <2>6, PeriodType
<1>2. TimeInv => MicrosInCall
  BY <1>1 DEF MicrosInCall
<1> QED
  BY <1>2, TimeInvariance, PTL

-----------------------------------------------------------------------------
(* delay() *)

(***************************************************************************)
(* start is a time s cycles ago: not before the call, by as many periods   *)
(* as delay() has counted, and not after the micros() under way was called *)
(* (so that the next difference is not negative).                          *)
(***************************************************************************)
DelayInv ==
    /\ delaying = "start" => ms = asked
    /\ delaying = "wait" =>
           \E s \in Int : /\ age <= s /\ s + (asked - ms) * Period <= since
                          /\ Multiple(start + s - cycle)
    /\ delaying = "return" => since >= asked * Period

LEMMA DelayAdvance ==
    ASSUME TimeInv, DelayInv, Advance, UNCHANGED <<start, ms, asked, delaying>>
    PROVE  DelayInv'
<1>0. TypeOK /\ age \in Int /\ since \in Int /\ start \in Int /\ cycle \in Int
      /\ (asked - ms) * Period \in Int /\ asked * Period \in Int
  BY PeriodType DEF TimeInv, CallerInv, TypeOK
<1>1. CASE delaying = "wait"
  <2>1. PICK s \in Int : /\ age <= s /\ s + (asked - ms) * Period <= since
                         /\ Multiple(start + s - cycle)
    BY <1>1 DEF DelayInv
  <2>2. age' <= age + 1 /\ since' = since + 1
    <3>1. age' = age + 1 \/ age' = 0
      BY DEF Advance
    <3>2. age >= 0
      BY <1>0 DEF TypeOK
    <3>3. since' = since + 1
      BY <1>1 DEF Advance
    <3> QED
      BY <1>0, <3>1, <3>2, <3>3
  <2>3. PICK j \in Int : cycle' = cycle + 1 - j * Word
    BY <1>0, AdvanceCycle
  <2> DEFINE w == j * Word
  <2>4. w \in Int /\ Multiple(w) /\ cycle' = cycle + 1 - w
    BY <2>3, PeriodType, MultipleOfWord
  <2> HIDE DEF w
  <2>5. Multiple((start + s - cycle) + w) /\ (start + s - cycle) + w = start + (s + 1) - cycle'
    BY <1>0, <2>1, <2>4, MultipleSum
  <2>6. Multiple(start + (s + 1) - cycle') /\ s + 1 \in Int
    BY <2>5
  <2>7. age' <= s + 1 /\ s + 1 + (asked - ms) * Period <= since'
    BY <1>0, <2>1, <2>2, AdvanceType
  <2> QED
    BY <1>1, <2>6, <2>7 DEF DelayInv
<1>2. CASE delaying = "return"
  <2>1. since' = since + 1
    BY <1>2 DEF Advance
  <2> QED
    BY <1>0, <1>2, <2>1 DEF DelayInv
<1>3. CASE delaying \notin {"wait", "return"}
  BY <1>3 DEF DelayInv
<1> QED
  BY <1>1, <1>2, <1>3

\* What the thread, polling, gets from micros() is d cycles old.
LEMMA PolledAge ==
    ASSUME TimeInv, Polled
    PROVE  /\ TypeOK /\ Result \in 0 .. Word - 1
           /\ \E d \in 0 .. age : Multiple(Result + d - cycle)
<1>1. TypeOK /\ pc["thread"] = "done" /\ pc["isr"] = "idle" /\ "thread" \in Callers
  BY DEF TimeInv, CallerInv, Polled, Runs, Callers
<1>2. Result \in 0 .. Word - 1 /\ age \in Int
  BY <1>1, ResultType, Numbers
<1>3. PICK d \in 0 .. age : Multiple(Result + (d + Lag * Period) - cycle)
  BY <1>1, ResultAge
<1>4. d + Lag * Period = d
  BY <1>1, <1>2, PeriodType DEF Lag
<1> QED
  BY <1>1, <1>2, <1>3, <1>4

LEMMA DelayStartStep ==
    ASSUME TimeInv, DelayInv, DelayStart
    PROVE  DelayInv'
<1>1. /\ Polled /\ delaying = "start" /\ delaying' = "wait" /\ start' = Result /\ age' = 0
      /\ UNCHANGED <<cycle, ms, asked, since>>
  BY DEF DelayStart, CallAgain, Forget
<1>2. PICK d \in 0 .. age : Multiple(Result + d - cycle)
  BY <1>1, PolledAge
<1>3. age <= since /\ age \in Int /\ since \in Int /\ asked \in Int /\ ms = asked
  BY <1>1, PeriodType DEF TimeInv, CallerInv, DelayingInv, TypeOK, DelayInv
<1>4. 0 <= d /\ d + (asked - ms) * Period <= since
  BY <1>3, PeriodType
<1>5. Multiple(start' + d - cycle') /\ age' <= d /\ d \in Int
       /\ d + (asked' - ms') * Period <= since'
  BY <1>1, <1>2, <1>3, <1>4
<1> QED
  BY <1>1, <1>5 DEF DelayInv

\* A period is counted only when it has passed, since start was set.
LEMMA DelayPollStep ==
    ASSUME TimeInv, DelayInv, DelayPoll
    PROVE  DelayInv'
<1>1. /\ Polled /\ delaying = "wait" /\ age' = 0 /\ UNCHANGED <<cycle, asked, since>>
      /\ ms' = (IF Elapsed THEN ms - 1 ELSE ms)
      /\ start' = (IF Elapsed THEN NextStart ELSE start)
      /\ delaying' = (IF ms' = 0 THEN "return" ELSE "wait")
  BY DEF DelayPoll, CallAgain, Forget
<1>2. TypeOK /\ Result \in 0 .. Word - 1
  BY <1>1, PolledAge
<1>3. PICK d \in 0 .. age : Multiple(Result + d - cycle)
  BY <1>1, PolledAge
<1>4. PICK s \in Int : /\ age <= s /\ s + (asked - ms) * Period <= since
                       /\ Multiple(start + s - cycle)
  BY <1>1 DEF DelayInv
<1>5. /\ age \in 0 .. MaxAge /\ since \in 0 .. MaxAge /\ start \in Int /\ cycle \in Int
      /\ asked \in Int /\ ms \in Int /\ 1 <= ms /\ ms <= asked
  BY <1>1, <1>2, PeriodType DEF TimeInv, CallerInv, DelayingInv, TypeOK
<1> DEFINE u == (asked - ms) * Period
<1>6. u \in Int /\ 0 <= u
  BY <1>5, PeriodType
<1>7. (asked - (ms - 1)) * Period = u + Period
  BY <1>5, PeriodType
<1>8. s + u <= since
  BY <1>4
<1> HIDE DEF u
<1>9. Result - start \in Int /\ s - d \in 0 .. Word - 1 /\ d \in Int
  BY <1>2, <1>3, <1>4, <1>5, <1>6, <1>8, PeriodType
<1>10. (Result - start) % Word = s - d
  <2>1. /\ Multiple((Result + d - cycle) - (start + s - cycle))
        /\ (Result + d - cycle) - (start + s - cycle) = (Result - start) - (s - d)
    BY <1>2, <1>3, <1>4, <1>5, <1>9, MultipleSum
  <2>2. Multiple((Result - start) - (s - d))
    BY <2>1
  <2> QED
    BY <1>9, <2>2, SameRemainder
<1>11. \E z \in Int : /\ 0 <= z /\ z + (asked - ms') * Period <= since
                       /\ Multiple(start' + z - cycle)
  <2>1. CASE Elapsed
    <3>1. s - d >= Period /\ ms' = ms - 1 /\ start' = NextStart
      BY <1>1, <1>10, <2>1 DEF Elapsed
    <3>2. 0 <= s - Period /\ (s - Period) + (u + Period) <= since /\ s - Period \in Int
      BY <1>3, <1>5, <1>6, <1>8, <3>1, PeriodType
    <3> DEFINE x == start + Period  r == x % Word
    <3>3. x \in Int /\ r \in Int /\ Multiple(x - r) /\ start' = r
      BY <1>5, <3>1, RemainderMultiple, PeriodType DEF NextStart
    <3>4. start + s - cycle = x + (s - Period) - cycle
      BY <1>5, PeriodType
    <3> HIDE DEF x, r
    <3>5. Multiple(x + (s - Period) - cycle)
      BY <1>4, <3>4
    <3>6. /\ Multiple((x + (s - Period) - cycle) - (x - r))
          /\ (x + (s - Period) - cycle) - (x - r) = r + (s - Period) - cycle
      <4>1. x - r \in Int /\ x + (s - Period) - cycle \in Int
        BY <1>5, <3>2, <3>3
      <4>2. Multiple((x + (s - Period) - cycle) - (x - r))
        BY <3>3, <3>5, <4>1, MultipleSum
      <4> QED
        BY <1>5, <3>2, <3>3, <4>2
    <3>7. Multiple(start' + (s - Period) - cycle)
      BY <3>3, <3>6
    <3> QED
      BY <1>7, <3>1, <3>2, <3>7
  <2>2. CASE ~Elapsed
    <3>1. ms' = ms /\ start' = start /\ 0 <= s
      BY <1>1, <1>4, <1>5, <2>2
    <3> QED
      BY <1>4, <3>1
  <2> QED
    BY <2>1, <2>2
<1>12. PICK z \in Int : /\ 0 <= z /\ z + (asked - ms') * Period <= since
                        /\ Multiple(start' + z - cycle)
  BY <1>11
<1>13. CASE ms' = 0
  <2>1. (asked - ms') * Period = asked * Period /\ asked * Period \in Int
    BY <1>5, <1>13, PeriodType
  <2>2. since >= asked * Period
    BY <1>5, <1>12, <2>1
  <2> QED
    BY <1>1, <1>13, <2>2 DEF DelayInv
<1>14. CASE ms' # 0
  BY <1>1, <1>12, <1>14 DEF DelayInv
<1> QED
  BY <1>13, <1>14

LEMMA DelayStep == TimeInv /\ DelayInv /\ [Next]_vars => DelayInv'
<1> SUFFICES ASSUME TimeInv, DelayInv, [Next]_vars PROVE DelayInv'
  OBVIOUS
<1>1. CASE Cycle \/ \E c \in Callers : ReadPend(c)
  BY <1>1, DelayAdvance DEF Cycle, ReadPend
<1>2. CASE DelayStart
  BY <1>2, DelayStartStep
<1>3. CASE DelayPoll
  BY <1>3, DelayPollStep
<1>4. CASE DelayReturn
  BY <1>4 DEF DelayReturn, DelayInv
<1>5. ASSUME NEW n \in 1 .. MaxDelay, CallDelay(n) PROVE DelayInv'
  BY <1>5 DEF CallDelay, DelayInv
<1>6. CASE \/ Enter \/ Count \/ Mask \/ UNCHANGED vars
           \/ \E c \in Callers : ReadTicks(c) \/ ReadCount(c)
  BY <1>6 DEF Enter, Count, Mask, ReadTicks, ReadCount, vars, DelayInv
<1>7. CASE ThreadCall \/ \E c \in Callers : Return(c)
  BY <1>7 DEF ThreadCall, Return, DelayInv
<1>8. CASE IsrCall
  <2>1. pc["thread"] = "idle" /\ UNCHANGED <<clock, delay, since>>
    BY <1>8 DEF IsrCall
  <2>2. delaying \notin {"start", "wait"}
    BY <2>1 DEF TimeInv, CallerInv, DelayingInv
  <2> QED
    BY <2>1, <2>2 DEF DelayInv
<1> QED
  BY <1>1, <1>2, <1>3, <1>4, <1>5, <1>6, <1>7, <1>8 DEF Next, MicrosStep, ThreadStep

\* delay(n) returns n milliseconds after its call or later, whatever
\* interrupts come and wherever micros() wraps meanwhile.
THEOREM DelayNeverShort == Spec => []DelayLongEnough
<1>1. Init => DelayInv
  BY DEF Init, DelayInv
<1>2. DelayInv => DelayLongEnough
  BY DEF DelayInv, DelayLongEnough
<1> QED
  BY <1>1, <1>2, DelayStep, TimeInvariance, PTL DEF Spec
=============================================================================

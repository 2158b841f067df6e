-------------------------- MODULE ExtInterrupts_proofs -------------------------
(***************************************************************************)
(* The lists of the external interrupts, proved for every number of lines  *)
(* and slots: between calls they hold what the sketch attached, in order,  *)
(* and at every point where EIC_Handler may run each line that can         *)
(* interrupt has a slot.  On top of them, the transactions of              *)
(* SpiTransactions: who may use the bus, and what they restore.            *)
(***************************************************************************)
EXTENDS SpiTransactions, FiniteSetTheorems, SequenceTheorems, TLAPS

USE DEF lists, eic, thread, handler, Slots

(***************************************************************************)
(* The inductive invariant.  While detachInterrupt shifts the remainder    *)
(* down, the slots from that of the line up to where it has got hold what  *)
(* the next slot held.                                                     *)
(***************************************************************************)
Size == Len(attached)

\* A line has one place in the sketch's order.
Distinct == \A j, k \in 1 .. Size : attached[j].line = attached[k].line => j = k

LineIn(t) == ISRlist[t] = attached[t + 1].line
CallbackIn(t) == ISRcallback[t] = attached[t + 1].callback

Listed == \A t \in 0 .. Size - 1 : LineIn(t) /\ CallbackIn(t)

\* The slots below m have got their new contents.
LinesMoved(m) ==
    \A t \in 0 .. Size - 1 :
        IF t >= PlaceOf(line) - 1 /\ t < m THEN ISRlist[t] = attached[t + 2].line ELSE LineIn(t)

CallbacksMoved(m) ==
    \A t \in 0 .. Size - 1 :
        IF t >= PlaceOf(line) - 1 /\ t < m THEN ISRcallback[t] = attached[t + 2].callback
                                           ELSE CallbackIn(t)

Attaching == {"a_find", "a_count", "a_list", "a_callback", "a_sense", "a_enable"}
Shifting == {"d_list", "d_callback", "d_count"}
Detaching == {"d_disable", "d_find"} \cup Shifting

\* The arguments of the call under way.
CallInv ==
    /\ pc # "idle" => line \in Lines
    /\ pc \in Attaching => callback \in Callbacks

SettledInv ==
    pc \notin Shifting \cup {"a_list", "a_callback"} => nints = Size /\ Listed

AttachInv ==
    /\ pc = "a_count" => current = nints /\ ~InUse(line)
    /\ pc \in {"a_list", "a_callback"} =>
        /\ current \in 0 .. nints - 1
        /\ \/ nints = Size /\ attached[current + 1].line = line
           \/ nints = Size + 1 /\ current = Size /\ ~InUse(line)
        /\ \A t \in 0 .. Size - 1 : LineIn(t) /\ CallbackIn(t)
    /\ pc = "a_callback" => ISRlist[current] = line
    /\ pc \in {"a_sense", "a_enable"} => InUse(line)

DetachInv ==
    pc \in Shifting =>
        /\ InUse(line) /\ nints = Size
        /\ current >= PlaceOf(line) - 1
        /\ IF pc = "d_count" THEN current = Size - 1 ELSE current < Size - 1
        /\ LinesMoved(IF pc = "d_callback" THEN current + 1 ELSE current)
        /\ CallbacksMoved(current)

\* Only attached lines can interrupt, and not one that is being detached.
EnabledInv ==
    \A l \in intEnabled : InUse(l) /\ (pc \in {"d_find"} \cup Shifting => l # line)

\* The slot that is served lies in the list.
ScanInv == irq = "clear" => i < nints

IInv ==
    /\ TypeOK /\ Distinct /\ CallInv /\ SettledInv
    /\ AttachInv /\ DetachInv /\ EnabledInv /\ ScanInv

-----------------------------------------------------------------------------
(* The sketch's order.                                                     *)

LEMMA SizeType ==
    ASSUME TypeOK
    PROVE  /\ Size \in Nat /\ DOMAIN attached = 1 .. Size
           /\ \A k \in 1 .. Size : attached[k] \in Attachment
  BY ElementOfSeq DEF TypeOK, Size

\* A line in use has a place, and only that one.
LEMMA PlaceFound ==
    ASSUME TypeOK, Distinct, NEW l, InUse(l)
    PROVE  /\ PlaceOf(l) \in 1 .. Size /\ attached[PlaceOf(l)].line = l
           /\ \A k \in 1 .. Size : attached[k].line = l => k = PlaceOf(l)
<1>1. PICK k \in DOMAIN attached : attached[k].line = l
  BY DEF InUse
<1>2. PlaceOf(l) \in DOMAIN attached /\ attached[PlaceOf(l)].line = l
  BY <1>1 DEF PlaceOf
<1> QED
  BY <1>2, SizeType DEF Distinct

\* The search ends at the line's slot, or at nints.
LEMMA SlotFound ==
    ASSUME TypeOK, Distinct, nints = Size, Listed, NEW l
    PROVE  SlotOf(l) = IF InUse(l) THEN PlaceOf(l) - 1 ELSE nints
<1>1. \A s \in 0 .. nints - 1 : s + 1 \in 1 .. Size /\ ISRlist[s] = attached[s + 1].line
  BY SizeType DEF Listed, LineIn
<1>2. CASE InUse(l)
  <2> DEFINE p == PlaceOf(l) - 1
  <2>1. p \in 0 .. nints - 1 /\ ISRlist[p] = l
    BY <1>1, <1>2, PlaceFound, SizeType
  <2>2. \A s \in 0 .. nints - 1 : ISRlist[s] = l => s = p
    BY <1>1, <1>2, PlaceFound
  <2>3. \A t \in 0 .. p - 1 : ISRlist[t] # l
    BY <2>1, <2>2, SizeType
  <2> HIDE DEF p
  <2>4. SlotOf(l) = p
    BY <2>1, <2>2, <2>3 DEF SlotOf
  <2> QED
    BY <2>4, <1>2 DEF p
<1>3. CASE ~InUse(l)
  <2>1. ~ \E s \in 0 .. nints - 1 : ISRlist[s] = l
    BY <1>1, <1>3, SizeType DEF InUse
  <2> QED
    BY <2>1, <1>3 DEF SlotOf
<1> QED
  BY <1>2, <1>3

\* There is a slot for every line: the list never outgrows the array.
LEMMA RoomForLine ==
    ASSUME TypeOK, Distinct, NEW l \in Lines, ~InUse(l)
    PROVE  Size + 1 <= NumSlots
<1> DEFINE f == [k \in 1 .. Size |-> attached[k].line]
<1>1. f \in Injection(1 .. Size, Lines \ {l})
  <2>1. f \in [1 .. Size -> Lines \ {l}]
    BY SizeType DEF Attachment, InUse
  <2>2. \A j, k \in 1 .. Size : f[j] = f[k] => j = k
    BY DEF Distinct
  <2> QED
    BY <2>1, <2>2 DEF Injection, IsInjective
<1>2. IsFiniteSet(Lines \ {l}) /\ Cardinality(Lines \ {l}) = Cardinality(Lines) - 1
  BY FS_RemoveElement, EicAssumption
<1>3. Cardinality(1 .. Size) = Size
  BY SizeType, FS_Interval
<1>4. Cardinality(1 .. Size) <= Cardinality(Lines \ {l})
  BY <1>1, <1>2, FS_Injection
<1>5. Cardinality(Lines) \in Nat
  BY FS_CardinalityType, EicAssumption
<1> QED
  BY <1>2, <1>3, <1>4, <1>5, SizeType, EicAssumption

\* Attaching a line again changes its callback, a new one comes last.
LEMMA ReattachedIs ==
    ASSUME TypeOK, NEW l \in Lines, NEW cb \in Callbacks
    PROVE  /\ Reattached(l, cb) \in Seq(Attachment)
           /\ Len(Reattached(l, cb)) = IF InUse(l) THEN Size ELSE Size + 1
           /\ \A k \in 1 .. Size : Reattached(l, cb)[k].line = attached[k].line
           /\ \A k \in 1 .. Size : Reattached(l, cb)[k].callback =
                  IF attached[k].line = l THEN cb ELSE attached[k].callback
           /\ ~InUse(l) => Reattached(l, cb)[Size + 1] = [line |-> l, callback |-> cb]
<1>1. CASE InUse(l)
  <2>1. Reattached(l, cb) \in [1 .. Size -> Attachment]
    BY <1>1, SizeType DEF Reattached, Attachment
  <2>2. Reattached(l, cb) \in Seq(Attachment)
    BY <2>1, SizeType, SeqDef
  <2>3. Len(Reattached(l, cb)) = Size
    BY <2>1, <2>2, SizeType
  <2>4. \A k \in 1 .. Size : Reattached(l, cb)[k].line = attached[k].line
    BY <1>1, SizeType DEF Reattached
  <2>5. \A k \in 1 .. Size : Reattached(l, cb)[k].callback =
            IF attached[k].line = l THEN cb ELSE attached[k].callback
    BY <1>1, SizeType DEF Reattached
  <2> QED
    BY <1>1, <2>2, <2>3, <2>4, <2>5
<1>2. CASE ~InUse(l)
  <2> DEFINE new == [line |-> l, callback |-> cb]
  <2>1. Reattached(l, cb) = Append(attached, new) /\ new \in Attachment /\ new.line = l
    BY <1>2 DEF Reattached, Attachment
  <2>2. attached \in Seq(Attachment)
    BY DEF TypeOK
  <2>3. \A k \in 1 .. Size : attached[k].line # l
    BY <1>2, SizeType DEF InUse
  <2> HIDE DEF new
  <2>4. /\ Append(attached, new) \in Seq(Attachment) /\ Len(Append(attached, new)) = Size + 1
        /\ \A k \in 1 .. Size : Append(attached, new)[k] = attached[k]
        /\ Append(attached, new)[Size + 1] = new
    BY <2>1, <2>2, AppendProperties DEF Size
  <2> QED
    BY <1>2, <2>1, <2>3, <2>4 DEF new
<1> QED
  BY <1>1, <1>2

\* Detaching a line moves those behind it one place up.
LEMMA DetachedIs ==
    ASSUME TypeOK, Distinct, NEW l, InUse(l)
    PROVE  /\ Detached(l) \in Seq(Attachment) /\ Len(Detached(l)) = Size - 1
           /\ \A k \in 1 .. Size - 1 :
                  Detached(l)[k] = attached[IF k < PlaceOf(l) THEN k ELSE k + 1]
<1>1. Size - 1 \in Nat /\ PlaceOf(l) \in 1 .. Size
  BY PlaceFound, SizeType
<1>2. Detached(l) \in [1 .. Size - 1 -> Attachment]
  BY <1>1, SizeType DEF Detached
<1>3. Detached(l) \in Seq(Attachment)
  BY <1>1, <1>2, SeqDef
<1>4. Len(Detached(l)) = Size - 1
  BY <1>1, <1>2, <1>3
<1> QED
  BY <1>3, <1>4 DEF Detached, Size

\* Attaching a line keeps the others attached.
LEMMA AttachKeeps ==
    ASSUME IInv, AttachCallback, NEW l, InUse(l)
    PROVE  InUse(l)'
<1>1. line \in Lines /\ callback \in Callbacks
  BY DEF IInv, AttachCallback, At, CallInv, Attaching
<1>2. PICK k \in 1 .. Size : attached[k].line = l
  BY SizeType DEF IInv, InUse
<1>3. /\ attached' \in Seq(Attachment) /\ Len(attached') >= Size
      /\ attached'[k].line = l
  <2>1. /\ Reattached(line, callback) \in Seq(Attachment)
        /\ Len(Reattached(line, callback)) = IF InUse(line) THEN Size ELSE Size + 1
        /\ \A j \in 1 .. Size : Reattached(line, callback)[j].line = attached[j].line
        /\ \A j \in 1 .. Size : Reattached(line, callback)[j].callback =
               IF attached[j].line = line THEN callback ELSE attached[j].callback
        /\ ~InUse(line) =>
               Reattached(line, callback)[Size + 1] = [line |-> line, callback |-> callback]
    BY <1>1, ReattachedIs DEF IInv
  <2> QED
    BY <1>2, <2>1, SizeType DEF IInv, AttachCallback
<1>4. k \in DOMAIN attached'
  BY <1>3, SizeType DEF IInv
<1> QED
  BY <1>3, <1>4 DEF InUse

\* Detaching a line keeps the others attached.
LEMMA DetachKeeps ==
    ASSUME IInv, DetachCount, NEW l, InUse(l), l # line
    PROVE  InUse(l)'
<1>1. InUse(line) /\ PlaceOf(line) \in 1 .. Size /\ attached[PlaceOf(line)].line = line
  BY PlaceFound DEF IInv, DetachCount, At, DetachInv, Shifting
<1>2. PICK k \in 1 .. Size : attached[k].line = l
  BY SizeType DEF IInv, InUse
<1> DEFINE n == IF k < PlaceOf(line) THEN k ELSE k - 1
<1>3. n \in 1 .. Size - 1 /\ (IF n < PlaceOf(line) THEN n ELSE n + 1) = k
  BY <1>1, <1>2, SizeType DEF IInv
<1> HIDE DEF n
<1>4. /\ attached' \in Seq(Attachment) /\ Len(attached') = Size - 1
      /\ attached'[n].line = l
  BY <1>1, <1>2, <1>3, DetachedIs DEF IInv, DetachCount
<1>5. n \in DOMAIN attached'
  BY <1>3, <1>4, SizeType DEF IInv
<1> QED
  BY <1>4, <1>5 DEF InUse

-----------------------------------------------------------------------------
(* The steps *)

LEMMA InitIInv == Init => IInv
<1> SUFFICES ASSUME Init PROVE IInv
  OBVIOUS
<1>1. attached \in Seq(Attachment) /\ Len(attached) = 0 /\ DOMAIN attached = {}
  BY EmptySeq DEF Init
<1>2. TypeOK
  BY <1>1, EicAssumption DEF Init, TypeOK
<1> QED
  BY <1>1, <1>2
     DEF Init, IInv, Distinct, CallInv, SettledInv, AttachInv, DetachInv, EnabledInv, ScanInv,
         Size, Listed, Attaching, Shifting

LEMMA CallAttachStep == IInv /\ CallAttach => IInv'
<1> SUFFICES ASSUME IInv, CallAttach PROVE IInv'
  OBVIOUS
<1>1. TypeOK'
  BY EicAssumption DEF IInv, CallAttach, TypeOK
<1>2. Distinct'
  BY DEF IInv, CallAttach, Distinct, Size
<1>3. CallInv'
  BY DEF CallAttach, CallInv
<1>4. SettledInv'
  BY DEF IInv, CallAttach, SettledInv, Size, Listed, LineIn, CallbackIn, At, Shifting
<1>5. AttachInv'
  BY DEF CallAttach, AttachInv
<1>6. DetachInv'
  BY DEF CallAttach, DetachInv, Shifting
<1>7. EnabledInv'
  BY DEF IInv, CallAttach, EnabledInv, InUse, Shifting
<1>8. ScanInv'
  BY DEF CallAttach, ScanInv, At
<1> QED
  BY <1>1, <1>2, <1>3, <1>4, <1>5, <1>6, <1>7, <1>8 DEF IInv

LEMMA CallDetachStep == IInv /\ CallDetach => IInv'
<1> SUFFICES ASSUME IInv, CallDetach PROVE IInv'
  OBVIOUS
<1>1. TypeOK'
  BY EicAssumption DEF IInv, CallDetach, TypeOK
<1>2. Distinct'
  BY DEF IInv, CallDetach, Distinct, Size
<1>3. CallInv'
  BY DEF CallDetach, CallInv, Attaching
<1>4. SettledInv'
  BY DEF IInv, CallDetach, SettledInv, Size, Listed, LineIn, CallbackIn, At, Shifting
<1>5. AttachInv'
  BY DEF CallDetach, AttachInv
<1>6. DetachInv'
  BY DEF CallDetach, DetachInv, Shifting
<1>7. EnabledInv'
  BY DEF IInv, CallDetach, EnabledInv, InUse, Shifting
<1>8. ScanInv'
  BY DEF CallDetach, ScanInv, At
<1> QED
  BY <1>1, <1>2, <1>3, <1>4, <1>5, <1>6, <1>7, <1>8 DEF IInv

LEMMA AttachFindStep == IInv /\ AttachFind => IInv'
<1> SUFFICES ASSUME IInv, AttachFind PROVE IInv'
  OBVIOUS
<1>a. nints = Size /\ Listed /\ line \in Lines
  BY DEF IInv, AttachFind, At, CallInv, SettledInv, Shifting
<1>b. SlotOf(line) = IF InUse(line) THEN PlaceOf(line) - 1 ELSE nints
  BY <1>a, SlotFound DEF IInv
<1>c. InUse(line) => PlaceOf(line) \in 1 .. Size /\ attached[PlaceOf(line)].line = line
  BY PlaceFound DEF IInv
<1>1. TypeOK'
  BY <1>a, <1>b, <1>c, EicAssumption DEF IInv, AttachFind, TypeOK
<1>2. Distinct'
  BY DEF IInv, AttachFind, Distinct, Size
<1>3. CallInv'
  BY DEF IInv, AttachFind, CallInv, At, Attaching
<1>4. SettledInv'
  BY DEF IInv, AttachFind, SettledInv, Size, Listed, LineIn, CallbackIn, At, Shifting
<1>5. AttachInv'
  <2>1. InUse(line)' = InUse(line) /\ UNCHANGED <<lists, line, attached>>
    BY DEF AttachFind, InUse
  <2>2. CASE ~InUse(line)
    BY <1>a, <1>b, <2>1, <2>2 DEF AttachFind, AttachInv
  <2>3. CASE InUse(line)
    <3>1. SlotOf(line) \in 0 .. nints - 1 /\ attached[SlotOf(line) + 1].line = line
      BY <1>a, <1>b, <1>c, <2>3, SizeType DEF IInv
    <3>2. current' = SlotOf(line) /\ pc' = "a_list"
      BY <3>1 DEF AttachFind
    <3>3. \A t \in 0 .. Size' - 1 : LineIn(t)' /\ CallbackIn(t)'
      BY <1>a, <2>1 DEF Listed, LineIn, CallbackIn, Size
    <3> QED
      BY <1>a, <2>1, <3>1, <3>2, <3>3 DEF AttachInv, Size
  <2> QED
    BY <2>2, <2>3
<1>6. DetachInv'
  BY DEF AttachFind, DetachInv, Shifting
<1>7. EnabledInv'
  BY DEF IInv, AttachFind, EnabledInv, InUse, Shifting
<1>8. ScanInv'
  BY DEF AttachFind, ScanInv, At
<1> QED
  BY <1>1, <1>2, <1>3, <1>4, <1>5, <1>6, <1>7, <1>8 DEF IInv

LEMMA AttachCountStep == IInv /\ AttachCount => IInv'
<1> SUFFICES ASSUME IInv, AttachCount PROVE IInv'
  OBVIOUS
<1>1. TypeOK'
  <2>1. line \in Lines /\ nints = Size /\ ~InUse(line)
    BY DEF IInv, AttachCount, At, CallInv, SettledInv, AttachInv, Shifting
  <2>2. Size + 1 <= NumSlots
    BY <2>1, RoomForLine DEF IInv
  <2> QED
    BY <2>1, <2>2 DEF IInv, AttachCount, Goto, TypeOK
<1>2. Distinct'
  BY DEF IInv, AttachCount, Distinct, Size
<1>3. CallInv'
  BY DEF IInv, AttachCount, CallInv, At, Goto, Attaching
<1>4. SettledInv'
  BY DEF AttachCount, SettledInv, Goto
<1>5. AttachInv'
  BY DEF IInv, AttachCount, AttachInv, SettledInv, Size, InUse, Listed, LineIn, CallbackIn, At,
         Goto, Shifting
<1>6. DetachInv'
  BY DEF AttachCount, DetachInv, Goto, Shifting
<1>7. EnabledInv'
  BY DEF IInv, AttachCount, EnabledInv, InUse, Goto, Shifting
<1>8. ScanInv'
  BY DEF AttachCount, ScanInv, At
<1> QED
  BY <1>1, <1>2, <1>3, <1>4, <1>5, <1>6, <1>7, <1>8 DEF IInv

LEMMA AttachListStep == IInv /\ AttachList => IInv'
<1> SUFFICES ASSUME IInv, AttachList PROVE IInv'
  OBVIOUS
<1>1. TypeOK'
  BY DEF IInv, AttachList, TypeOK, Goto
<1>2. Distinct'
  BY DEF IInv, AttachList, Distinct, Size
<1>3. CallInv'
  BY DEF IInv, AttachList, CallInv, At, Goto, Attaching
<1>4. SettledInv'
  BY DEF AttachList, SettledInv, Goto
<1>5. AttachInv'
  BY EicAssumption
     DEF IInv, AttachList, TypeOK, AttachInv, Size, InUse, LineIn, CallbackIn, At, Goto
<1>6. DetachInv'
  BY DEF AttachList, DetachInv, Goto, Shifting
<1>7. EnabledInv'
  BY DEF IInv, AttachList, EnabledInv, InUse, Goto, Shifting
<1>8. ScanInv'
  BY DEF AttachList, ScanInv, At
<1> QED
  BY <1>1, <1>2, <1>3, <1>4, <1>5, <1>6, <1>7, <1>8 DEF IInv

LEMMA AttachCallbackStep == IInv /\ AttachCallback => IInv'
<1> SUFFICES ASSUME IInv, AttachCallback PROVE IInv'
  OBVIOUS
<1>a. line \in Lines /\ callback \in Callbacks /\ current \in 0 .. nints - 1
  BY DEF IInv, AttachCallback, At, CallInv, AttachInv, Attaching
<1>b. /\ Reattached(line, callback) \in Seq(Attachment)
      /\ Len(Reattached(line, callback)) = IF InUse(line) THEN Size ELSE Size + 1
      /\ \A k \in 1 .. Size : Reattached(line, callback)[k].line = attached[k].line
      /\ \A k \in 1 .. Size : Reattached(line, callback)[k].callback =
             IF attached[k].line = line THEN callback ELSE attached[k].callback
      /\ ~InUse(line) =>
             Reattached(line, callback)[Size + 1] = [line |-> line, callback |-> callback]
  BY <1>a, ReattachedIs DEF IInv
<1>1. TypeOK'
  BY <1>a, <1>b DEF IInv, AttachCallback, Goto, TypeOK
<1>2. Distinct'
  <2>1. CASE InUse(line)
    BY <1>b, <2>1 DEF IInv, AttachCallback, Distinct, Size
  <2>2. CASE ~InUse(line)
    <3>1. \A k \in 1 .. Size : attached[k].line # line
      BY <2>2, SizeType DEF IInv, InUse
    <3> QED
      BY <1>b, <2>2, <3>1 DEF IInv, AttachCallback, Distinct, Size
  <2> QED
    BY <2>1, <2>2
<1>3. CallInv'
  BY DEF IInv, AttachCallback, CallInv, At, Goto, Attaching
<1>4. SettledInv'
  <2>1. /\ UNCHANGED <<ISRlist, nints>> /\ attached' = Reattached(line, callback)
        /\ pc' = "a_sense" /\ ISRlist[current] = line
        /\ \A t \in 0 .. Size - 1 : LineIn(t) /\ CallbackIn(t)
    BY DEF IInv, AttachCallback, At, Goto, AttachInv
  <2>2. \A t \in 0 .. nints - 1 :
            ISRcallback'[t] = IF t = current THEN callback ELSE ISRcallback[t]
    BY <1>a, EicAssumption DEF IInv, TypeOK
  <2>3. CASE InUse(line)
    <3>1. nints = Size /\ attached[current + 1].line = line
      BY <2>3 DEF IInv, AttachInv, AttachCallback, At
    <3>2. \A t \in 0 .. Size - 1 : attached[t + 1].line = line => t = current
      BY <1>a, <3>1, SizeType DEF IInv, Distinct
    <3>3. Listed' /\ nints' = Size'
      BY <1>b, <2>1, <2>2, <2>3, <3>1, <3>2 DEF Listed, LineIn, CallbackIn, Size
    <3> QED
      BY <3>3 DEF SettledInv
  <2>4. CASE ~InUse(line)
    <3>1. nints = Size + 1 /\ current = Size
      BY <1>a, <2>4, SizeType DEF IInv, AttachInv, AttachCallback, At, InUse
    <3>2. \A t \in 0 .. Size - 1 : attached[t + 1].line # line
      BY <2>4, SizeType DEF IInv, InUse
    <3>3. Listed' /\ nints' = Size'
      <4>1. nints' = Size' /\ Size' = Size + 1 /\ Size \in Nat
        BY <1>b, <2>1, <2>4, <3>1, SizeType DEF IInv, Size
      <4>2. ASSUME NEW t \in 0 .. Size' - 1 PROVE LineIn(t)' /\ CallbackIn(t)'
        <5>1. CASE t = Size
          BY <1>b, <2>1, <2>2, <2>4, <3>1, <4>1, <5>1 DEF LineIn, CallbackIn
        <5>2. CASE t # Size
          <6>1. t \in 0 .. Size - 1 /\ t + 1 \in 1 .. Size /\ attached[t + 1].line # line
            BY <3>2, <4>1, <4>2, <5>2
          <6>2. ISRlist'[t] = ISRlist[t] /\ ISRcallback'[t] = ISRcallback[t]
            BY <2>1, <2>2, <3>1, <4>1, <5>2, <6>1
          <6>3. attached'[t + 1].line = attached[t + 1].line
                /\ attached'[t + 1].callback = attached[t + 1].callback
            BY <1>b, <2>1, <6>1
          <6> QED
            BY <2>1, <6>1, <6>2, <6>3 DEF LineIn, CallbackIn
        <5> QED
          BY <5>1, <5>2
      <4> QED
        BY <4>1, <4>2 DEF Listed
    <3> QED
      BY <3>3 DEF SettledInv
  <2> QED
    BY <2>3, <2>4
<1>5. AttachInv'
  <2>1. Size' \in Nat /\ Size' >= 1 /\ DOMAIN attached' = 1 .. Size'
    BY <1>b, <1>a DEF AttachCallback, Size, InUse
  <2>2. InUse(line)'
    <3>1. CASE InUse(line)
      <4>1. PICK k \in 1 .. Size : attached[k].line = line
        BY <3>1, SizeType DEF IInv, InUse
      <4>2. k \in 1 .. Size' /\ attached'[k].line = line
        BY <1>b, <3>1, <4>1 DEF AttachCallback, Size
      <4> QED
        BY <2>1, <4>2 DEF InUse, AttachCallback, Goto
    <3>2. CASE ~InUse(line)
      <4>1. Size' = Size + 1 /\ attached'[Size + 1].line = line
        BY <1>b, <3>2 DEF AttachCallback, Size
      <4> QED
        BY <2>1, <4>1 DEF InUse, AttachCallback, Goto
    <3> QED
      BY <3>1, <3>2
  <2> QED
    BY <2>2 DEF AttachCallback, Goto, AttachInv
<1>6. DetachInv'
  BY DEF AttachCallback, DetachInv, Goto, Shifting
<1>7. EnabledInv'
  <2>1. \A l \in intEnabled : InUse(l)'
    BY AttachKeeps DEF IInv, EnabledInv
  <2> QED
    BY <2>1 DEF AttachCallback, Goto, EnabledInv, Shifting
<1>8. ScanInv'
  BY DEF AttachCallback, ScanInv, At
<1> QED
  BY <1>1, <1>2, <1>3, <1>4, <1>5, <1>6, <1>7, <1>8 DEF IInv

LEMMA AttachSenseStep == IInv /\ AttachSense => IInv'
<1> SUFFICES ASSUME IInv, AttachSense PROVE IInv'
  OBVIOUS
<1>1. TypeOK'
  BY DEF IInv, AttachSense, At, Goto, TypeOK, CallInv
<1>2. Distinct'
  BY DEF IInv, AttachSense, Distinct, Size
<1>3. CallInv'
  BY DEF IInv, AttachSense, CallInv, At, Goto, Attaching
<1>4. SettledInv'
  BY DEF IInv, AttachSense, SettledInv, Size, Listed, LineIn, CallbackIn, At, Shifting
<1>5. AttachInv'
  BY DEF IInv, AttachSense, AttachInv, InUse, At, Goto
<1>6. DetachInv'
  BY DEF AttachSense, DetachInv, Goto, Shifting
<1>7. EnabledInv'
  BY DEF IInv, AttachSense, EnabledInv, InUse, Goto, Shifting
<1>8. ScanInv'
  BY DEF AttachSense, ScanInv, At
<1> QED
  BY <1>1, <1>2, <1>3, <1>4, <1>5, <1>6, <1>7, <1>8 DEF IInv

LEMMA AttachEnableStep == IInv /\ AttachEnable => IInv'
<1> SUFFICES ASSUME IInv, AttachEnable PROVE IInv'
  OBVIOUS
<1>1. TypeOK'
  BY EicAssumption DEF IInv, AttachEnable, At, Return, TypeOK, CallInv
<1>2. Distinct'
  BY DEF IInv, AttachEnable, Distinct, Size
<1>3. CallInv'
  BY DEF AttachEnable, Return, CallInv, Attaching
<1>4. SettledInv'
  BY DEF IInv, AttachEnable, SettledInv, Size, Listed, LineIn, CallbackIn, At, Shifting
<1>5. AttachInv'
  BY DEF AttachEnable, Return, AttachInv
<1>6. DetachInv'
  BY DEF AttachEnable, Return, DetachInv, Shifting
<1>7. EnabledInv'
  BY DEF IInv, AttachEnable, Return, EnabledInv, AttachInv, InUse, At, Shifting
<1>8. ScanInv'
  BY DEF AttachEnable, ScanInv, At
<1> QED
  BY <1>1, <1>2, <1>3, <1>4, <1>5, <1>6, <1>7, <1>8 DEF IInv

LEMMA DetachDisableStep == IInv /\ DetachDisable => IInv'
<1> SUFFICES ASSUME IInv, DetachDisable PROVE IInv'
  OBVIOUS
<1>1. TypeOK'
  BY DEF IInv, DetachDisable, TypeOK, Goto
<1>2. Distinct'
  BY DEF IInv, DetachDisable, Distinct, Size
<1>3. CallInv'
  BY DEF IInv, DetachDisable, CallInv, At, Goto, Attaching
<1>4. SettledInv'
  BY DEF IInv, DetachDisable, SettledInv, Size, Listed, LineIn, CallbackIn, At, Shifting
<1>5. AttachInv'
  BY DEF DetachDisable, AttachInv, Goto
<1>6. DetachInv'
  BY DEF DetachDisable, DetachInv, Goto, Shifting
<1>7. EnabledInv'
  BY DEF IInv, DetachDisable, EnabledInv, InUse, Goto
<1>8. ScanInv'
  BY DEF DetachDisable, ScanInv, At
<1> QED
  BY <1>1, <1>2, <1>3, <1>4, <1>5, <1>6, <1>7, <1>8 DEF IInv

LEMMA DetachFindStep == IInv /\ DetachFind => IInv'
<1> SUFFICES ASSUME IInv, DetachFind PROVE IInv'
  OBVIOUS
<1>a. nints = Size /\ Listed /\ line \in Lines
  BY DEF IInv, DetachFind, At, CallInv, SettledInv, Shifting
<1>b. SlotOf(line) = IF InUse(line) THEN PlaceOf(line) - 1 ELSE nints
  BY <1>a, SlotFound DEF IInv
<1>c. InUse(line) => PlaceOf(line) \in 1 .. Size /\ attached[PlaceOf(line)].line = line
  BY PlaceFound DEF IInv
<1>1. TypeOK'
  <2>1. CASE SlotOf(line) = nints
    BY <2>1, EicAssumption DEF IInv, DetachFind, Return, TypeOK
  <2>2. CASE SlotOf(line) # nints
    <3>1. SlotOf(line) = PlaceOf(line) - 1 /\ PlaceOf(line) \in 1 .. Size /\ Size \in 0 .. NumSlots
      BY <1>a, <1>b, <1>c, <2>2 DEF IInv, TypeOK
    <3>2. SlotOf(line) \in 0 .. NumSlots
      BY <3>1, EicAssumption
    <3> QED
      BY <2>2, <3>2 DEF IInv, DetachFind, ShiftFrom, TypeOK
  <2> QED
    BY <2>1, <2>2
<1>2. Distinct'
  BY DEF IInv, DetachFind, Distinct, Size
<1>3. CallInv'
  BY DEF IInv, DetachFind, ShiftFrom, Return, CallInv, At, Attaching
<1>4. SettledInv'
  BY DEF IInv, DetachFind, SettledInv, Size, Listed, LineIn, CallbackIn, At, Shifting
<1>5. AttachInv'
  BY DEF DetachFind, ShiftFrom, Return, AttachInv
<1>6. DetachInv'
  <2>1. CASE ~InUse(line)
    BY <1>a, <1>b, <2>1 DEF DetachFind, Return, DetachInv, Shifting
  <2>2. CASE InUse(line)
    <3>1. /\ current' = PlaceOf(line) - 1
          /\ pc' = (IF current' < nints - 1 THEN "d_list" ELSE "d_count")
      BY <1>a, <1>b, <1>c, <2>2 DEF DetachFind, ShiftFrom
    <3>2. UNCHANGED <<lists, line, attached>> /\ InUse(line)'
      BY <1>a, <1>b, <1>c, <2>2 DEF DetachFind, InUse
    <3>3. PlaceOf(line)' = PlaceOf(line) /\ Size' = Size
      BY <3>2 DEF PlaceOf, Size
    <3>4. \A t \in 0 .. Size - 1 : LineIn(t)' /\ CallbackIn(t)'
      BY <1>a, <3>2 DEF Listed, LineIn, CallbackIn
    <3>5. LinesMoved(current)' /\ CallbacksMoved(current)'
      BY <3>1, <3>3, <3>4, <1>c, <2>2 DEF LinesMoved, CallbacksMoved
    <3> QED
      BY <1>a, <1>c, <2>2, <3>1, <3>2, <3>3, <3>5, SizeType DEF IInv, DetachInv
  <2> QED
    BY <2>1, <2>2
<1>7. EnabledInv'
  BY DEF IInv, DetachFind, Return, EnabledInv, InUse, At, Shifting
<1>8. ScanInv'
  BY DEF DetachFind, ScanInv, At
<1> QED
  BY <1>1, <1>2, <1>3, <1>4, <1>5, <1>6, <1>7, <1>8 DEF IInv

LEMMA DetachListStep == IInv /\ DetachList => IInv'
<1> SUFFICES ASSUME IInv, DetachList PROVE IInv'
  OBVIOUS
<1>a. /\ InUse(line) /\ nints = Size /\ Size \in Nat /\ current \in Nat
      /\ PlaceOf(line) \in 1 .. Size /\ attached[PlaceOf(line)].line = line
      /\ current >= PlaceOf(line) - 1 /\ current < Size - 1
      /\ LinesMoved(current) /\ CallbacksMoved(current)
  BY PlaceFound DEF IInv, DetachList, At, TypeOK, DetachInv, Shifting
<1>1. TypeOK'
  BY <1>a, EicAssumption DEF IInv, DetachList, Goto, TypeOK
<1>2. Distinct'
  BY DEF IInv, DetachList, Distinct, Size
<1>3. CallInv'
  BY DEF IInv, DetachList, CallInv, At, Goto, Attaching
<1>4. SettledInv'
  BY DEF DetachList, SettledInv, Goto, Shifting
<1>5. AttachInv'
  BY DEF DetachList, AttachInv, Goto
<1>6. DetachInv'
  <2>1. UNCHANGED <<nints, line, attached>>
    BY DEF DetachList, Goto
  <2>2. PlaceOf(line)' = PlaceOf(line) /\ Size' = Size /\ InUse(line)'
    BY <1>a, <2>1 DEF PlaceOf, Size, InUse
  <2>3. \A t \in 0 .. Size - 1 :
          ISRlist'[t] = IF t = current THEN attached[current + 2].line ELSE ISRlist[t]
    <3>1. ISRlist[current + 1] = attached[current + 2].line
      BY <1>a DEF LinesMoved, LineIn
    <3>2. current \in Slots /\ 0 .. Size - 1 \subseteq Slots /\ DOMAIN ISRlist = Slots
      BY <1>a, EicAssumption DEF IInv, TypeOK
    <3> QED
      BY <3>1, <3>2 DEF DetachList
  <2>4. LinesMoved(current + 1)'
    BY <1>a, <2>1, <2>2, <2>3 DEF LinesMoved, LineIn, DetachList, Goto
  <2>5. CallbacksMoved(current)'
    BY <1>a, <2>1, <2>2 DEF CallbacksMoved, CallbackIn, DetachList, Goto
  <2> QED
    BY <1>a, <2>1, <2>2, <2>4, <2>5 DEF DetachInv, DetachList, Goto
<1>7. EnabledInv'
  BY DEF IInv, DetachList, EnabledInv, InUse, At, Goto, Shifting
<1>8. ScanInv'
  BY DEF DetachList, ScanInv, At
<1> QED
  BY <1>1, <1>2, <1>3, <1>4, <1>5, <1>6, <1>7, <1>8 DEF IInv

LEMMA DetachCallbackStep == IInv /\ DetachCallback => IInv'
<1> SUFFICES ASSUME IInv, DetachCallback PROVE IInv'
  OBVIOUS
<1>a. /\ InUse(line) /\ nints = Size /\ Size \in Nat /\ current \in Nat
      /\ PlaceOf(line) \in 1 .. Size /\ attached[PlaceOf(line)].line = line
      /\ current >= PlaceOf(line) - 1 /\ current < Size - 1
      /\ LinesMoved(current + 1) /\ CallbacksMoved(current)
  BY PlaceFound DEF IInv, DetachCallback, At, TypeOK, DetachInv, Shifting
<1>1. TypeOK'
  BY <1>a, EicAssumption DEF IInv, DetachCallback, ShiftFrom, TypeOK
<1>2. Distinct'
  BY DEF IInv, DetachCallback, Distinct, Size
<1>3. CallInv'
  BY DEF IInv, DetachCallback, ShiftFrom, CallInv, At, Attaching
<1>4. SettledInv'
  BY DEF DetachCallback, ShiftFrom, SettledInv, Shifting
<1>5. AttachInv'
  BY DEF DetachCallback, ShiftFrom, AttachInv
<1>6. DetachInv'
  <2>1. UNCHANGED <<nints, line, attached>>
    BY DEF DetachCallback, Goto
  <2>2. PlaceOf(line)' = PlaceOf(line) /\ Size' = Size /\ InUse(line)'
    BY <1>a, <2>1 DEF PlaceOf, Size, InUse
  <2>3. \A t \in 0 .. Size - 1 :
          ISRcallback'[t] = IF t = current THEN attached[current + 2].callback ELSE ISRcallback[t]
    <3>1. ISRcallback[current + 1] = attached[current + 2].callback
      BY <1>a DEF CallbacksMoved, CallbackIn
    <3>2. current \in Slots /\ 0 .. Size - 1 \subseteq Slots /\ DOMAIN ISRcallback = Slots
      BY <1>a, EicAssumption DEF IInv, TypeOK
    <3> QED
      BY <3>1, <3>2 DEF DetachCallback
  <2>4. CallbacksMoved(current)'
    BY <1>a, <2>1, <2>2, <2>3 DEF CallbacksMoved, CallbackIn, DetachCallback, ShiftFrom
  <2>5. LinesMoved(current)'
    BY <1>a, <2>1, <2>2 DEF LinesMoved, LineIn, DetachCallback, ShiftFrom
  <2> QED
    BY <1>a, <2>1, <2>2, <2>4, <2>5 DEF DetachInv, DetachCallback, ShiftFrom
<1>7. EnabledInv'
  BY DEF IInv, DetachCallback, EnabledInv, InUse, At, Shifting
<1>8. ScanInv'
  BY DEF DetachCallback, ScanInv, At
<1> QED
  BY <1>1, <1>2, <1>3, <1>4, <1>5, <1>6, <1>7, <1>8 DEF IInv

LEMMA DetachCountStep == IInv /\ DetachCount => IInv'
<1> SUFFICES ASSUME IInv, DetachCount PROVE IInv'
  OBVIOUS
<1>a. /\ InUse(line) /\ nints = Size /\ Size \in Nat /\ current \in Nat
      /\ PlaceOf(line) \in 1 .. Size /\ attached[PlaceOf(line)].line = line
      /\ current >= PlaceOf(line) - 1 /\ current = Size - 1
      /\ LinesMoved(current) /\ CallbacksMoved(current)
  BY PlaceFound DEF IInv, DetachCount, At, TypeOK, DetachInv, Shifting
<1>b. /\ Detached(line) \in Seq(Attachment) /\ Len(Detached(line)) = Size - 1
      /\ \A k \in 1 .. Size - 1 :
             Detached(line)[k] = attached[IF k < PlaceOf(line) THEN k ELSE k + 1]
  BY <1>a, DetachedIs DEF IInv
<1>1. TypeOK'
  BY <1>a, <1>b, EicAssumption DEF IInv, DetachCount, Return, TypeOK
<1>2. Distinct'
  <2> DEFINE from(k) == IF k < PlaceOf(line) THEN k ELSE k + 1
  <2>1. \A k \in 1 .. Size - 1 : from(k) \in 1 .. Size
    BY <1>a
  <2>2. \A j, k \in 1 .. Size - 1 : from(j) = from(k) => j = k
    BY <1>a
  <2>3. \A k \in 1 .. Size - 1 : attached'[k] = attached[from(k)]
    BY <1>b DEF DetachCount
  <2> HIDE DEF from
  <2>4. \A j, k \in 1 .. Size - 1 : attached'[j].line = attached'[k].line => j = k
    BY <2>1, <2>2, <2>3 DEF IInv, Distinct
  <2> QED
    BY <1>b, <2>4 DEF DetachCount, Distinct, Size
<1>3. CallInv'
  BY DEF DetachCount, Return, CallInv, Attaching
<1>4. SettledInv'
  <2>1. \A t \in 0 .. Size - 2 :
          /\ ISRlist[t] = attached[IF t + 1 < PlaceOf(line) THEN t + 1 ELSE t + 2].line
          /\ ISRcallback[t] = attached[IF t + 1 < PlaceOf(line) THEN t + 1 ELSE t + 2].callback
    BY <1>a DEF LinesMoved, CallbacksMoved, LineIn, CallbackIn
  <2>2. Listed'
    <3>1. /\ attached' = Detached(line) /\ Size' = Size - 1 /\ Size \in Nat
          /\ UNCHANGED <<ISRlist, ISRcallback>>
      BY <1>a, <1>b DEF DetachCount, Size
    <3>2. ASSUME NEW t \in 0 .. Size - 2
          PROVE  /\ ISRlist'[t] = attached'[t + 1].line
                 /\ ISRcallback'[t] = attached'[t + 1].callback
      <4>1. t + 1 \in 1 .. Size - 1 /\ (t + 1) + 1 = t + 2
        BY <3>1
      <4>2. attached'[t + 1] = attached[IF t + 1 < PlaceOf(line) THEN t + 1 ELSE t + 2]
        BY <1>b, <3>1, <4>1
      <4> QED
        BY <2>1, <3>1, <4>2
    <3>3. 0 .. Size' - 1 = 0 .. Size - 2
      BY <3>1
    <3> QED
      BY <3>2, <3>3 DEF Listed, LineIn, CallbackIn
  <2> QED
    BY <1>a, <1>b, <2>2 DEF DetachCount, SettledInv, Size
<1>5. AttachInv'
  BY DEF DetachCount, Return, AttachInv
<1>6. DetachInv'
  BY DEF DetachCount, Return, DetachInv, Shifting
<1>7. EnabledInv'
  <2>1. \A l \in intEnabled : InUse(l)'
    BY DetachKeeps DEF IInv, EnabledInv, DetachCount, At, Shifting
  <2> QED
    BY <2>1 DEF DetachCount, Return, EnabledInv, Shifting
<1>8. ScanInv'
  BY DEF DetachCount, ScanInv, At
<1> QED
  BY <1>1, <1>2, <1>3, <1>4, <1>5, <1>6, <1>7, <1>8 DEF IInv

LEMMA IrqEnterStep == IInv /\ IrqEnter => IInv'
<1> SUFFICES ASSUME IInv, IrqEnter PROVE IInv'
  OBVIOUS
<1>1. TypeOK'
  BY EicAssumption DEF IInv, IrqEnter, TypeOK
<1>2. Distinct'
  BY DEF IInv, IrqEnter, Distinct, Size
<1>3. CallInv'
  BY DEF IInv, IrqEnter, CallInv
<1>4. SettledInv'
  BY DEF IInv, IrqEnter, SettledInv, Size, Listed, LineIn, CallbackIn
<1>5. AttachInv'
  BY DEF IInv, IrqEnter, AttachInv, Size, InUse, LineIn, CallbackIn
<1>6. DetachInv'
  BY DEF IInv, IrqEnter, DetachInv, Size, InUse, PlaceOf, LinesMoved, CallbacksMoved, LineIn,
         CallbackIn
<1>7. EnabledInv'
  BY DEF IInv, IrqEnter, EnabledInv, InUse
<1>8. ScanInv'
  BY DEF IrqEnter, ScanInv
<1> QED
  BY <1>1, <1>2, <1>3, <1>4, <1>5, <1>6, <1>7, <1>8 DEF IInv

LEMMA ScanSkipStep == IInv /\ ScanSkip => IInv'
<1> SUFFICES ASSUME IInv, ScanSkip PROVE IInv'
  OBVIOUS
<1>1. TypeOK'
  BY EicAssumption DEF IInv, ScanSkip, TypeOK
<1>2. Distinct'
  BY DEF IInv, ScanSkip, Distinct, Size
<1>3. CallInv'
  BY DEF IInv, ScanSkip, CallInv
<1>4. SettledInv'
  BY DEF IInv, ScanSkip, SettledInv, Size, Listed, LineIn, CallbackIn
<1>5. AttachInv'
  BY DEF IInv, ScanSkip, AttachInv, Size, InUse, LineIn, CallbackIn
<1>6. DetachInv'
  BY DEF IInv, ScanSkip, DetachInv, Size, InUse, PlaceOf, LinesMoved, CallbacksMoved, LineIn,
         CallbackIn
<1>7. EnabledInv'
  BY DEF IInv, ScanSkip, EnabledInv, InUse
<1>8. ScanInv'
  BY DEF ScanSkip, ScanInv
<1> QED
  BY <1>1, <1>2, <1>3, <1>4, <1>5, <1>6, <1>7, <1>8 DEF IInv

LEMMA ScanCallStep == IInv /\ ScanCall => IInv'
<1> SUFFICES ASSUME IInv, ScanCall PROVE IInv'
  OBVIOUS
<1>1. TypeOK'
  BY DEF IInv, ScanCall, TypeOK
<1>2. Distinct'
  BY DEF IInv, ScanCall, Distinct, Size
<1>3. CallInv'
  BY DEF IInv, ScanCall, CallInv
<1>4. SettledInv'
  BY DEF IInv, ScanCall, SettledInv, Size, Listed, LineIn, CallbackIn
<1>5. AttachInv'
  BY DEF IInv, ScanCall, AttachInv, Size, InUse, LineIn, CallbackIn
<1>6. DetachInv'
  BY DEF IInv, ScanCall, DetachInv, Size, InUse, PlaceOf, LinesMoved, CallbacksMoved, LineIn,
         CallbackIn
<1>7. EnabledInv'
  BY DEF IInv, ScanCall, EnabledInv, InUse
<1>8. ScanInv'
  BY DEF ScanCall, ScanInv
<1> QED
  BY <1>1, <1>2, <1>3, <1>4, <1>5, <1>6, <1>7, <1>8 DEF IInv

LEMMA ClearFlagStep == IInv /\ ClearFlag => IInv'
<1> SUFFICES ASSUME IInv, ClearFlag PROVE IInv'
  OBVIOUS
<1>1. TypeOK'
  BY EicAssumption DEF IInv, ClearFlag, TypeOK, ScanInv
<1>2. Distinct'
  BY DEF IInv, ClearFlag, Distinct, Size
<1>3. CallInv'
  BY DEF IInv, ClearFlag, CallInv
<1>4. SettledInv'
  BY DEF IInv, ClearFlag, SettledInv, Size, Listed, LineIn, CallbackIn
<1>5. AttachInv'
  BY DEF IInv, ClearFlag, AttachInv, Size, InUse, LineIn, CallbackIn
<1>6. DetachInv'
  BY DEF IInv, ClearFlag, DetachInv, Size, InUse, PlaceOf, LinesMoved, CallbacksMoved, LineIn,
         CallbackIn
<1>7. EnabledInv'
  BY DEF IInv, ClearFlag, EnabledInv, InUse
<1>8. ScanInv'
  BY DEF ClearFlag, ScanInv
<1> QED
  BY <1>1, <1>2, <1>3, <1>4, <1>5, <1>6, <1>7, <1>8 DEF IInv

LEMMA ScanEndStep == IInv /\ ScanEnd => IInv'
<1> SUFFICES ASSUME IInv, ScanEnd PROVE IInv'
  OBVIOUS
<1>1. TypeOK'
  BY EicAssumption DEF IInv, ScanEnd, TypeOK
<1>2. Distinct'
  BY DEF IInv, ScanEnd, Distinct, Size
<1>3. CallInv'
  BY DEF IInv, ScanEnd, CallInv
<1>4. SettledInv'
  BY DEF IInv, ScanEnd, SettledInv, Size, Listed, LineIn, CallbackIn
<1>5. AttachInv'
  BY DEF IInv, ScanEnd, AttachInv, Size, InUse, LineIn, CallbackIn
<1>6. DetachInv'
  BY DEF IInv, ScanEnd, DetachInv, Size, InUse, PlaceOf, LinesMoved, CallbacksMoved, LineIn,
         CallbackIn
<1>7. EnabledInv'
  BY DEF IInv, ScanEnd, EnabledInv, InUse
<1>8. ScanInv'
  BY DEF ScanEnd, ScanInv
<1> QED
  BY <1>1, <1>2, <1>3, <1>4, <1>5, <1>6, <1>7, <1>8 DEF IInv

LEMMA EdgeStep == IInv /\ Edge => IInv'
<1> SUFFICES ASSUME IInv, Edge PROVE IInv'
  OBVIOUS
<1>1. TypeOK'
  BY DEF IInv, Edge, TypeOK
<1>2. Distinct'
  BY DEF IInv, Edge, Distinct, Size
<1>3. CallInv'
  BY DEF IInv, Edge, CallInv
<1>4. SettledInv'
  BY DEF IInv, Edge, SettledInv, Size, Listed, LineIn, CallbackIn
<1>5. AttachInv'
  BY DEF IInv, Edge, AttachInv, Size, InUse, LineIn, CallbackIn
<1>6. DetachInv'
  BY DEF IInv, Edge, DetachInv, Size, InUse, PlaceOf, LinesMoved, CallbacksMoved, LineIn,
         CallbackIn
<1>7. EnabledInv'
  BY DEF IInv, Edge, EnabledInv, InUse
<1>8. ScanInv'
  BY DEF IInv, Edge, ScanInv
<1> QED
  BY <1>1, <1>2, <1>3, <1>4, <1>5, <1>6, <1>7, <1>8 DEF IInv

LEMMA StutterStep == IInv /\ UNCHANGED vars => IInv'
  BY DEF IInv, vars, TypeOK, Distinct, CallInv, SettledInv, AttachInv, DetachInv, EnabledInv,
         ScanInv, Size, InUse, PlaceOf, Listed, LinesMoved, CallbacksMoved, LineIn, CallbackIn

LEMMA StepIInv == IInv /\ [Next]_vars => IInv'
  BY CallAttachStep, CallDetachStep, AttachFindStep, AttachCountStep, AttachListStep,
     AttachCallbackStep, AttachSenseStep, AttachEnableStep, DetachDisableStep, DetachFindStep,
     DetachListStep, DetachCallbackStep, DetachCountStep, IrqEnterStep, ScanSkipStep,
     ScanCallStep, ClearFlagStep, ScanEndStep, EdgeStep, StutterStep
     DEF Next, AttachStep, DetachStep, HandlerStep

\* The inductive invariant of attachInterrupt, detachInterrupt and EIC_Handler holds in every
\* reachable state.
THEOREM Invariance == Spec => []IInv
  BY InitIInv, StepIInv, PTL DEF Spec

\* Every variable keeps its type; in particular the list fits into its array.
THEOREM TypeCorrect == Spec => []TypeOK
<1>1. IInv => TypeOK
  BY DEF IInv
<1> QED
  BY Invariance, <1>1, PTL

\* Between calls the lists hold what the sketch attached, in order of
\* attachment, each line once and with its last callback (WInterrupts.c).
THEOREM OrderOfAttachment == Spec => []InOrderOfAttachment
<1>1. IInv => InOrderOfAttachment
  BY DEF IInv, SettledInv, Listed, LineIn, CallbackIn, Shifting, Size, InOrderOfAttachment
<1> QED
  BY Invariance, <1>1, PTL

\* A line that can interrupt has a slot, at whatever statement the thread is.
LEMMA ListedInv == IInv => EnabledListed
<1>1. ASSUME IInv, NEW l \in intEnabled PROVE \E s \in 0 .. nints - 1 : ISRlist[s] = l
  <2>1. PICK k \in 1 .. Size : attached[k].line = l
    BY <1>1, SizeType DEF IInv, EnabledInv, InUse
  <2>2. k - 1 \in 0 .. Size - 1 /\ Size \in Nat
    BY <1>1, SizeType DEF IInv
  <2>3. CASE pc \notin Shifting
    <3>1. nints >= Size /\ nints \in Nat /\ LineIn(k - 1)
      BY <1>1, <2>2, <2>3 DEF IInv, SettledInv, AttachInv, Listed
    <3> QED
      BY <2>1, <2>2, <3>1 DEF LineIn
  <2>4. CASE pc \in Shifting
    <3> DEFINE p == PlaceOf(line)
    <3>1. l # line /\ InUse(line) /\ nints = Size
      BY <1>1, <2>4 DEF IInv, EnabledInv, DetachInv
    <3>2. p \in 1 .. Size /\ k # p
      BY <1>1, <2>1, <3>1, PlaceFound DEF IInv
    <3> DEFINE m == IF pc = "d_callback" THEN current + 1 ELSE current
    <3>3. LinesMoved(m) /\ m \in Int /\ m <= Size - 1
      BY <1>1, <2>2, <2>4 DEF IInv, DetachInv, TypeOK
    <3> HIDE DEF p, m
    <3>4. CASE k < p \/ k - 1 >= m
      <4>1. LineIn(k - 1)
        BY <2>1, <2>2, <3>2, <3>3, <3>4 DEF LinesMoved, p
      <4> QED
        BY <2>1, <2>2, <3>1, <4>1 DEF LineIn
    <3>5. CASE k > p /\ k - 1 < m
      <4>1. k - 2 \in 0 .. Size - 1 /\ k - 2 >= p - 1 /\ k - 2 < m /\ (k - 2) + 2 = k
        BY <2>2, <3>2, <3>3, <3>5
      <4> QED
        BY <2>1, <3>1, <3>3, <4>1 DEF LinesMoved, p
    <3> QED
      BY <2>2, <3>2, <3>3, <3>4, <3>5
  <2> QED
    BY <2>3, <2>4
<1> QED
  BY <1>1 DEF EnabledListed

\* A line that can interrupt has a slot, wherever EIC_Handler preempts
\* attachInterrupt and detachInterrupt.
THEOREM EnabledAlwaysListed == Spec => []EnabledListed
  BY Invariance, ListedInv, PTL

\* When detachInterrupt returns, its line is off and has no slot, whether it
\* was attached or not.
THEOREM DetachTurnsOff == Spec => DetachedIsOff
<1>1. ASSUME IInv, [Next]_vars
      PROVE  [(pc \in {"d_find", "d_count"} /\ pc' = "idle")
                => line \notin intEnabled' /\ \A s \in 0 .. nints' - 1 : ISRlist'[s] # line]_vars
  <2> SUFFICES ASSUME Next, pc \in {"d_find", "d_count"}, pc' = "idle"
               PROVE  line \notin intEnabled' /\ \A s \in 0 .. nints' - 1 : ISRlist'[s] # line
    BY <1>1
  <2>1. DetachFind \/ DetachCount
    BY DEF Next, CallAttach, CallDetach, AttachStep, AttachFind, AttachCount, AttachList,
           AttachCallback, AttachSense, AttachEnable, DetachStep, DetachDisable, DetachList,
           DetachCallback, IrqEnter, HandlerStep, ScanSkip, ScanCall, ClearFlag, ScanEnd, Edge, At
  <2>2. CASE DetachFind
    <3>1. pc = "d_find" /\ nints = Size /\ Listed
      BY <1>1, <2>2 DEF IInv, DetachFind, At, SettledInv, Shifting
    <3>2. SlotOf(line) = nints
      BY <2>2 DEF DetachFind, ShiftFrom
    <3>3. SlotOf(line) = IF InUse(line) THEN PlaceOf(line) - 1 ELSE nints
      BY <1>1, <3>1, SlotFound DEF IInv
    <3>4. ~InUse(line)
      BY <1>1, <3>1, <3>2, <3>3, PlaceFound, SizeType DEF IInv
    <3>5. line \notin intEnabled
      BY <1>1, <3>4 DEF IInv, EnabledInv
    <3>6. \A s \in 0 .. nints - 1 : ISRlist[s] # line
      BY <1>1, <3>1, <3>4, SizeType DEF IInv, Listed, LineIn, InUse
    <3> QED
      BY <2>2, <3>5, <3>6 DEF DetachFind
  <2>3. CASE DetachCount
    <3>1. /\ pc = "d_count" /\ InUse(line) /\ nints = Size /\ current = Size - 1
          /\ LinesMoved(current)
      BY <1>1, <2>3 DEF IInv, DetachCount, At, DetachInv, Shifting
    <3>2. \A k \in 1 .. Size : attached[k].line = line => k = PlaceOf(line)
      BY <1>1, <3>1, PlaceFound DEF IInv
    <3>3. PlaceOf(line) \in 1 .. Size /\ Size \in Nat
      BY <1>1, <3>1, PlaceFound, SizeType DEF IInv
    <3>4. ASSUME NEW s \in 0 .. Size - 2 PROVE ISRlist[s] # line
      <4>1. CASE s >= PlaceOf(line) - 1
        <5>1. ISRlist[s] = attached[s + 2].line /\ s + 2 \in 1 .. Size /\ s + 2 # PlaceOf(line)
          BY <3>1, <3>3, <4>1 DEF LinesMoved
        <5> QED
          BY <3>2, <5>1
      <4>2. CASE s < PlaceOf(line) - 1
        <5>1. ISRlist[s] = attached[s + 1].line /\ s + 1 \in 1 .. Size /\ s + 1 # PlaceOf(line)
          BY <3>1, <3>3, <4>2 DEF LinesMoved, LineIn
        <5> QED
          BY <3>2, <5>1
      <4> QED
        BY <3>3, <4>1, <4>2
    <3>5. line \notin intEnabled
      BY <1>1, <3>1 DEF IInv, EnabledInv, Shifting
    <3>6. nints' = Size - 1 /\ UNCHANGED <<ISRlist, intEnabled>>
      BY <2>3, <3>1 DEF DetachCount
    <3> QED
      BY <3>3, <3>4, <3>5, <3>6
  <2> QED
    BY <2>1, <2>2, <2>3
<1> QED
  BY <1>1, Invariance, PTL DEF Spec, DetachedIsOff

-----------------------------------------------------------------------------
(* SPI transactions *)

USE DEF spiClass, users, eicButEnabled

LEMMA SpiTypesStep == SpiTypeOK /\ [SpiNext]_spiVars => SpiTypeOK'
<1> SUFFICES ASSUME SpiTypeOK, [SpiNext]_spiVars PROVE SpiTypeOK'
  OBVIOUS
<1> USE DEF SpiTypeOK
<1>1. CASE Eic
  BY <1>1 DEF Eic
<1>2. CASE Begin \/ End \/ UsingOther \/ NoInterrupts \/ Interrupts
  BY <1>2 DEF Begin, End, UsingOther, NoInterrupts, Interrupts
<1>3. ASSUME NEW l \in Lines, UsingInterrupt(l) \/ NotUsingInterrupt(l) PROVE SpiTypeOK'
  BY <1>3 DEF UsingInterrupt, NotUsingInterrupt, ModeWith
<1>4. CASE BeginSave \/ BeginGlobal \/ BeginLines \/ EndTransaction
  BY <1>4 DEF BeginSave, BeginGlobal, BeginLines, EndTransaction, Saved, Restored
<1>5. CASE CallbackBegin \/ CallbackEnd
  BY <1>5 DEF CallbackBegin, CallbackEnd, Saved, Restored
<1>6. CASE UNCHANGED spiVars
  BY <1>6 DEF spiVars
<1> QED
  BY <1>1, <1>2, <1>3, <1>4, <1>5, <1>6 DEF SpiNext

\* Every variable of SPIClass keeps its type, and a mask that is not empty has
\* a mode.
THEOREM SpiTypeCorrect == SpiSpec => []SpiTypeOK
<1>1. SpiInit => SpiTypeOK
  BY DEF SpiInit, SpiTypeOK
<1> QED
  BY <1>1, SpiTypesStep, PTL DEF SpiSpec

(***************************************************************************)
(* PRIMASK.  A transaction of the thread and one of a callback share       *)
(* interruptSave: the handler runs only when interrupts are on, so that a  *)
(* callback that comes between beginTransaction's two statements saves     *)
(* what the thread has saved.                                              *)
(***************************************************************************)
CallbackSave ==
    /\ irq # "off" => (primask <=> inCallback /\ Global)
    /\ inCallback => irq = "clear" /\ (Global => interruptSave)

ThreadSave ==
    bus # "free" => /\ pc = "idle"
                    /\ irq # "off" => ~before
                    /\ Global => (interruptSave <=> ~before)

BusSave ==
    /\ bus = "saved" => Global /\ (irq = "off" => (primask <=> before))
    /\ bus = "taken" /\ Global => primask /\ irq = "off"
    /\ bus = "taken" /\ ~Global /\ irq = "off" => (primask <=> before)

SaveInv == CallbackSave /\ ThreadSave /\ BusSave

LEMMA SaveInvStep == SpiTypeOK /\ SaveInv /\ [SpiNext]_spiVars => SaveInv'
<1> SUFFICES ASSUME SpiTypeOK, SaveInv, [SpiNext]_spiVars PROVE SaveInv'
  OBVIOUS
<1> USE DEF SpiTypeOK, SaveInv, CallbackSave, ThreadSave, BusSave, Global
<1>1. CASE (Attach \/ Detach) /\ UNCHANGED <<spiClass, primask, users>>
  BY <1>1 DEF Attach, Detach, CallAttach, CallDetach, At
<1>2. CASE (AttachStep \/ DetachStep \/ Edge) /\ UNCHANGED <<spiClass, primask, users>>
  <2>1. UNCHANGED handler /\ (bus # "free" => UNCHANGED pc)
    BY <1>2
       DEF AttachStep, DetachStep, Edge, AttachFind, AttachCount, AttachList, AttachCallback,
           AttachSense, AttachEnable, DetachDisable, DetachFind, DetachList, DetachCallback,
           DetachCount, At
  <2> QED
    BY <1>2, <2>1
<1>3. CASE Enter /\ UNCHANGED <<spiClass, primask, users>>
  BY <1>3 DEF Enter, IrqEnter
<1>4. CASE HandlerGoesOn /\ UNCHANGED <<spiClass, primask, users>>
  <2>1. irq # "off" /\ ~inCallback /\ UNCHANGED pc
    BY <1>4 DEF HandlerGoesOn, HandlerStep, ScanSkip, ScanCall, ClearFlag, ScanEnd
  <2> QED
    BY <1>4, <2>1
<1>5. CASE Begin \/ End \/ UsingOther \/ NoInterrupts \/ Interrupts
  BY <1>5 DEF Begin, End, UsingOther, NoInterrupts, Interrupts, Idle, At, vars
<1>6. ASSUME NEW l \in Lines, UsingInterrupt(l) \/ NotUsingInterrupt(l) PROVE SaveInv'
  BY <1>6 DEF UsingInterrupt, NotUsingInterrupt, ModeWith, Idle, At, vars
<1>7. CASE BeginSave
  BY <1>7 DEF BeginSave, Saved, Idle, At, vars
<1>8. CASE BeginGlobal
  BY <1>8 DEF BeginGlobal, At, vars
<1>9. CASE BeginLines
  BY <1>9 DEF BeginLines, Idle, At
<1>10. CASE EndTransaction
  BY <1>10 DEF EndTransaction, Restored, At
<1>11. CASE CallbackBegin
  BY <1>11 DEF CallbackBegin, InSpiCallback, Saved
<1>12. CASE CallbackEnd
  BY <1>12 DEF CallbackEnd, Restored
<1>13. CASE UNCHANGED spiVars
  BY <1>13 DEF spiVars, vars
<1> QED
  BY <1>1, <1>2, <1>3, <1>4, <1>5, <1>6, <1>7, <1>8, <1>9, <1>10, <1>11, <1>12, <1>13
     DEF SpiNext, Eic

LEMMA SaveAlways == SpiSpec => []SaveInv
<1>1. SpiInit => SaveInv
  BY DEF SpiInit, Init, SaveInv, CallbackSave, ThreadSave, BusSave
<1> QED
  BY <1>1, SpiTypeCorrect, SaveInvStep, PTL DEF SpiSpec

\* endTransaction leaves PRIMASK as beginTransaction found it, whatever
\* transactions the callbacks have ended in between: in every sketch, careful
\* or not.
THEOREM PrimaskRestored == SpiSpec => MaskRestored
<1>1. ASSUME SpiTypeOK, SaveInv, [SpiNext]_spiVars
      PROVE  [bus = "taken" /\ bus' = "free" => primask' = before]_spiVars
  <2> SUFFICES ASSUME SpiNext, bus = "taken", bus' = "free" PROVE primask' = before
    BY <1>1
  <2>1. EndTransaction
    BY DEF SpiNext, Eic, Begin, End, UsingOther, UsingInterrupt, NotUsingInterrupt, BeginSave,
           BeginGlobal, BeginLines, NoInterrupts, Interrupts, CallbackBegin, CallbackEnd
  <2>2. primask' = before
    BY <1>1, <2>1
       DEF EndTransaction, Restored, SpiTypeOK, SaveInv, CallbackSave, ThreadSave, BusSave,
           At
  <2> QED
    BY <2>2
<1> QED
  BY <1>1, SpiTypeCorrect, SaveAlways, PTL DEF SpiSpec, MaskRestored

(***************************************************************************)
(* The lists under transactions.  If the sketch is careful, a registered   *)
(* line is attached and not being detached, so that what a transaction     *)
(* enables again is in the list: the invariant of ExtInterrupts holds here *)
(* too, and with it what has been proved from it.                          *)
(***************************************************************************)
MaskedInv == \A l \in interruptMask : InUse(l) /\ (pc \in Detaching => l # line)

CarefulInv == SpiTypeOK /\ IInv /\ MaskedInv

\* A step of ExtInterrupts keeps what is registered attached.
LEMMA EicMasked ==
    ASSUME Careful, IInv, MaskedInv, Eic
    PROVE  MaskedInv'
<1> SUFFICES ASSUME NEW l \in interruptMask
             PROVE  InUse(l)' /\ (pc' \in Detaching => l # line')
  BY DEF Eic, MaskedInv
<1>a. InUse(l) /\ (pc \in Detaching => l # line)
  BY DEF MaskedInv
<1> USE DEF Detaching, Shifting
<1>1. CASE Attach
  BY <1>a, <1>1 DEF Attach, CallAttach, InUse
<1>2. CASE Detach
  BY <1>a, <1>2 DEF Detach, CallDetach, InUse
<1>3. CASE AttachCallback
  BY <1>a, <1>3, AttachKeeps DEF AttachCallback, Goto
<1>4. CASE AttachFind \/ AttachCount \/ AttachList \/ AttachSense \/ AttachEnable
  BY <1>a, <1>4
     DEF AttachFind, AttachCount, AttachList, AttachSense, AttachEnable, Goto, Return, InUse
<1>5. CASE DetachCount
  BY <1>a, <1>5, DetachKeeps DEF DetachCount, Return, At
<1>6. CASE DetachDisable \/ DetachFind \/ DetachList \/ DetachCallback
  BY <1>a, <1>6
     DEF DetachDisable, DetachFind, DetachList, DetachCallback, ShiftFrom, Goto, Return, InUse, At
<1>7. CASE Enter \/ HandlerGoesOn \/ Edge
  BY <1>a, <1>7
     DEF Enter, IrqEnter, HandlerGoesOn, HandlerStep, ScanSkip, ScanCall, ClearFlag, ScanEnd, Edge,
         InUse
<1> QED
  BY <1>1, <1>2, <1>3, <1>4, <1>5, <1>6, <1>7 DEF Eic, AttachStep, DetachStep

\* Masking lines, or enabling those that are registered.
LEMMA EnabledChanges ==
    ASSUME CarefulInv, UNCHANGED eicButEnabled, UNCHANGED interruptMask,
           intEnabled' \subseteq intEnabled \cup interruptMask
    PROVE  IInv' /\ MaskedInv'
<1>1. MaskedInv'
  BY DEF CarefulInv, MaskedInv, InUse
<1>2. TypeOK'
  BY DEF CarefulInv, SpiTypeOK, IInv, TypeOK
<1>3. Distinct' /\ CallInv' /\ SettledInv' /\ ScanInv'
  BY DEF CarefulInv, IInv, Distinct, CallInv, SettledInv, ScanInv, Size, Listed, LineIn,
         CallbackIn
<1>4. AttachInv' /\ DetachInv'
  BY DEF CarefulInv, IInv, AttachInv, DetachInv, Size, InUse, PlaceOf, LinesMoved,
         CallbacksMoved, LineIn, CallbackIn
<1>5. EnabledInv'
  BY DEF CarefulInv, IInv, EnabledInv, MaskedInv, InUse, Detaching
<1> QED
  BY <1>1, <1>2, <1>3, <1>4, <1>5 DEF IInv

LEMMA CarefulStep == Careful /\ CarefulInv /\ [SpiNext]_spiVars => CarefulInv'
<1> SUFFICES ASSUME Careful, CarefulInv, [SpiNext]_spiVars PROVE CarefulInv'
  OBVIOUS
<1>a. SpiTypeOK'
  BY SpiTypesStep DEF CarefulInv
<1>b. ASSUME UNCHANGED vars PROVE IInv' /\ (interruptMask' \subseteq interruptMask => MaskedInv')
  <2>1. IInv'
    BY <1>b, StepIInv DEF CarefulInv
  <2>2. interruptMask' \subseteq interruptMask => MaskedInv'
    BY <1>b DEF CarefulInv, MaskedInv, InUse, vars
  <2> QED
    BY <2>1, <2>2
<1>1. CASE Eic
  <2>1. [Next]_vars
    BY <1>1 DEF Eic, Attach, Detach, Enter, HandlerGoesOn, Next
  <2> QED
    BY <1>1, <1>a, <2>1, StepIInv, EicMasked DEF CarefulInv
<1>2. CASE Begin \/ End \/ UsingOther \/ NoInterrupts \/ Interrupts \/ UNCHANGED spiVars
  BY <1>2, <1>a, <1>b
     DEF CarefulInv, Begin, End, UsingOther, NoInterrupts, Interrupts, spiVars
<1>3. ASSUME NEW l \in Lines, NotUsingInterrupt(l) PROVE CarefulInv'
  BY <1>3, <1>a, <1>b DEF CarefulInv, NotUsingInterrupt
<1>4. ASSUME NEW l \in Lines, UsingInterrupt(l) PROVE CarefulInv'
  <2>1. UNCHANGED vars /\ pc = "idle" /\ InUse(l) /\ interruptMask' = interruptMask \cup {l}
    BY <1>4 DEF UsingInterrupt, Idle, At
  <2>2. MaskedInv'
    BY <2>1 DEF CarefulInv, MaskedInv, InUse, vars, Detaching, Shifting
  <2> QED
    BY <1>a, <1>b, <2>1, <2>2 DEF CarefulInv
<1>5. CASE BeginSave \/ BeginGlobal
  BY <1>5, <1>a, <1>b DEF CarefulInv, BeginSave, BeginGlobal
<1>6. CASE BeginLines \/ CallbackBegin
  BY <1>6, <1>a, EnabledChanges DEF CarefulInv, BeginLines, CallbackBegin, DisableLines
<1>7. CASE EndTransaction \/ CallbackEnd
  BY <1>7, <1>a, EnabledChanges DEF CarefulInv, EndTransaction, CallbackEnd, EnableLines
<1> QED
  BY <1>1, <1>2, <1>3, <1>4, <1>5, <1>6, <1>7 DEF SpiNext

LEMMA CarefulAlways ==
    ASSUME Careful
    PROVE  SpiSpec => []CarefulInv
<1>1. SpiInit => CarefulInv
  BY InitIInv DEF SpiInit, CarefulInv, SpiTypeOK, MaskedInv
<1>2. CarefulInv /\ [SpiNext]_spiVars => CarefulInv'
  BY CarefulStep
<1> QED
  BY <1>1, <1>2, PTL DEF SpiSpec

\* Whatever enters EIC_Handler has a slot, so that the handler serves it: what
\* detachInterrupt promises ("Turns off the given interrupt") holds under
\* transactions too if the sketch is careful.
THEOREM EntryAlwaysServes ==
    ASSUME Careful
    PROVE  SpiSpec => []EntryServes
<1>1. CarefulInv => EntryServes
  <2>1. IInv => EnabledListed
    BY ListedInv
  <2> QED
    BY <2>1 DEF CarefulInv, EntryServes, EnabledListed
<1> QED
  BY <1>1, CarefulAlways, PTL

(***************************************************************************)
(* Exclusion.  During a transaction of the thread no interrupt is taken:   *)
(* they are all masked, or no line is enabled.  The second needs every     *)
(* attached line to be registered, and not only those whose callbacks use  *)
(* SPI: EIC_Handler serves a masked line whose flag is set when another    *)
(* line brings it in.                                                      *)
(***************************************************************************)
RegistersAll ==
    [][bus = "free" /\ bus' = "taken" => \A l \in Lines : InUse(l) => l \in interruptMask]_spiVars

QuietInv == bus = "taken" => irq = "off" /\ (primask \/ intEnabled = {})

LEMMA QuietStep ==
    /\ CarefulInv /\ SaveInv /\ QuietInv /\ [SpiNext]_spiVars
    /\ [bus = "free" /\ bus' = "taken" => \A l \in Lines : InUse(l) => l \in interruptMask]_spiVars
    => QuietInv'
<1> SUFFICES ASSUME CarefulInv, SaveInv, QuietInv, [SpiNext]_spiVars, bus' = "taken",
                    bus = "free" /\ spiVars' # spiVars =>
                        \A l \in Lines : InUse(l) => l \in interruptMask
             PROVE  irq' = "off" /\ (primask' \/ intEnabled' = {})
  BY DEF QuietInv, spiVars, users
<1> USE DEF QuietInv
<1>1. CASE Eic
  <2>1. bus = "taken" /\ pc = "idle" /\ irq = "off" /\ (primask \/ intEnabled = {})
    BY <1>1 DEF Eic, SaveInv, ThreadSave
  <2>2. Edge
    BY <1>1, <2>1
       DEF Eic, Attach, Detach, AttachStep, DetachStep, AttachFind, AttachCount, AttachList,
           AttachCallback, AttachSense, AttachEnable, DetachDisable, DetachFind, DetachList,
           DetachCallback, DetachCount, At, Enter, IrqEnter, HandlerGoesOn, HandlerStep, ScanSkip,
           ScanCall, ClearFlag, ScanEnd
  <2> QED
    BY <1>1, <2>1, <2>2 DEF Eic, Edge
<1>2. CASE BeginGlobal
  BY <1>2 DEF BeginGlobal, At, vars
<1>3. CASE BeginLines
  <2>1. /\ irq = "off" /\ bus = "free" /\ ~Global /\ UNCHANGED irq /\ DisableLines
        /\ pc = "idle"
    BY <1>3 DEF BeginLines, Idle, At
  <2>2. \A l \in Lines : InUse(l) => l \in interruptMask
    BY <2>1, <1>3 DEF spiVars, users
  <2>3. intEnabled \subseteq interruptMask
    BY <2>2 DEF CarefulInv, IInv, TypeOK, EnabledInv
  <2>4. interruptMode = {} \/ interruptMode = {"EXTINT"}
    BY <2>1 DEF CarefulInv, SpiTypeOK, Global
  <2>5. intEnabled' = {}
    BY <2>1, <2>3, <2>4 DEF DisableLines, CarefulInv, SpiTypeOK
  <2> QED
    BY <2>1, <2>5
<1>4. CASE Begin \/ End \/ UsingOther \/ NoInterrupts \/ Interrupts \/ BeginSave \/ EndTransaction
  BY <1>4 DEF Begin, End, UsingOther, NoInterrupts, Interrupts, BeginSave, EndTransaction, Idle
<1>5. ASSUME NEW l \in Lines, UsingInterrupt(l) \/ NotUsingInterrupt(l)
      PROVE  irq' = "off" /\ (primask' \/ intEnabled' = {})
  BY <1>5 DEF UsingInterrupt, NotUsingInterrupt, Idle
<1>6. CASE CallbackBegin \/ CallbackEnd
  BY <1>6 DEF CallbackBegin, CallbackEnd, InSpiCallback, SaveInv, CallbackSave
<1>7. CASE UNCHANGED spiVars
  BY <1>7 DEF spiVars, vars
<1> QED
  BY <1>1, <1>2, <1>3, <1>4, <1>5, <1>6, <1>7 DEF SpiNext

\* No callback begins a transaction in the middle of the thread's, if the
\* sketch registers every attached line before it begins one, after attaching
\* it, and unregisters it before detaching it.
THEOREM OneUserOfTheBus ==
    ASSUME Careful
    PROVE  SpiSpec /\ RegistersAll => []Exclusive
<1>1. SpiInit => QuietInv
  BY DEF SpiInit, QuietInv
<1>2. SaveInv /\ QuietInv => Exclusive
  BY DEF SaveInv, CallbackSave, QuietInv, Exclusive
<1> QED
  BY <1>1, <1>2, QuietStep, SaveAlways, CarefulAlways, PTL DEF SpiSpec, RegistersAll

\* The same when every line has a callback that uses SPI, with no more asked
\* than what the library asks (usingInterrupt for those lines).
THEOREM SpiCallbacksExcluded ==
    ASSUME Careful, SpiLines = Lines
    PROVE  SpiSpec => []Exclusive
<1>1. SpiSpec => RegistersAll
  <2>1. [SpiNext]_spiVars =>
           [bus = "free" /\ bus' = "taken" =>
               \A l \in Lines : InUse(l) => l \in interruptMask]_spiVars
    <3> SUFFICES ASSUME SpiNext, bus = "free", bus' = "taken"
                 PROVE  \A l \in Lines : InUse(l) => l \in interruptMask
      OBVIOUS
    <3>1. BeginLines
      BY DEF SpiNext, Eic, Begin, End, UsingOther, UsingInterrupt, NotUsingInterrupt, BeginSave,
             BeginGlobal, EndTransaction, NoInterrupts, Interrupts, CallbackBegin, CallbackEnd
    <3> QED
      BY <3>1 DEF BeginLines, AllRegistered
  <2> QED
    BY <2>1, PTL DEF SpiSpec, RegistersAll
<1> QED
  BY <1>1, OneUserOfTheBus, PTL
=============================================================================

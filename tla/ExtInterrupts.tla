---------------------------- MODULE ExtInterrupts -----------------------------
(***************************************************************************)
(* attachInterrupt, detachInterrupt and EIC_Handler of WInterrupts.c (the  *)
(* SAMD21 build): a list of the attached external interrupt lines and a    *)
(* list of their callbacks, which the thread edits one store at a time     *)
(* while the handler, at the highest priority, scans them.  A line senses  *)
(* edges; INTFLAG is set by an edge whether or not the line is enabled.    *)
(***************************************************************************)
EXTENDS Integers, FiniteSets, Sequences

CONSTANTS
    Lines,       \* the external interrupt lines
    Callbacks,   \* the functions a sketch attaches
    NoLine,      \* an empty slot of ISRlist
    NULL,        \* an empty slot of ISRcallback
    NumSlots     \* EXTERNAL_NUM_INTERRUPTS

ASSUME EicAssumption ==
    /\ IsFiniteSet(Lines) /\ NumSlots \in Nat /\ NumSlots >= Cardinality(Lines)
    /\ NoLine \notin Lines /\ NULL \notin Callbacks

Slots == 0 .. NumSlots - 1

VARIABLES
    ISRlist, ISRcallback, nints,   \* the lists and their length
    intEnabled,   \* INTENSET: the lines that interrupt
    intFlag,      \* INTFLAG: the lines with a pending edge
    sense,        \* CONFIG: the lines with a sense mode
    pc,           \* where the thread is
    line, callback,   \* arguments of its call
    current,      \* its local index
    irq,          \* where EIC_Handler is
    i,            \* its local index
    attached      \* what the sketch attached, oldest first

lists == <<ISRlist, ISRcallback, nints>>
eic == <<intEnabled, intFlag, sense>>
thread == <<pc, line, callback, current>>
handler == <<irq, i>>
vars == <<lists, eic, thread, handler, attached>>

Attachment == [line : Lines, callback : Callbacks]

TypeOK ==
    /\ ISRlist \in [Slots -> Lines \cup {NoLine}]
    /\ ISRcallback \in [Slots -> Callbacks \cup {NULL}]
    /\ nints \in 0 .. NumSlots
    /\ intEnabled \in SUBSET Lines /\ intFlag \in SUBSET Lines /\ sense \in SUBSET Lines
    /\ pc \in {"idle", "a_find", "a_count", "a_list", "a_callback", "a_sense", "a_enable",
               "d_disable", "d_find", "d_list", "d_callback", "d_count"}
    /\ line \in Lines \cup {NoLine} /\ callback \in Callbacks \cup {NULL}
    /\ current \in 0 .. NumSlots
    /\ irq \in {"off", "scan", "clear"} /\ i \in 0 .. NumSlots
    /\ attached \in Seq(Attachment)

Init ==
    /\ ISRlist = [s \in Slots |-> NoLine] /\ ISRcallback = [s \in Slots |-> NULL] /\ nints = 0
    /\ intEnabled = {} /\ intFlag = {} /\ sense = {}
    /\ pc = "idle" /\ line = NoLine /\ callback = NULL /\ current = 0
    /\ irq = "off" /\ i = 0
    /\ attached = <<>>

-----------------------------------------------------------------------------
(* The thread *)

\* The handler preempts the thread between any two of its steps.
At(l) == irq = "off" /\ pc = l
Goto(l) == pc' = l /\ UNCHANGED <<line, callback, current>>

\* The slot of line l, or nints when there is none.
SlotOf(l) == IF \E s \in 0 .. nints - 1 : ISRlist[s] = l
             THEN CHOOSE s \in 0 .. nints - 1 : /\ ISRlist[s] = l
                                                /\ \A t \in 0 .. s - 1 : ISRlist[t] # l
             ELSE nints

CallAttach ==
    /\ At("idle")
    /\ line' \in Lines /\ callback' \in Callbacks
    /\ pc' = "a_find" /\ current' = 0
    /\ UNCHANGED <<lists, eic, handler, attached>>

CallDetach ==
    /\ At("idle")
    /\ line' \in Lines
    /\ pc' = "d_disable" /\ callback' = NULL /\ current' = 0
    /\ UNCHANGED <<lists, eic, handler, attached>>

AttachFind ==
    /\ At("a_find")
    /\ current' = SlotOf(line)
    /\ pc' = IF SlotOf(line) = nints THEN "a_count" ELSE "a_list"
    /\ UNCHANGED <<lists, eic, line, callback, handler, attached>>

\* The list is longer before the new slot is written.
AttachCount ==
    /\ At("a_count")
    /\ nints' = nints + 1
    /\ Goto("a_list")
    /\ UNCHANGED <<ISRlist, ISRcallback, eic, handler, attached>>

AttachList ==
    /\ At("a_list")
    /\ ISRlist' = [ISRlist EXCEPT ![current] = line]
    /\ Goto("a_callback")
    /\ UNCHANGED <<ISRcallback, nints, eic, handler, attached>>

InUse(l) == \E k \in DOMAIN attached : attached[k].line = l
PlaceOf(l) == CHOOSE k \in DOMAIN attached : attached[k].line = l

\* The sketch's order of attachment: a line attached again keeps its turn.
Reattached(l, cb) ==
    IF InUse(l)
    THEN [k \in DOMAIN attached |->
             IF attached[k].line = l THEN [attached[k] EXCEPT !.callback = cb] ELSE attached[k]]
    ELSE Append(attached, [line |-> l, callback |-> cb])

AttachCallback ==
    /\ At("a_callback")
    /\ ISRcallback' = [ISRcallback EXCEPT ![current] = callback]
    /\ attached' = Reattached(line, callback)
    /\ Goto("a_sense")
    /\ UNCHANGED <<ISRlist, nints, eic, handler>>

AttachSense ==
    /\ At("a_sense")
    /\ sense' = sense \cup {line}
    /\ Goto("a_enable")
    /\ UNCHANGED <<lists, intEnabled, intFlag, handler, attached>>

\* The call returns and its locals are gone.
Return == pc' = "idle" /\ line' = NoLine /\ callback' = NULL /\ current' = 0

\* INTENSET; a flag set before is left set.
AttachEnable ==
    /\ At("a_enable")
    /\ intEnabled' = intEnabled \cup {line}
    /\ Return
    /\ UNCHANGED <<lists, intFlag, sense, handler, attached>>

AttachStep == \/ AttachFind \/ AttachCount \/ AttachList \/ AttachCallback
              \/ AttachSense \/ AttachEnable

\* INTENCLR; the line keeps its sense mode.
DetachDisable ==
    /\ At("d_disable")
    /\ intEnabled' = intEnabled \ {line}
    /\ Goto("d_find")
    /\ UNCHANGED <<lists, intFlag, sense, handler, attached>>

\* Mutant: the loop ends one slot early.
ShiftFromShort(s) == current' = s /\ pc' = IF s < nints - 2 THEN "d_list" ELSE "d_count"

\* The next turn of the loop that shifts the remainder down, or its end.
ShiftFrom(s) == current' = s /\ pc' = IF s < nints - 1 THEN "d_list" ELSE "d_count"

DetachFind ==
    /\ At("d_find")
    /\ IF SlotOf(line) = nints
       THEN Return
       ELSE ShiftFrom(SlotOf(line)) /\ UNCHANGED <<line, callback>>
    /\ UNCHANGED <<lists, eic, handler, attached>>

DetachList ==
    /\ At("d_list")
    /\ ISRlist' = [ISRlist EXCEPT ![current] = ISRlist[current + 1]]
    /\ Goto("d_callback")
    /\ UNCHANGED <<ISRcallback, nints, eic, handler, attached>>

\* Mutant: the lines move down and the callbacks stay.
DetachCallbackDropped ==
    /\ At("d_callback")
    /\ ShiftFrom(current + 1)
    /\ UNCHANGED <<lists, eic, line, callback, handler, attached>>

DetachCallback ==
    /\ At("d_callback")
    /\ ISRcallback' = [ISRcallback EXCEPT ![current] = ISRcallback[current + 1]]
    /\ ShiftFrom(current + 1)
    /\ UNCHANGED <<ISRlist, nints, eic, line, callback, handler, attached>>

\* The sketch's order without the line: those behind it move up.
Detached(l) == [k \in 1 .. Len(attached) - 1 |-> attached[IF k < PlaceOf(l) THEN k ELSE k + 1]]

\* The last slot is given up and keeps what it held.
DetachCount ==
    /\ At("d_count")
    /\ nints' = nints - 1
    /\ attached' = Detached(line)
    /\ Return
    /\ UNCHANGED <<ISRlist, ISRcallback, eic, handler>>

DetachStep == DetachDisable \/ DetachFind \/ DetachList \/ DetachCallback \/ DetachCount

-----------------------------------------------------------------------------
(* EIC_Handler *)

IrqEnter ==
    /\ irq = "off" /\ intEnabled \cap intFlag # {}
    /\ irq' = "scan" /\ i' = 0
    /\ UNCHANGED <<lists, eic, thread, attached>>

Flagged(s) == ISRlist[s] \in intFlag

ScanSkip ==
    /\ irq = "scan" /\ i < nints /\ ~Flagged(i)
    /\ i' = i + 1
    /\ UNCHANGED <<lists, eic, thread, irq, attached>>

\* The callback of the slot is called; its flag is cleared when it returns.
ScanCall ==
    /\ irq = "scan" /\ i < nints /\ Flagged(i)
    /\ irq' = "clear"
    /\ UNCHANGED <<lists, eic, thread, i, attached>>

ClearFlag ==
    /\ irq = "clear"
    /\ intFlag' = intFlag \ {ISRlist[i]}
    /\ irq' = "scan" /\ i' = i + 1
    /\ UNCHANGED <<lists, intEnabled, sense, thread, attached>>

\* Mutant: the scan ends before the last slot.
ScanEndEarly ==
    /\ irq = "scan" /\ i >= nints - 1
    /\ irq' = "off" /\ i' = 0
    /\ UNCHANGED <<lists, eic, thread, attached>>

ScanEnd ==
    /\ irq = "scan" /\ i >= nints
    /\ irq' = "off" /\ i' = 0
    /\ UNCHANGED <<lists, eic, thread, attached>>

HandlerStep == ScanSkip \/ ScanCall \/ ClearFlag \/ ScanEnd

\* A pin with a sense mode sees an edge.
Edge ==
    /\ \E l \in sense \ intFlag : intFlag' = intFlag \cup {l}
    /\ UNCHANGED <<lists, intEnabled, sense, thread, handler, attached>>

-----------------------------------------------------------------------------

Next == CallAttach \/ CallDetach \/ AttachStep \/ DetachStep \/ IrqEnter \/ HandlerStep \/ Edge

Spec == Init /\ [][Next]_vars

\* The NVIC takes the pending interrupt and the handler runs to its end.
Fairness == WF_vars(IrqEnter) /\ WF_vars(HandlerStep)

FairSpec == Spec /\ Fairness

-----------------------------------------------------------------------------
(* Properties *)

\* "Store interrupts to service in order of when they were attached": between
\* calls the two lists hold what the sketch attached, each line once, in the
\* order of attachment, each with the callback attached last.
InOrderOfAttachment ==
    pc = "idle" => /\ nints = Len(attached)
                   /\ \A k \in DOMAIN attached : /\ ISRlist[k - 1] = attached[k].line
                                                 /\ ISRcallback[k - 1] = attached[k].callback

\* A line that can interrupt is in the list, at every point of attachInterrupt
\* and detachInterrupt where the handler may run: otherwise the handler would
\* leave its flag set and be entered again for ever.
EnabledListed == \A l \in intEnabled : \E s \in 0 .. nints - 1 : ISRlist[s] = l

\* A pending line that stays enabled is served, however the list is edited
\* between two runs of the handler and whatever other lines do.
Served ==
    \A l \in Lines :
        (l \in intFlag /\ l \in intEnabled)
            ~> ((irq = "clear" /\ ISRlist[i] = l) \/ l \notin intEnabled)

\* A detached line is off when detachInterrupt returns: it is not enabled and
\* has no slot.
DetachedIsOff ==
    [][(pc \in {"d_find", "d_count"} /\ pc' = "idle")
          => line \notin intEnabled' /\ \A s \in 0 .. nints' - 1 : ISRlist'[s] # line]_vars

\* The handler is about to call the callback of slot i.
Calling == irq = "scan" /\ i < nints /\ Flagged(i)

\* "we also don't need to check it inside the ISR": the callback the handler
\* calls is not NULL.
NeverCallsNull == Calling => ISRcallback[i] # NULL

\* "Specifies a named Interrupt Service Routine (ISR) to call when an interrupt
\* occurs": a line that is attached, while no attachInterrupt is under way, is
\* served by the callback attached to it.
CallsOwn ==
    Calling /\ pc \in {"idle", "d_disable", "d_find", "d_list", "d_callback", "d_count"} =>
        \A k \in DOMAIN attached :
            attached[k].line = ISRlist[i] => ISRcallback[i] = attached[k].callback
=============================================================================

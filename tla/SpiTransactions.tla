--------------------------- MODULE SpiTransactions ----------------------------
(***************************************************************************)
(* SPI transactions (SPIClass, libraries/SPI/SPI.cpp) on top of the        *)
(* external interrupts: the sketch and the callbacks of some lines share   *)
(* the bus.  beginTransaction masks the lines told to usingInterrupt() in  *)
(* INTENCLR, or all interrupts, and endTransaction undoes it.  Every step  *)
(* of attachInterrupt, detachInterrupt and EIC_Handler is that of          *)
(* ExtInterrupts.                                                          *)
(* A sketch begins a transaction only when every attached line whose       *)
(* callback uses SPI is registered.                                        *)
(***************************************************************************)
EXTENDS ExtInterrupts

CONSTANTS
    SpiLines,   \* the lines whose callbacks use SPI
    Careful     \* the sketch registers a line after attaching it and calls
                \* notUsingInterrupt() before it detaches it

ASSUME SpiAssumption == SpiLines \subseteq Lines /\ Careful \in BOOLEAN

VARIABLES
    initialized, interruptMode, interruptMask, interruptSave,   \* SPIClass
    primask,   \* PRIMASK: the processor takes no interrupt
    bus,       \* where the thread is with its transaction
    before,    \* PRIMASK when the thread's transaction began
    inCallback \* the callback under way is inside a transaction

spiClass == <<initialized, interruptMode, interruptMask, interruptSave>>
users == <<bus, before, inCallback>>
spiVars == <<vars, spiClass, primask, users>>

SpiTypeOK ==
    /\ initialized \in BOOLEAN /\ interruptMode \subseteq {"EXTINT", "GLOBAL"}
    /\ interruptMask \subseteq Lines /\ interruptSave \in BOOLEAN
    /\ primask \in BOOLEAN /\ before \in BOOLEAN /\ inCallback \in BOOLEAN
    /\ bus \in {"free", "saved", "taken"}
    /\ interruptMode = {} => interruptMask = {}

SpiInit ==
    /\ Init
    /\ initialized = TRUE /\ interruptMode = {} /\ interruptMask = {} /\ interruptSave = FALSE
    /\ primask = FALSE /\ bus = "free" /\ before = FALSE /\ inCallback = FALSE

-----------------------------------------------------------------------------
(* What both users call.  A mode with GLOBAL in it masks all interrupts.   *)

Global == "GLOBAL" \in interruptMode

\* Mutant: the lines stay enabled.
DisableLinesNot == UNCHANGED intEnabled

DisableLines ==
    intEnabled' = IF interruptMode = {"EXTINT"} THEN intEnabled \ interruptMask ELSE intEnabled

\* Mutant: the lines stay disabled.
EnableLinesNot == UNCHANGED intEnabled

EnableLines ==
    intEnabled' = IF interruptMode = {"EXTINT"} THEN intEnabled \cup interruptMask ELSE intEnabled

\* Mutant: interrupts() whatever has been saved.
RestoredOn == IF Global THEN FALSE ELSE primask

Restored == IF Global /\ interruptSave THEN FALSE ELSE primask

eicButEnabled == <<lists, intFlag, sense, thread, handler, attached>>

-----------------------------------------------------------------------------
(* The thread *)

\* Between two calls, the handler not running.
Idle == At("idle") /\ bus = "free"

AllRegistered == Global \/ \A l \in SpiLines : InUse(l) => l \in interruptMask

\* begin(): what end() left is forgotten.
Begin ==
    /\ Idle /\ ~initialized
    /\ initialized' = TRUE /\ interruptMode' = {} /\ interruptMask' = {} /\ interruptSave' = FALSE
    /\ UNCHANGED <<vars, primask, users>>

End ==
    /\ Idle /\ initialized
    /\ initialized' = FALSE
    /\ UNCHANGED <<vars, interruptMode, interruptMask, interruptSave, primask, users>>

\* An external interrupt, or any other (which masks them all from now on).
UsingInterrupt(l) ==
    /\ Idle
    /\ Careful => InUse(l)
    /\ interruptMode' = interruptMode \cup {"EXTINT"}
    /\ interruptMask' = interruptMask \cup {l}
    /\ UNCHANGED <<vars, initialized, interruptSave, primask, users>>

UsingOther ==
    /\ Idle
    /\ interruptMode' = {"GLOBAL"}
    /\ UNCHANGED <<vars, initialized, interruptMask, interruptSave, primask, users>>

ModeWith(mask) == IF mask = {} THEN {} ELSE interruptMode

NotUsingInterrupt(l) ==
    /\ Idle /\ ~Global
    /\ interruptMask' = interruptMask \ {l}
    /\ interruptMode' = ModeWith(interruptMask \ {l})
    /\ UNCHANGED <<vars, initialized, interruptSave, primask, users>>

Saved == ~primask

BeginSave ==
    /\ Idle /\ initialized /\ Global
    /\ interruptSave' = Saved
    /\ before' = primask
    /\ bus' = "saved"
    /\ UNCHANGED <<vars, initialized, interruptMode, interruptMask, primask, inCallback>>

BeginGlobal ==
    /\ At("idle") /\ bus = "saved"
    /\ primask' = TRUE
    /\ bus' = "taken"
    /\ UNCHANGED <<vars, spiClass, before, inCallback>>

BeginLines ==
    /\ Idle /\ initialized /\ AllRegistered /\ ~Global
    /\ DisableLines
    /\ before' = primask
    /\ bus' = "taken"
    /\ UNCHANGED <<eicButEnabled, spiClass, primask, inCallback>>

EndTransaction ==
    /\ At("idle") /\ bus = "taken"
    /\ EnableLines
    /\ primask' = Restored
    /\ bus' = "free"
    /\ UNCHANGED <<eicButEnabled, spiClass, before, inCallback>>

\* noInterrupts() and interrupts(), outside a transaction.
NoInterrupts == Idle /\ ~primask /\ primask' = TRUE /\ UNCHANGED <<vars, spiClass, users>>
Interrupts == Idle /\ primask /\ primask' = FALSE /\ UNCHANGED <<vars, spiClass, users>>

-----------------------------------------------------------------------------
(* The callback that EIC_Handler has called; it may use the bus. *)

InSpiCallback == irq = "clear" /\ ISRlist[i] \in SpiLines /\ InUse(ISRlist[i])

CallbackBegin ==
    /\ InSpiCallback /\ initialized /\ ~inCallback
    /\ DisableLines
    /\ interruptSave' = IF Global THEN Saved ELSE interruptSave
    /\ primask' = (primask \/ Global)
    /\ inCallback' = TRUE
    /\ UNCHANGED <<eicButEnabled, initialized, interruptMode, interruptMask, bus, before>>

CallbackEnd ==
    /\ inCallback
    /\ EnableLines
    /\ primask' = Restored
    /\ inCallback' = FALSE
    /\ UNCHANGED <<eicButEnabled, spiClass, bus, before>>

-----------------------------------------------------------------------------
(* The steps of ExtInterrupts *)

Attach == bus = "free" /\ CallAttach
Detach == bus = "free" /\ CallDetach /\ (Careful => line' \notin interruptMask)
Enter == ~primask /\ IrqEnter
HandlerGoesOn == ~inCallback /\ HandlerStep

Eic == /\ \/ Attach \/ Detach \/ AttachStep \/ DetachStep
          \/ Enter \/ HandlerGoesOn \/ Edge
       /\ UNCHANGED <<spiClass, primask, users>>

SpiNext == \/ Eic
           \/ Begin \/ End \/ UsingOther
           \/ \E l \in Lines : UsingInterrupt(l) \/ NotUsingInterrupt(l)
           \/ BeginSave \/ BeginGlobal \/ BeginLines \/ EndTransaction
           \/ NoInterrupts \/ Interrupts
           \/ CallbackBegin \/ CallbackEnd

SpiSpec == SpiInit /\ [][SpiNext]_spiVars

\* The NVIC takes an interrupt that is enabled again and again, the handler
\* and its callbacks end, and interrupts leave the thread time to end what it
\* has begun: a call, a transaction, a masked section.
SpiFairness ==
    /\ SF_spiVars(Enter /\ UNCHANGED <<spiClass, primask, users>>)
    /\ SF_spiVars(HandlerGoesOn /\ UNCHANGED <<spiClass, primask, users>>)
    /\ WF_spiVars(CallbackEnd)
    /\ SF_spiVars((AttachStep \/ DetachStep) /\ UNCHANGED <<spiClass, primask, users>>)
    /\ SF_spiVars(BeginGlobal) /\ SF_spiVars(EndTransaction) /\ SF_spiVars(Interrupts)

SpiFairSpec == SpiSpec /\ SpiFairness

-----------------------------------------------------------------------------
(* Properties *)

\* The bus has one user: no callback begins a transaction in the middle of
\* the thread's.
Exclusive == ~(bus = "taken" /\ inCallback)

\* endTransaction leaves PRIMASK as beginTransaction found it, although the
\* callbacks use the same interruptSave.
MaskRestored == [][bus = "taken" /\ bus' = "free" => primask' = before]_spiVars

\* An edge on an attached line is served, however many transactions mask the
\* line meanwhile: none of them leaves it disabled.
ServedInTheEnd ==
    \A l \in Lines :
        (l \in intFlag /\ InUse(l)) ~> ((irq = "clear" /\ ISRlist[i] = l) \/ ~InUse(l))

\* detachInterrupt "Turns off the given interrupt": whatever interrupts has a
\* slot, so that the handler serves it instead of being entered for ever.
EntryServes ==
    ~primask /\ irq = "off" /\ intEnabled \cap intFlag # {} =>
        \E s \in 0 .. nints - 1 : ISRlist[s] \in intEnabled \cap intFlag
=============================================================================

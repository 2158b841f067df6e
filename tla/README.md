# A verification project for SimIOFramework

SimIOFramework is the Arduino core for SAMD21 boards (`cores/arduino`) with its
libraries (`libraries/`). It is firmware for one Cortex-M0+ core: a sketch (the
*thread*) calls library methods, interrupt handlers preempt it at any
instruction, and peripherals (USART, USB controller, interrupt controller, DMA)
change their registers at any time. There is no operating system and almost no
locking: correctness rests on which side writes which variable, in which order.
That is what this project models and proves.

All paths below are under `src/`; `core/` stands for `cores/arduino/`.

## 1. Inventory

| Component | State | Operations | Hard behaviours | What makes it correct |
|---|---|---|---|---|
| Ring buffer `core/RingBuffer.h` | array, `_iHead`, `_iTail`, both volatile | `store_char`, `read_char`, `available`, `availableForStore`, `peek`, `isFull`, `clear` | one writer and one reader preempt each other inside every operation | first in, first out; each side's view is never optimistic |
| Serial port `core/Uart.cpp`, `SERCOM.cpp` | two rings, USART data and shift register, receive FIFO, `INTFLAG`, `INTENSET`, RTS pin | `begin`, `end`, `read`, `write`, `flush`, `available`, `availableForWrite`, `peek`, `IrqHandler` | handler against thread; `write` with interrupts masked runs the handler by hand; `flush` and `write` spin; RTS is driven from both sides | bytes once and in order; no lost wake-up; `flush` returns and means something; no receive overflow with RTS |
| USB OUT endpoint `core/USB/SAMD21_USBDevice.h` | two banks with counters and ready flags, `notify`, the endpoint descriptor | `recv`, `available`, `handleEndpoint`, `release` | USB interrupt against thread; both banks full; empty transfers | bytes once and in order; no bank overwritten; the endpoint is always re-armed |
| USB serial port `core/USB/CDC.cpp` | `_serialPeek`, line coding, line state | `read`, `peek`, `readBytes`, `available`, `write`, `flush`, `CDC_Setup` | unsigned results; reset request against its cancellation | counts that mean bytes |
| USB device `core/USB/USBCore.cpp` | configuration, handlers, packing state | `ISRHandler`, `recv`, `sendControl`, control requests | handlers recreated while in use; `_pack_message` defers the handler | a handler is alive while used |
| USB IN endpoint `core/USB/USBCore.cpp` | one bank, its descriptor and flags, `LastTransmitTimedOut` | `send` | 70 ms time-out against a late host; lost handshakes; bus resets; repeated SET_CONFIGURATION | a packet is not changed while it is sent; bytes in order, once |
| External interrupts `core/WInterrupts.c` | `ISRlist`, `ISRcallback`, `nints`, EIC registers | `attachInterrupt`, `detachInterrupt`, `EIC_Handler` | the lists are edited store by store with the handler enabled | a list in order of attachment; every enabled line listed and served by its callback |
| I2C `libraries/Wire` | two rings, `transmissionBegun`, bus flags | master transfers, `onService` | slave handler decides from several flags | the slave answers each phase of the bus |
| Pluggable USB modules `core/USB/PluggableUSB.cpp` | endpoint table | `plug`, descriptor and setup requests | sequential | the table fits the controller |
| Bootloader reset `core/Reset.cpp` | `ticks` | `initiateReset`, `cancelReset`, `tickReset` | non-atomic count-down against the USB interrupt | a cancelled reset does not happen |
| Time `core/delay.c` | `_ulTickCount`, SysTick | `millis`, `micros`, `delay` | reads across a roll-over | time does not go back |
| Tone, Servo | toggle count, channel table | `tone`, `attach`, timer handlers | sketch against timer interrupt; 32-bit products | length of the tone; pulse widths |
| SPI `libraries/SPI` | `interruptMask`, `dma_busy` | transactions, transfers | masks external interrupts; DMA completion | the lines masked are the ones restored |
| I2S and DMA `libraries/I2S` | double buffer, transfer state | `read`, `write`, `onTransferComplete` | DMA interrupt swaps buffers | samples once and in order |
| USB host `libraries/USBHost` | task state, address pool | `Task`, hub and address handling | time-outs, devices coming and going | addresses unique |
| The rest | pins, analog, strings, formatting, start-up, host class drivers, SD updater | | sequential, or register programming | |

How they interact: `Uart` and `Wire` own `RingBuffer`s and call `SERCOM`'s
register accessors; `Serial_` calls `USBDeviceClass`, which owns the endpoint
handlers; `ISRHandler` calls the handlers, the control code and, through
`CDC_Setup`, the reset counter that SysTick decrements; `SPI` transactions mask
the EIC lines that `attachInterrupt` enables; `micros()` reads the tick that SysTick
counts; `I2SClass` shares its double buffer with the DMA interrupt.

## 2. The modules

| Module | Models | Built on |
|---|---|---|
| `RingBuffer` | `RingBuffer.h`: operators on a ring record; each operation also as its two halves (`StoreSlot` / `PublishHead`, the load / `DropTail`, `isWrapped` / `SpaceSeen`) | |
| `Uart` | `Uart.cpp`, the USART half of `SERCOM.cpp`; one action per access to a ring or a register | `RingBuffer` |
| `UartIsr` | the same with `write()` in an interrupt of higher priority | `Uart` |
| `ByteQueue` | what a transmitter promises: an abstract specification that `Uart` implements | |
| `UsbOutEndpoint` | `DoubleBufferedEPOutHandler` and the controller, without the callers | |
| `UsbSerial` | receiving half of `Serial_`, `USBDeviceClass::recv`, bus events | `UsbOutEndpoint` |
| `UsbInEndpoint` | sending half: `Serial_::write`, `USBDeviceClass::send` with its time-out, the controller, a lossy bus, resets | |
| `LineReset` | line requests of `CDC_Setup`, `Reset.cpp`, SysTick, `Serial_::end` | |
| `ExtInterrupts` | `WInterrupts.c` | |
| `SpiTransactions` | transactions of `SPI.cpp`, in the thread and in callbacks | `ExtInterrupts` |
| `Wire` | a master's calls and a slave's `onService` on one bus | |
| `I2S` | `I2SClass`, `I2SDoubleBuffer`, `DMAClass::transfer` and the channel | |
| `Micros` | `micros()` and `delay()` over SysTick | |

`Uart_proofs` (with the lemmas about rings), `UsbSerial_proofs`, `UsbInEndpoint_proofs`,
`LineReset_proofs`, `ExtInterrupts_proofs` (with the transactions of `SpiTransactions`),
`Wire_proofs`, `I2S_proofs` and `Micros_proofs` hold the theorems.

The operators under a comment `Mutant:` are deliberately wrong variants of a
definition that follows them. No specification uses them; they are there to
show that the properties notice the mistake.

### Data

A byte is its number in its stream (of the `write()` calls, of arrival, of what
the host sends), in `Wire` its transfer and its place there: no code modelled
here looks at a byte's value, and with numbers "in order, once" is a statement
about consecutive numbers.

### Preemption

A *context* is a thread of control: the sketch, an interrupt, an interrupt of
higher priority. Between two accesses of a context to shared state any more
urgent one may run; accesses to locals are part of the step before or after.
What nothing preempts is one step: the USB handler, the masked sections of
`I2S`, `onService`. `EIC_Handler` is kept step by step, since an edge can come
while it scans and SPI callbacks run inside it, and so are `tickReset`, which
the USB interrupt preempts, and the reads of `micros()`.

### `Uart` against the code

`pc` names the points of `write` (`w_*`), `IrqHandler` (`h_*`), `read` (`r_*`),
`flush` (`f_*`) and `availableForWrite` (`a_*`). `write()` with the ring full
enters `h_ferr` in its own context when interrupts are masked, or in a handler of
priority equal or higher: the hand-run `IrqHandler` of the source. Hardware:
`Shift` moves `dataReg` to `shiftReg` and completes bytes, `Arrive` fills the
two-byte receive FIFO, `INTFLAG.DRE` is the predicate `DRE`, `RXC` likewise,
and `TXC` and `ERROR` are variables. `acknowledgeUARTError` is a
read-modify-write of write-one-to-clear flags and therefore also clears `TXC`;
this is modelled as such. `primask` is the sketch's `noInterrupts()`.

### `UsbOutEndpoint` and `UsbSerial` against the code

`first0/first1`, `last0/last1` and `ready0/ready1` are functions of the bank, the
two mirrored branches of `recv` and `available` are one with the parameter
`bank`. The synchronized blocks are one step each. `base[b]` stands for the
contents of a bank. `Transfer` is the controller accepting a packet of 0 to
`Size` bytes into the bank it is armed with. `taken` is the last byte copied out.
`SetConfiguration` runs `initEndpoints`, which deletes the handler and creates
it anew; the model gives the new one the memory of the old one, as the
allocator does for a freed block of the same size, so `base` (the memory)
survives and all members are reset.

### `UsbInEndpoint` against the code

`pc` follows one round of `send()`'s loop: is the bank armed (`TestReady`), wait
for the transfer-complete flag or give up (`WaitComplete`, `WaitTimeout`), `memcpy`
(`Copy`), byte count, clearing the flag, arming. The 70 ms may be over at any
moment at which the flag is not set; `timedOut` is `LastTransmitTimedOut`. The bank
is the set of the bytes in it. `Poll` is the controller starting to send, `Deliver`
the host's handshake, `LoseHandshake` and `LosePacket` the faults of the bus, and the
data toggles on both sides make the host ignore a repeated packet. Whether a
bus reset clears the endpoint's flags is left open (the code clears
`BK1RDY` only in `initEP`); it makes both toggles 0. `Configure` is SET_CONFIGURATION, which the
handler takes in every state: `initEP` un-arms the bank, the host begins again at
toggle 0, and the endpoint keeps its toggle, which nothing in the code clears. After a repeated
request the two may therefore differ, and the host takes the next packet for a repetition.
`dropped` (given up), `skipped` (thrown away by the host after a repeated
request, while `reconfigured`) and `misplaced` are history variables.

### `LineReset` against the code

`tickReset`'s `ticks--` is a load and a store (`TickLoad`, `TickStore`), its test a
third step; the requests come in between, since USB preempts SysTick. `end()` clears
the rate before the line state, and the requests may come in between here too.
`erased` stands for `banzai()`, after which nothing runs. The remaining variables from
`hostRate` on are history: the host's own view of its port, and how long ago
its last request was.

### `ExtInterrupts` and `SpiTransactions` against the code

`attachInterrupt` and `detachInterrupt` are one step per store to `nints`,
`ISRlist`, `ISRcallback`, `CONFIG`, `INTENSET` and `INTENCLR`. `Edge` sets the flag of a
line whose sense mode is configured, enabled or not. `attached` is a history
variable: what the sketch has attached, in order. `SpiTransactions` adds
`SPIClass`'s mode, mask and saved PRIMASK and two users of the bus: the thread
(`bus`) and the callback under way (`inCallback`). The read of PRIMASK and the masking in
`beginTransaction` are two steps. `Careful` says that the sketch registers a line
after it attaches it and unregisters it before it detaches it; `AllRegistered`,
that it begins a transaction only when every attached line whose callback uses
SPI is registered, which is what the library asks of it.

### `Wire` against the code

`mpc` is where the master's blocking call waits for the bus. `PREC`, `AMATCH`,
`DRDY` are the slave's flags and `SR`, `DIR` its status, which `onService` reads;
it has one action per branch. The slave's SERCOM stretches the clock from an
address match or a data byte until the flag is cleared (`Held`), but not from a
stop: `RequestFrom` and `EndTransmission` may find `PREC` still set. Sending a last NACK,
the slave's `DRDY` may or may not be set once more (`ReadByte`). Both calls may address a slave that is
not there (`EndTransmissionAlone`, `RequestFromAlone`), which ends in a stop, and `endTransmission` may be
called without `beginTransmission`: it sends what is left in `txBuffer`, and these bytes then belong to the new
transfer (`Numbered`). If the absent slave was addressed by a repeated start, our slave may or may not
see the stop (`NoAnswer`); `abandoned` remembers that it has not.

### `I2S` against the code

`buffer`, `length`, `readOffset`, `index` are those of `I2SDoubleBuffer`; the
channel is `valid` (the descriptor), `running`, the half it works on and how far it
is. `Transfer` is `DMAClass::transfer`, which does nothing while the
descriptor is valid. The masked sections of `write()`, `read()` and `available()` are one
step, the memory copies before them part of it. `DmaInterrupt` may come late, but
not inside such a section. `end()` frees the channel (`EndFree`), with an
interrupt possible, and then clears the state (`EndClear`).

### `Micros` against the code

`cycle` is the true time; the counter, the pending bit and the count of the handler
follow from it and from when the handler runs. A period of `Period` cycles stands
for the 1000 microseconds of a tick, so the scaling of the counter's value is the
identity. `ReadTicks`, `ReadPend`, `ReadCount` are the three reads of a round.

## 3. The runs

| Run | Question | Result |
|---|---|---|
| `uart_tx` | transmit side under every interleaving, with `begin`/`end` and masked interrupts | holds (190,664 states) |
| `uart_rx` | receive side with RTS | holds (389,979 states) |
| `usb_serial` | the double-buffered endpoint and its readers | holds (248,731 states) |
| `usb_in` | `send()` on a bus that loses packets and handshakes, with time-outs and resets | holds (779,208 states) |
| `line_reset` | reset requests against the count-down | holds (6,435 states) |
| `ext_interrupts` | the lists and the service | holds (632,425 states) |
| `spi_transactions` | transactions of thread and callbacks over the external interrupts | holds (113,250 states) |
| `wire` | transfers, replies and progress of the I2C bus | holds (1,162,328 states) |
| `i2s` | the double buffer in both directions | holds (160,344 states) |
| `micros` | time under preemption and wrap-around | holds (2,229,915 states) |
| `uart_isr` | `write()` from a higher-priority interrupt | **`SentOnce` violated** |
| `uart_flush_error` | `flush()` with receive errors | **`FlushReturns` violated** |

Each violated property quotes a statement the repository makes; `PROJECT.json`
describes the disagreement under `findings`.

The main properties:

- `TxInv`, `QueueSpec`: bytes reach the line once and in order, and
  the port implements a bounded queue (`ByteQueue`) whose contents are the
  shift register, `DATA`, the byte the handler holds, and the ring. `end()` and
  `begin()` discard from the front, the only steps that may.
- `StrandedOnlyByBegin`: no race leaves bytes in the ring with the interrupt
  off. `begin()` on a port in use does (it resets `INTENSET` and keeps the ring),
  until the next `write()`.
- `FlushLeavesOne`: what `flush()` does guarantee: all but the byte in the shift register.
- `RoomNotOverstated`: `availableForWrite()` reads the indices twice and may
  return too little, even a negative number, but never too much.
- `RxNeverDropped`, `RtsReleased`: the ring never overflows although `read()`
  may assert RTS on a space that is out of date, and RTS is asserted again.
- `NoneLost`, `NextInOrder`, `BankStable`, `NotForgotten`, `Received`: the same
  for the USB OUT endpoint.
- `PacketIntact`, `InOrder`, `OnlyGivenUpAreLost`, `SendReturns`, `Recovers`: a packet
  is not overwritten while it is sent, also after a time-out; the host gets the
  bytes in order and none twice; what a time-out, a reset or a configuration gives up never gets through
  after all, and nothing else is lost, but for the first packet after a repeated
  SET_CONFIGURATION; the endpoint works again once the host polls.
- `ErasedAsAsked`, `TouchResets`: the application is erased as the host's last
  request asked, and only so, and a count-down once armed ends in a reset or a cancellation. The exception is a request between `tickReset`'s
  load and its store, which the store undoes.
- `InOrderOfAttachment`, `EnabledListed`, `Served`: the interrupt lists and what the handler
  does with them.
- `Exclusive`, `MaskRestored`, `ServedInTheEnd`: two users of the SPI bus exclude each other,
  PRIMASK survives nested transactions, no line stays masked.
- `OneTransfer`, `OwnReply`, `Returns`: the slave's sketch gets each transfer
  whole and by itself, unless the master has left one without a stop and turned to
  another address; a request reads the reply made for it, unless
  it began before the slave had served the stop before it (in that case the slave takes
  the address match for part of the stop and sends what is left of an older reply).
- `HalvesApart`, `SentInOrder`, `InputInOrder`, `Sent`, `Resumes`: the double buffer. `Resumes` asks for a
  channel that really runs again after each stop, not only for `dmaTransferInProgress`, which
  `read()` sets whether or not `DMA.transfer` has refused the transfer.
- `MicrosInCall`, `DelayLongEnough`: `micros()` lies between its call and its return, and is a
  tick behind only in an interrupt that has preempted the tick handler.

### Further configurations

These are kept beside the runs and checked by hand. They hold:
`UartTxMore` (`TxInOrder`), `UsbSerialMore` (`NeverOverwrites`, `HandoverInv`,
`Rearmed`), `ExtInterruptsMore` (`TypeOK`, `DetachedIsOff`), `I2SMore` (`TypeOK`, `NotForgotten`,
`HandedOver`), `LineResetMore` (`TypeOK`, `CountsDown`), and the type
invariants in `SpiMore`, `WireMore`, `UsbInMore` and `MicrosMore`.

And these show that the code does not do what a comment or document says:

| Configuration | Violated | What is said | What happens |
|---|---|---|---|
| `UartFlushBit` | `FlushSendsLastBit` | `CHANGELOG:187`: `flush()` waits for the last bit | it returns with a byte in the shift register |
| `UsbReconfigure` | `BankStable` | `core/USB/SAMD21_USBDevice.h:258`: the bank is valid while it is read | a second SET_CONFIGURATION during `recv` recreates the handler |
| `UsbReadBytes` | `CountInRange` | `core/Stream.h:98`: `readBytes` returns the number of characters placed in the buffer | on an unconfigured device -1 is added to an unsigned count |
| `UsbInReconfigure` | `NothingSkipped` | `core/USB/CDC.cpp:214`: bytes sent before the connection opens or after it is closed are lost (and no others) | after a repeated SET_CONFIGURATION the host acknowledges the next packet and throws it away: `initEP` does not clear the toggle |
| `UsbWriteTimeout` | `FailedWroteNothing` | `CHANGELOG:131`: `write` returns the bytes written | a time-out in the second packet reports failure after the first has been sent |
| `LineResetOpen` | `ClosedAtReset` | `core/USB/CDC.cpp:120`: reset when the port, already open at 1200 bps, is closed | after `end()` a SET_LINE_CODING alone arms the reset while the host's port is open |
| `EicNull` | `NeverCallsNull` | `core/WInterrupts.c:104`: no check for NULL is needed in the handler | between the stores of the line and of the callback the slot's callback can be NULL |
| `EicWrongCallback` | `CallsOwn` | `core/WInterrupts.c:76`: the routine named is called | the slot may still hold the callback of another line |
| `SpiMasked` | `Exclusive` | `core/WInterrupts.c:358`: the handler loops over the *enabled* interrupts | it serves a masked line whose flag is set, in the middle of a transaction, if its callback uses SPI and another line brought the handler in |
| `SpiDetached` | `EntryServes` | `core/WInterrupts.c:207`: detaching turns the interrupt off | `endTransaction` enables a detached line that is still registered; the handler is entered for ever |
| `WireRestart` | `WrittenBeforeRead` | `libraries/Wire/Wire.cpp:222`: stop or restart detected | a repeated start that reads does not run `onReceiveCallback` first |
| `WireElsewhere` | `Whole` | `libraries/Wire/Wire.cpp:221`: stop or restart detected | after a write without a stop and a repeated start to an absent slave, the slave may see neither; the callback then gets two transfers at once |
| `I2SRestart` | `EmptyAtRestart` | `libraries/I2S/src/I2S.cpp:349`: the buffer swapped in will be empty | when reception stopped, the other half is full of samples that are thrown away |
| `MicrosIsr` | `MicrosExact` | `core/delay.c:35`: interrupt-compatible | one tick behind in an interrupt that preempts the tick handler between entry and count |

### Bounds

| Constant | Code | Run | Why it is enough |
|---|---|---|---|
| `N` (ring) | 350 | 3 (tx), 7 (rx) | a ring of 3 is empty, partly full, full and wrapped around; order and wrap-around are proved for every `N` |
| `MaxTx` | unbounded | 4 | fills `DATA`, the shift register and the ring, so that `write()` meets a full ring; 5 with the second writer |
| `Threshold`, `Slack` | 10, far end | 5, 0 | the smallest instance in which flow control holds: with `N` = 6 and `Threshold` = 4 a byte is dropped. Each byte of slack costs three more: 7 (`N` = 10) and 10 (`N` = 14) drop a byte with one and two bytes of slack, and `RingNeverOverflows` proves that 5 + 3 `Slack` suffices. The code's threshold of 10 therefore covers a far end that sends one more byte after RTS goes off, not one that sends two |
| `MaxRx` | unbounded | 9 | more than the ring holds, plus the FIFO |
| `MaxBegins` (`Uart`, `I2S`) | unbounded | 2 | one `begin()` on a port that has been in use |
| `Size` (USB bank) | 256 (out), 64 (in) | 2 | a bank can be empty, partly used and full |
| `MaxBytes` (`UsbSerial`) | unbounded | 5 | both banks full and one more byte |
| `SizeT` | 2^32 | 16 | larger than every count that is not an overflow |
| `MaxConfigs` | unbounded | 2 | one reconfiguration of an endpoint in use; in `usb_in` the number of bus resets, with what follows each (SET_CONFIGURATION is not bounded there) |
| `MaxWrite`, `MaxBytes` (`UsbInEndpoint`) | unbounded | 3, 5 (6 in `UsbInMore`) | a `write()` of a full and a partial packet, after and before another one |
| `MaxFaults` | unbounded | 2 | a lost handshake, and a loss of its repetition |
| `Delay` | 250 | 3 | a tick that starts, one in the middle and one that ends the count-down |
| `Bauds`, `MaxRequests` | any | {1200, 9600}, 4 | arm, cancel, arm again and one request more |
| lines, `NumSlots` | 16 | 3 (2 under SPI; 4 slots in `EicNull`) | a line before and a line behind the one detached; two lines, both with SPI callbacks, under transactions |
| callbacks | any | 2 (1 under SPI) | enough to tell one from the other; which one is called does not matter to the bus |
| `Capacity`, `TxCapacity` | 255 | 2, 3 | different, so that a transfer can be longer than the slave's ring; a reply longer than the master's |
| `MaxQuantity`, `MaxReply` | 255, unbounded | 3, 3 | requests shorter and longer than the reply, and than the ring |
| `MaxTransfers` | unbounded | 4 | a write, a restart that reads, and one more of each |
| `Size` (I2S) | 512 bytes | 2 | a half that is empty, partly and completely filled |
| `MaxOut`, `MaxIn` | unbounded | 6, 7 | both halves three times |
| `MaxErrors` | unbounded | 1 | one transfer that ends in an error |
| `Period`, `Word` | 48000 cycles, 2^32 | 6, 20 | several reads within a tick; a count that wraps, and a result that wraps elsewhere |
| `MaxAge`, `MaxDelay` | unbounded | 13, 2 | calls that last longer than two ticks |

Deadlock is checked where the system never stops. It is not in `uart_tx` and
`uart_flush_error` (a `flush()` that waits for what will not come is a state without
successor: the subject of `StrandedOnlyByBegin` and `FlushReturns`), and in the runs
in which everything may rest once the bounds are reached or, in `line_reset`, the
application is erased: `usb_in`, `line_reset`, `wire`, `i2s`, `micros`.

### Fairness

- `Uart`: `Shift`, the baud clock runs while the USART is enabled; `IrqEnter`, the NVIC
  delivers a pending interrupt that is not masked; `IrqStep`, a handler that was
  entered goes on, since it contains no loop that waits; `MainStep`, the call the thread
  is in goes on when no handler runs. It is weak fairness: interrupts that never
  stop may starve the thread, as they do on the processor.
- `UsbSerial`: likewise `Interrupt` and `RecvConfigured \/ HandlerStep \/ SerialStep`;
  `UsbInEndpoint`: `SendStep` alone. That the host polls is a premise of `Recovers`.
- `LineReset`: SysTick comes and its handler goes on.
- `ExtInterrupts`: `IrqEnter`, `HandlerStep`.
- `SpiTransactions`: the same under strong fairness, since masking disables these steps
  again and again, and strong fairness for the thread's part of a call, a transaction
  and a masked section: interrupts leave it time in the end. Without that
  a line masked by the thread could wait for ever.
- `Wire`: the slave's interrupt is served, and the master's blocking call goes on.
- `I2S`: the line's clock, the DMA interrupt, the rest of `end()`, and a sketch that
  keeps reading (`Resumes` is about such a sketch).
- `Micros`: none; its properties are safety properties.

Nothing makes the sketch call, the host send or a pin change. Where a property
needs a reader it says so: `Received` assumes a sketch that enters `recv` again
and again, `RtsReleased` one that keeps reading from a port that stays enabled.

## 4. The proofs

TLC covers the instances above; the theorems hold for every value of the
constants that satisfies the named assumptions (`NAssumption`: a ring has at
least two slots; the other `...Assumption`s: types and positivity;
`EicAssumption` also that there are as many slots as lines). Each module shows that
an inductive invariant holds initially and that every action preserves it, one lemma
for each action, and derives its theorems from it.

`Uart_proofs`, rings. A ring of numbers *holds from* `k` when its unread slots are
`k`, `k + 1`, ... in order. Storing at the head changes no unread slot
(`StoreKeeps`), publishing the head makes the stored byte the newest (`PublishAppends`), moving
the tail drops the oldest (`DropRemoves`), and the code's tests agree with the count (`Counts`).
For the receive side, whose bytes are not consecutive when some are dropped, the same is said
of a ring whose unread bytes *increase*.

`Uart_proofs`, transmission. The inductive invariant is `TypeOK /\ TxInv`. `TxInOrder` alone is
not inductive: whether the next byte is in its place depends on what a preempted
context remembers. `TxInv` adds who may be where (`Preemption`), that the byte
`IrqHandler` holds between ring and register is the next one (`HandlerAgrees`), that what
`write()` has tested is still true after a preemption (`WriterAgrees`), and
that every byte written is in exactly one place (`NoneLost`). From it follow
`BytesInOrder`, `TransmitInvariant`, `FlushGuarantee` and `NoLostWakeup`.
`RoomIsThere` adds what `availableForWrite()` has found (`RoomInv`): between its two looks at the
indices the handler may move the tail, but not past the head, so the room it computes is at most what there is.

`Uart_proofs`, the queue. `PortIsQueue` is the refinement: the bytes in the shift register, in
`DATA`, in the handler's hand and in the ring are one run of consecutive numbers
(`PipelineRun`), so that each step of the port is a `Put`, `Take`, `Discard` or a stutter of
`ByteQueue`.

`Uart_proofs`, reception. `RxOrder` says that the receive FIFO and the ring hold increasing
numbers, the FIFO those behind the ring's, and that what a preempted `read()` has loaded is the
byte at the tail; `ReadsIncrease` follows for every setting, overflow included.
`RingNeverOverflows` rests on `FlowInv`, about what will be left (`Left`) when all has come that can
still come without another assertion of RTS: a whole `Margin` (FIFO plus slack) when RTS is on, else what is in the
FIFO and what remains of the far end's slack. `read()` asserts RTS on a space that is out of
date in two ways: by the bytes that came since, and, if the head has wrapped between its
two looks at the indices, by a whole `N`. The second can happen only when the head is near
the start of the ring (`HeadBelow`), which bounds the damage (`LeftInv`, and `ReadInv` at each
access of `read()`): a margin for the bytes before the second look, one for those before the
assertion, one for those after it. Hence the hypothesis `ThresholdSuffices`: `HasRTS`, `Threshold` at least
three times `Margin` less one, and below `N`. It is exact: with a threshold one less TLC finds a byte
dropped, for no, one and two bytes of slack. And `begin()` must find the ring empty,
since it asserts RTS again and keeps what is in the ring.
`BegunOnceNeverOverflows` is the case of one `begin()`, in which the second hypothesis holds;
the run `uart_rx` is an instance of it.

`UsbSerial_proofs`. The inductive invariant is `TypeOK /\ CallInv /\ HandoverInv`.
`BanksTakeTurns` derives `incoming` and `notify` from the two ready flags and the place of the thread: between `recv`'s switch
of `current` and its `ready = false` the bank is still counted full.
`ControllerAgrees` says that the descriptor points to `incoming` and a pending
transfer holds the newest bytes. `BanksChained` joins the byte ranges of two full banks. From it
follow `NothingLost`, `InOrder`, `StableBank`, `NoOverwrite` and
`NotForgottenAlways`, all under `~BusyConfigure`: the host configures only
between reads. Without it they are false, which the configuration `UsbReconfigure` shows.

`UsbInEndpoint_proofs`. `BankInv` says who owns the bank: the controller is at work only on an
armed one, whose descriptor counts all of its bytes or, given up, none.
`OrderInv` handles the toggles: they differ only after a lost handshake or a repeated
configuration, and where they agree what is in an armed bank is newer than all the host has.
`LossInv` does the bookkeeping of `dropped` and `skipped`: a bank that is given up, thrown away
by the host or already taken is accounted for, and one that may still be sent is neither given up
nor skipped. From them follow `PacketsIntact`, `HostInOrder` and
`NothingElseLost`.

`LineReset_proofs`. What `tickReset` holds in a register is what `ticks` is as long as no request
has come in between (`HeldInv`, `CountInv`), and the device's view of the port is the
host's unless `end()` has cleared it (`PortInv`). From them `NoResetUnasked` and
`CountDown`.

`ExtInterrupts_proofs`. While a call is under way the lists differ from the sketch's order
of attachment (`attached`) in a known way: one slot being written
(`AttachInv`), or the slots from that of the line up to `current` shifted
(`DetachInv`); otherwise they agree (`SettledInv`). That a new line finds room in the array
is a counting argument: the lines in use are different (`Distinct`) and one is free, so they are fewer than
the slots (`FS_Injection` of the library). From it follow `OrderOfAttachment`,
`EnabledAlwaysListed` and `DetachTurnsOff`.

`ExtInterrupts_proofs`, transactions. `SaveInv` says what is in the one variable in which
`SPIClass` saves PRIMASK: what the thread found, as long as its transaction lasts, and in a
callback that holds the bus what the callback found. `PrimaskRestored` needs nothing else and
holds for every sketch. The rest is for a careful one (`Careful`: register after attaching,
unregister before detaching). Then a registered line stays attached (`MaskedInv`), so that the invariant of the lists
survives the enabling and disabling of lines by transactions (`CarefulInv`), and
`EntryAlwaysServes` follows. `QuietInv` says that while the thread holds the bus no handler runs, and interrupts
are all masked or no line is enabled. It needs every attached line to be registered when a transaction begins
(`RegistersAll` in `OneUserOfTheBus`), which is more than the library asks: the handler serves a
masked line whose flag is set when another line brings it in (the configuration
`SpiMasked`), so the lines whose callbacks do not use SPI must be registered too.
`SpiCallbacksExcluded` is the case in which there are no such lines; the run `spi_transactions`
is an instance of it.

`Wire_proofs`. `BusInv` says which flags the slave can show in each phase of the master's
call. `MasterInv` says what the master has still to send, `SlaveInv` that the slave's ring holds
exactly the acknowledged bytes, or those of an older transfer while the stop or
restart that ends it is still to be served, unless the transfer was `abandoned`, and `ReplyInv` that what the slave will send continues
what the master has read. From them follow `TransferWhole` and `ReplyOwn`.

`I2S_proofs`. `ChannelAgrees` relates the channel's flags to `dmaTransferInProgress`. `SendingInv` says
which samples are in the transfer under way and that those in the sketch's half
follow them; `ReceivingInv` says the same of the samples received, in runs that are each
newer than the one before. From them follow `HalvesStayApart`, `OrderOut`, `OrderIn` and `WaitingIsServed`.

`Micros_proofs`. `ClockInv` relates the counter, the pending bit and the count to the true time:
the count, with the tick that is pending and the one the handler was entered for, is that of the last reload.
`CallerInv` says who can be where, and `LoopInv` what the reads of a round tell about the time: each
bounds when tick `count + pend` began (`TicksInv`, `ReadInv`, `NewInv`), and when two rounds agree
and the counter has not gone up, the two bounds leave a moment within the call (`DoneInv`). The result is
the time of that moment (`MicrosBetweenCallAndReturn`), less a period if the caller has
preempted `SysTick_Handler` before it counts (`Lag`). `DelayInv` adds up the milliseconds of `delay()`; that a
difference of two results modulo `Word` is the true difference needs the call to be
shorter than a `Word`: this is `MaxAge + Period < Word` in `MicrosAssumption`, on the code's
numbers a call (a `delay()` included) of less than 2^32 microseconds. A delay of 71 minutes
or more is therefore not covered (`MaxDelay * Period < MaxAge`).

Every safety property of the runs is a theorem now, and so is the refinement. Only
model-checked is liveness (`TxDelivered`, `FlushReturns`, `RtsReleased`, `Received`, `SendReturns`,
`Recovers`, `TouchResets`, `Served`, `ServedInTheEnd`, `Returns`, `Sent`, `Resumes`), since the prover
handles neither fairness nor ENABLED. The two violated properties (`SentOnce`,
`FlushReturns`) are false and have no theorem.

## 5. Not modelled

Within the modelled components:

- Byte values, baud rates, frame formats, pin multiplexing, clock set-up.
- `Uart`: `peek()` and `available()` (they change nothing). Framing errors are in
  the actions (`HandleFrameError`, `HandleError`) and are exercised by `uart_flush_error`.
- `UsbSerial`, `UsbInEndpoint`: the control endpoint and the packing of descriptors, the default
  endpoint handler, `send()` from an interrupt that preempts a `send()`, the time-out of
  `readBytes` as a duration (it may expire whenever nothing has come), the break
  request.
- `ExtInterrupts`: the NMI line, level sensing, the SAMD51 variant, and
  callbacks that attach or detach lines.
- `SpiTransactions`: the transfers, and their DMA, which belongs to a library outside this
  repository; the clock settings.
- `Wire`: a second slave that answers, bus errors, a second master, a bus found busy, and the `uint8_t` that `requestFrom` returns.
- `I2S`: byte counts that are not whole samples (`BTCNT` is `size / transferWidth` in `DMA.cpp`; sizes count samples here), the blocking write of one sample, a change of direction without `end()`,
  `begin()` twice, and interrupts of higher priority that use the library. A
  transfer error leaves `dmaTransferInProgress` set, and sending stops; this is in the model
  (`ServiceError`) and excepted in `Sent`.
- `Micros`: `delayMicroseconds()` (a counted loop) and `yield()` inside `delay()`.
- Compilers and caches: volatile accesses are in program order on this core.

Components left out:

- `Tone`, `Servo`: one timer interrupt against the sketch; what can go wrong is arithmetic
  in 32 bits and a table of channels. They are the next candidates.
- The USB host stack and its class drivers: a polling state machine
  over a hardware driver, vendored from another project.
- Pluggable USB modules: set-up before the device attaches, and control requests.
- Pins, analog, pulses, strings, streams, formatting, start-up, SD updater: sequential code or register programming.
- `bootloaders/`: vendor code (ASF, CMSIS) and programs of their own; the bulk of the repository's lines.

## 6. Plan

1. Callbacks that attach and detach lines in `ExtInterrupts`; framing errors on the receive side of `Uart`.
2. `Tone` and `Servo` with their timer interrupts; the address pool and `Task` of the USB host.
3. Proofs: the receive ring when `begin()` finds bytes in it, what `flush()` leaves when errors come,
   and calls of `micros()` and `delay()` longer than 2^32 microseconds.

# Verification of PinePhonePkg

PinePhonePkg is a UEFI firmware package for the PinePhone (Allwinner A64): EDK II
platform code together with drivers taken over from the vendor's board support package.
This directory holds TLA+ models of the parts of it where the order of events, a failure or a
boundary decides whether the code is right, TLC configurations that check them on small
instances, and proofs, checked by TLAPS, of what holds on every instance. The repository has
no tests; what a driver is supposed to do is taken from its comments, its messages and
assertions, and the interfaces it implements.

## The system

The firmware runs on one core, without threads. There are three levels of execution:

- the *foreground*, at `TPL_APPLICATION`: driver entry points, and the calls clients make;
- *timer callbacks*, at `TPL_CALLBACK`: they preempt the foreground and run to their end;
- *hardware interrupt handlers*: they preempt both, and run to their end.

So an interrupt handler is one atomic action for everyone else, unless it waits for the
outside world itself, and foreground code is not: it is cut wherever a preemption can make a
difference. Devices and the outside world (a USB host, a user with a memory card, a power
chip, the beam of a display) move at any time. Nothing in the firmware outlives a power cycle
except what is written to storage; a write that is cut short by a failed command, or by the
power going off, is modelled where the driver has to cope with it (`MmcStorage`, `FlashIo`).

### Components, their state, operations and properties

| Component | State | Operations | What makes it correct |
| --- | --- | --- | --- |
| `SunxiQueueLib` | ring of events, head, tail | `InitQueue`, `Enqueue` (interrupt), `Dequeue` (foreground) | a bounded FIFO although it has no lock |
| `SunxiDmaDxe` | channel table, handlers, enable and pending words, count of enables | request, release, setting, start, stop, install/free/enable/disable interrupt, exit, interrupt handler | the shared interrupt is on exactly while needed; channels do not leak state from owner to owner |
| `EfiUsbFnIo`, data path | endpoint registers, FIFOs, command buffer, DMA channel, flags shared with the interrupt handler | `Transfer`, `EventHandler`, `sunxi_usb_irq` | commands, payloads and responses arrive whole, are announced once and not too early, and exchanges end |
| `EfiUsbFnIo`, life cycle | DMA channels, port handle, buffers, page list | start, configure, stop, allocate, free | nothing leaks, nothing is released twice or used after release |
| `EfiUsbFnIo`, register access | some thirty registers, most of them once per endpoint behind a selection register | the `USBC_*` functions of `usbc.c`, `usbc_dev.c`, `usbc_host.c` | a call for one endpoint leaves packets, stalls, interrupts and sizes of the others alone, also when the controller moves in the middle of it |
| `EfiUsbFnIo`, control endpoint | EP0 stage, address, CSR0 | `ep0_recv_op`, EP0 sends, bus reset | stage and address follow the host; every SETUP is looked at; the handler returns |
| `SunxiSdMmcDxe`, card detection | media record, published interfaces, debounce counter | entry point, 100 ms timer, Block I/O | the slot's interface is alive exactly while its card is there; what is installed has its memory unless the uninstall failed |
| `SunxiSdMmcDxe`, protocol and host | `struct mmc`, `struct sunxi_mmc_host`, controller registers; the card | identification, mode switches, tuning, read, write, erase, wipe, secure storage | the bus is never faster than the card's mode; driver and card agree; a failed command costs a retry and no data |
| `AxpPower` (five chips) | registers of the power chip | set and probe of some twenty supplies each, charger, limits, interrupt registers | what was set reads back, calls keep each other's bits, a rail is not switched on at the wrong voltage, key presses are lost in one window only |
| `Rsb`, `SmBusDxe` | none: the secure firmware has the bus | `SmbusExecute` | what a failed access does to the registers of the chip, and what its caller is told |
| `SunxiDisplayDxe`, engine | shadow copies and registers of mixer, scalers, colour conversion, enhancement, write back | layers, blanking, colours, enhancement, capture; the frame interrupt | no frame is made of two settings; what is reported as applied is in the registers |
| `SunxiDisplayDxe`, outputs | clock tree with its counts, timing controllers, DSI, PWM, regulators, managers and devices | bring-up, the timed open flow of the panel, switching of LCD and HDMI, the frame interrupt | who is on has its clocks, controller and interrupt, and no clock is left running; no backlight without a picture |
| `FlashIo`/`FsIo`, `SunxiPartitionLib` | partition tables and boot files on the card, the libraries' copies of the tables | write table, write boot files, erase, initialise, look up | one good table survives a crash; success means written; look-ups and erases stay inside what the table says |
| `SysConfigLib` | the board configuration; function, pull, drive and data registers of the pins; handles | fetch and patch of keys; request, set, read, write and release of pins | keys and pins keep what was last asked of them, whoever shares their registers |
| `SunxiTwiLib`, `PciEmulation`, `PrePi`, boot manager, clocks of the SoC library, tables | | | not modelled, see below |

How they interact: the USB function driver posts its events to a queue of `SunxiQueueLib`
from its interrupt handler and has a DMA channel table of its own (`usb_dma_control.c`); its
handler and its foreground both go through the register functions, which share the selection
register of the endpoints. `SunxiDmaDxe` serves other clients through a protocol. The SD driver
publishes Block I/O and FlashIo interfaces in the firmware's handle database, on top of
`mmc_op.c`, which drives the protocol layer, which drives the host controller;
`SunxiPartitionLib` reads back what FlashIo wrote. The power
libraries reach their chip through `SmbusExecute`. The display driver's calls change settings
in memory; its interrupt and timer callbacks carry them to the hardware; the panel and HDMI
share the clock tree and the regulators. Drivers find their pins in the configuration of
`SysConfigLib` and request them there.

`PROJECT.json` lists every component with its files, and under `hazards` every place where
the order of events, a failure or a boundary can go wrong, with the properties aimed at it. Its
`map` gives the lines of the operations; a helper definition whose lines lie inside those of an
operation that is listed is mostly left out, and so is what stands for hardware outside of the
firmware, which comments in the modules mark as external.

## The modules

| Modules | Model | Run | Theorems |
| --- | --- | --- | --- |
| `FifoQueue` | the abstract bounded queue | through `SunxiQueue` | |
| `SunxiQueue` | `Library/SunxiQueueLib` | `queue` | `SunxiQueueProofs` |
| `SunxiDma` | `Drivers/SunxiDmaDxe` | `dma`, `dma_last` | `SunxiDmaProofs` |
| `UsbBulk` | the data path of `Drivers/EfiUsbFnIo` | `usb_bulk`, `usb_bulk_reset`, `usb_bulk_window` | `UsbBulkProofs` |
| `UsbLifecycle` | its start, stop and buffers | `usb_controller` | `UsbDeviceProofs` |
| `UsbRegs` <- `UsbcDev`, `UsbcHost` <- `UsbController` | its register functions | `usb_controller` | `UsbControllerProofs` |
| `UsbRegs`, `UsbcDev` <- `UsbControl` | its endpoint 0 | `usb_controller` | `UsbDeviceProofs` |
| `CardDetect` | `Drivers/SunxiSdMmcDxe/SdMmcDxe.c` | `card` | `CardProofs` |
| `FlashIo` | `eMMCFlashIo.c`, `eMMCFsIo.c` of that driver and `Library/SunxiPartitionLib` | `card` | `CardProofs` |
| `SysConfig` | `Library/SysConfigLib` | `card` | `SysConfigProofs` |
| `MmcHost` <- `MmcCore` <- `MmcInit` <- `MmcStorage` | the rest of that driver below FlashIo | `mmc` | |
| `RsbBus` | `Drivers/SmBusDxe` and its copy `Drivers/Rsb` | through the next two | |
| `AxpChip` <- `Axp8xx`, `Axp22x` <- `AxpPower` | the supplies and settings of `Drivers/AxpPower` | `power` | |
| `AxpInterrupts` | its interrupt registers | `power` | `PowerProofs` |
| `DeRtmx` <- `DeEnhance` <- `DeHal` <- `DispManager` <- `DispScreen` | the display engine and one screen | `display` | |
| `PanelRegs` <- `DispBoard` <- `OutputDevices` <- `DispDriver` | the outputs of the display | `outputs` | |

`A <- B` says that `B` extends `A`. An `MC` module gives a module's constants their values
where a configuration file cannot, or composes parts for one run. Definitions whose names
start with `Mut` are variants of the definition they precede, with a bug that could be made
there; TLC finds the property that `PROJECT.json` names violated when one takes its original's
place.

### SunxiQueue

Variables are the fields of `QUEUE` and the place where `Dequeue` was interrupted.
`Enqueue` is one action, because only the interrupt handler calls it; `Dequeue` is the test,
the `CopyMem` and the update of `Head`, and any number of `Enqueue`s come between them.
`Contents` reads the ring from `Head` on, and with it `ImplementsFifo` states that every
step is one of the abstract queue's, or none. The run uses a ring of four slots and two
events: enough for the indices to wrap with every occupation of the ring, and for any two
events to be told apart.

### SunxiDma

Interrupt words are sets of bits, because `sunxi_dma_free_int` writes a mask that does not
belong to the channel it is called for: it shifts by the channel's number instead of four
times the number, leaves its own pending bits to the next owner of the channel
(`NoStaleCompletion` shows that this does no harm) and can clear those of lower channels.
Three channels, two in the first word and one in the second, show every case of the two
loops of the interrupt handler, including the last channel, which the second loop leaves
out (in the code, channel 15 of 16). `sunxi_dma_release` is cut in three since a transfer
can complete in between; `stale` is a history variable, the pending bits an earlier owner
left behind. Because C leaves a shift by 32 or more undefined, `IsrBit` takes AArch64's
shift, modulo the width of the word. A looping descriptor restarts for ever, and a system
after `sunxi_dma_exit` may stop: deadlock is not checked.

### UsbBulk

Three actors: the client, the interrupt handler, and the controller with the host behind
it. The foreground functions are cut at each access to a register that depends on the
*active endpoint*, since that is what the interrupt handler also switches. The handler is
two steps, reading the status and acting on it; with `IsrWindow` the hardware moves in
between, and a completion of the DMA that comes then is cleared unread by `usb_dma_int_clear`
(the history variable `unread` notes it for the running `Transfer`). `usb_dma_stop` masks the
interrupt of a channel and leaves its start bit, so that after a bus reset an old transfer may
go on, into the buffer it was started with, until the channel is set up anew. A packet is a record that says which command it belongs to and which part of it
it is; lengths are abstracted to how the last packet of a payload ends: full, shorter, not a
multiple of four bytes (DMA moves whole words), or less than four bytes. Not modelled: the
start-of-frame interrupt, which the handler disables the first time; the stall bits; the
branch for `fastboot_data_flag`, which nothing sets.

`TxExact` puts three facts together: a response is announced when its last packet has left
and not before, register accesses hit the endpoint they mean, and packets are not mixed.
`CompletionNotLost` says that a payload which DMA has moved completely is reported or about to
be, whatever bus resets came in between, unless its completion was cleared unread. This run has
`IsrWindow = TRUE`, so that the window is in it; that nothing else loses the completion is what
is left of the promise of the comment in `EfiUsbFnIoDxe.c` (`CompletionDelivered`), which
`usb_bulk_window` shows to be broken.

Bounds: two commands, payloads and responses of up to two packets, two bus events. Two
commands are needed for one to overtake or overwrite another, two packets for a packet to
wait behind another in the double-buffered FIFO and for a transfer to have a packet that is
not its last. The queue's capacity of 4 is never reached with these bounds; that a full queue
refuses is `SunxiQueue`'s business. The system may stop when the host has sent all its
commands: deadlock is not checked.

Fairness (`FairSpec`): the CPU executes the client and takes asserted interrupts, DMA moves
what it can, and a host that has begun an exchange goes on with it. Nothing obliges the
host to send a command or to reset the bus. The driver's busy waits have no time limit, so
without a host that reads its responses `Answered` cannot hold.

### UsbLifecycle

Each acquisition and each release is an action, because once the interrupt source is on
`sunxi_usb_irq` may run between any two of them. `malloc` returns any free buffer, or
fails. Clients stop the controller before they start it again (`StopsFirst`). Eight channel
entries, as in the code; two buffers of each kind, so that a leaked one is told from a new
one. `ResourcesReturned` is `NoLeak` and `ReleasedOnce`: what a start took, a stop or the failed
start itself gives back, once.

`armed` has the channels whose start bit is set, with the buffer they were started for. Neither
a bus reset (`BusReset`) nor the `usb_dma_stop` of a stop ends a transfer, which `DmaIntoOwned`
has to cope with: what ends it is the reset of the controller in `usb_close_clock` (`ExitClose`),
before `StopController` returns and the client frees its buffer, or the next use of the channel.
The mutant that leaves the clock on violates it. The client's part of this is an assumption: it
frees the buffer of a `Transfer` that a bus reset has cut only after another has taken its
place or after `StopController`.

### UsbRegs, UsbcDev, UsbcHost, UsbController

A function of the register layer is a sequence of accesses, each a read, a change and a write
of one register, a register being the set of its bits. `UsbController` lets a caller make any
calls in any order, as the callers do: save the active endpoint, select one, call, restore.
The controller raises events between two calls and between the read and the write of one
access; status bits that are cleared by writing 0, and change bits cleared by writing 1, are
as `usb.h` describes them. `EndpointKept` is what a driver of several endpoints relies on:
received packets, pending interrupts, stalls and requests, maximal packet sizes, the DMA
selection and the FIFO areas of an endpoint survive the calls made for others. `ChangeKept`
says the same of the change bits of VBUS, ID and data lines in the one register that every
access rewrites as a whole.

Bounds: two calls and one controller event, three endpoints: the second call is what disturbs or
observes the first, and one event falls at each place of each of them. The groups (device,
host, shared) are separate behaviours because one controller is in one role.

### UsbControl

Endpoint 0 with its own actors: the handler, which here waits for the host in
`__usb_writecomplete`, the foreground that replies, and a host that sends SETUP packets
(three), resets the bus (once) or is unplugged. `Ep0Follows` says that no more SETUP packets are
taken for data than there were requests (SYNCH_FRAME) that leave the stage set, and that the
address is the one given last;
`SetupServed` that a waiting packet has its interrupt, except in the window where the code
clears it; `HandlerReturns`, the liveness property, that the handler's unlimited wait ends
while the host is plugged in. Fairness: weak, for the handler, for the foreground's replies
and for a host that reads what waits for it.

The three parts of the run `usb_controller` (register functions, endpoint 0, start and stop) share
no variable; a behaviour is about one of them. A part may stop when its bounds are reached:
deadlock is not checked.

### CardDetect

Two threads: the driver's entry point, cut where the timer callback can come between, and
the callback. The handle database is a set of interfaces, numbered by allocation, next to
the set of those whose memory is live. A card is not replaced by another between two ticks,
which are 100 ms apart. `flashElsewhere` says that an eMMC or NAND driver has published a
FlashIo interface: both cases are in the run, and the eMMC's may come during initialisation. The
timer is started before the entry point looks at the slot, and fires anywhere in it; `InitTicks`
bounds how often, at four: three ticks publish a card and the fourth withdraws it. `raced` notes
that a tick published or withdrew a card, or saw the slot empty, while the entry point was on its
way to publish the one it had seen.

`InstalledIsLive` is what a client relies on: until an assertion stops the firmware, whatever is
alive is installed, and an interface that is installed without its memory is there only beside
another driver's FlashIo, where `UninstallMultipleProtocolInterfaces` fails and its result is not
looked at. `AssertExplained` says that the assertion on an installation fails only after such a
race or such a failed uninstall; that it does fail in both cases is why `NoAssert`, which the
`ASSERT_EFI_ERROR` states, is not checked. `SlotFollowed`, the liveness property, says that a good
card that stays is published in the end and one that left is withdrawn. Two good cards of
different size and a bad one, three insertions: enough for a bad card between two good ones, and
for the debounce counter to carry over from one card to the next. A `LastBlock` of three bits
stands for 64. Fairness: the entry point finishes, and the periodic timer keeps firing. The
callback can always run, so a deadlock would mean only that an assertion has stopped the
firmware: it is not checked.

### FlashIo

A call of FlashIo is the list of the writes it makes, carried out one by one (`job`); the erase
takes the parts of the table one after the other and makes the writes of each when it comes to
it (`job.parts`). Each write may
fail, which ends the call, and the power may go off before, between and in the middle of them,
after which a range has some old and some new blocks. The disk is the blocks that matter: the
protective MBR, both headers and entry arrays, the boot areas, the ends of the parts. A check
sum is modelled by what it is a function of: it agrees exactly when the contents are those it
was computed from. `GptSurvives`: after any number of calls, failures and power cuts at least
one copy of the table verifies, if the backup did when the interrupted call began.
`TablesTrue`: a call that reports success has written what it was given, a table that
`SunxiPartitionLib` accepts yields exactly the parts that were asked for through every look-up
by number and by name (of several parts with one name, the first), an erase stays inside its
part or the boot areas, and the window of the file system inside its own. The parts that the
boot records lead to are those of the least set of blocks that has block 1 and, with a record,
the block that it links to. Two images, of two and of five parts with lengths on each side of
the limits of the erase (8 MB, 16 MB and one block more); three calls, so that a table can be
written, spoilt and written again.

### SysConfig

The configuration is a function from main keys to sequences of sub keys. A register is a group
of pins: eight share a function register, sixteen the registers for pull and drive, a port its
data register. A call reads the registers, changes the fields of its pins in local copies and
writes them back; the data register shows the level outside of every pin that is no output, so
writing it back changes what such a pin will drive. Next to the registers, `pinSpec` records
what the calls asked of each pin, one at a time: `PinsKept` compares the two, `ScriptKept` does
the same for the keys and their patches, and `ConfigKept` is both. Five pins, of which some
share all registers, some all but the function register, some only the data register and one
none; two handles that are held at a time, four calls, one change of a level from outside.
Callers pass lists that name each pin once and have their unused entries last, and ask for a
single key only if it is a pin. `PinAssumption` says what the code takes for granted of a
configuration: the sub keys of a main key have different names and different pins, a body is of
its key's type, and a setting fits its field (a function of 8 or more would be cut to three
bits). Calls are not interrupted by each other: nothing in the
library protects them, and a timer callback that changed a pin in the middle of another call
would lose its change; no callback of this firmware does.

The parts of the run `card` (slot, FlashIo, the vendor's table, configuration and pins) share no
variable; a behaviour is about one of them.

### MmcHost, MmcCore, MmcInit, MmcStorage

The driver is sequential but its commands are not reliable. A function of the code is an
operator from a state to the *set* of the states it may leave, one for each outcome of the
commands it sends: a command is answered, is lost before it reaches the card, or reaches it
and its answer is lost. So a call is one action although it sends dozens of commands, and
every combination of failures up to the bound (`faults`) is covered. The state holds the
driver's belief (`struct mmc`), the host with its registers, and the card with its own state
machine, mode, partition and memory.

`MmcHost` has clocks, delays, command and data transfer, descriptors; `MmcCore`
identification, switching of modes, reading, writing and erasing; `MmcInit` the search for the
sample point, the initialisation from the first command to the fastest mode with its
fall-backs, and the timing parameters the boot loader hands over; `MmcStorage` what the
rest of the firmware calls (`mmc_op.c`, `sunxi_mmc_interface.c`).

`ClockWithinMode`: no command is sent with the bus clock above what the mode of the card
allows, unless a lost SWITCH was reported as done. `ModeAgrees`: after an initialisation that
succeeded, without a lost SWITCH or a clock that could not be set, driver and card agree on the
bus width, and if no command failed on the timing and a good sample point. `InitRecovers`: an
initialisation without failures succeeds whatever failed calls left behind. `DataExact`: successful reads,
writes and erases concern exactly the blocks asked for, the secure storage is only changed by
its own calls, and descriptors cover a transfer exactly. `SecureUntorn`: an item of the secure
storage is read as it was before or after an interrupted write, never a mixture.

The nine set-ups of `MCMmc` are SD cards of both versions and eMMCs of several revisions on
controllers 0 to 2, booting and in production, with different erase and boot options; one or
two failing commands, two or three calls. Cards of twelve blocks with erase groups of two,
eight sample points with a window of five, transfers of at most two blocks: every loop runs
more than once and every boundary (aligned, start, end, both) occurs.

The functions that read and write a boot partition of an eMMC (`mmc_burn_boot`, `mmc_get_boot`,
`mmc_switch_boot_part` and what they call) are left out: `mmc_bwrite_mass_pro` and
`mmc_bread_mass_pro` take them only below `CONFIG_MMC_LOGICAL_OFFSET`, which
`Include/Interinc/spare_head.h` defines as 0, so nothing reaches them.

### AxpChip, Axp8xx, Axp22x, AxpPower, AxpInterrupts

A supply is a table row: where its voltage field is, how it is coded (stretches of equal
steps), which bits switch it, and how the probe reads it, which is not always the inverse; the
modules transcribe the tables of the five chips with these differences (`Axp22x` has the AXP809,
too, and `Axp8xx` the AXP81X, AXP806 and AXP808). A call is a sequence of updates, each a read, a
change and a write. A write may fail, in which case the call stops, and may have reached the chip
nevertheless; a read never fails, but may give a wrong byte (see `RsbBus`), which the call
changes and writes back. One read of a call may go wrong. `want` and `wantCtl` are what is
known of the registers: what the calls asked for, without what a misread register lost (`Known`,
`KnownCtl`: every bit of it that the update does not write itself).

`ReadsBack` compares set and probe over the whole table of every supply, `RequestsKept` says that
calls keep each other's settings in shared registers, so that a read that fails unnoticed, whose
damage to its own register is real, damages nothing else. `VoltageBeforeOn` is the action property
that no call, failed or not, leaves a supply switched on while its field holds anything else than
the voltage asked for. The whole field is compared, as wide as set or probe take it; the rails
whose functions get it wrong are named in two definitions: `HalfCleared`, CLDO1 to 3 of the
AXP806 and AXP808, of whose five bits the code clears four, and `Overflows`, 3300 mV for their
DCDC4, which is encoded as 64 in a field of six bits. Supplies for which set and probe disagree in
the code (`Disagree`) are left out of `ReadsBack`: DCDC6 of the AXP81X, DCDC4, CLDO1 to 3 and the
switched output of the AXP806 and AXP808.

`AxpInterrupts` cuts the calls at each bus access, and the chip raises events in between.
`unseen` has the presses of the power key that no call has read. The write of `0xff` clears
those that came after the read, too (`exposed`); so does a call whose read was wrong (`misread`).
`InterruptsKept` says that presses are lost in these two ways and in no other, and that a source
that was enabled stays enabled until a call disables it or one above it in its register, the chip
is probed again, or a call writes its register after misreading it. `FirstReported`: a
successful call reports, of each register it read right, the source tested first, if it was
pending when the call began. What the code does not achieve is in the list of deviations below.

`MaxCalls` is two calls for the chip of the phone and one for the others, from registers all
zero and all one. The second call is for a setting or for a supply that shares its switch, its pin
or its limits with another (`Sequel`): DC5LDO, which has the switch of DCDC1, GPIO0LDO and VBUSEN.
It takes the lowest or the highest argument, and so does the first call when a second follows it;
alone, a call takes each side of every boundary. A call that writes nothing is alone (`Alone`),
and the second call is by name only if there is none by index. `MCGarbage` has the two extremes of the byte that a failed read
may give, none and all of its bits, and `MaxMisread` one wrong read of the interrupt registers
in a call.

### RsbBus

`gSecureAccess` is 1 and never assigned, so that every access goes through the secure firmware:
`SunxiRsbReadSecureOS` casts the firmware's answer to `UINT8` before it asks whether it is
negative, and so turns every failure into a successful read of the low byte of an error code. The
module gives the bytes that a read may return and what a write leaves, for the two modules that
extend it; it has no state. The code that drives the bus controller itself cannot be reached and
is left out. `Axp22xPmBusRead` and `Axp22xPmBusWrite` leave the chip's address out of their buffer,
so that the secure path would take the byte behind the register's number for it; the AXP22x, which
this board does not have, is modelled as if they filled it as the others do.

The three parts of the run `power` (supplies, enable registers, status registers) share no variable
or, the last two, no call; a behaviour is about one of them.

### DeRtmx, DeEnhance, DeHal, DispManager, DispScreen

Each driver of the engine writes copies of its registers and marks them dirty; the frame
interrupt copies the dirty ones to the hardware, which takes them over at the next frame.
`engine` has the copies, the dirty marks and the registers, as functions from field names;
geometry is kept in one dimension. A call is a sequence of steps (`todo`), and the frame
interrupt strikes between any two. `disp_mgr_update_regs` copies the dirty blocks one by one, in
the order of the code (`MgrSeq`), with the calls that would protect it commented out: a frame may
fall between any two blocks, also when `disp_mgr_force_apply` runs it in the foreground while the
display scans. One block is copied in one step. `NoTornFrame` looks at the registers the hardware
took over: every pipe that is on has overlay, scaler and blender of one setting, unless the
frame was taken in the midst of that copying (`shown.half`). Such frames do occur, at a switch of
the output that is already scanning; that they are the only ones, and are put right by the next
frame, is what the protection of `disp_mgr_apply` is for. `disp_enhance_update_regs` stays one step,
as no property reads its blocks.
`AppliedIsInRegisters` looks at the flag by which the driver knows that nothing waits.

Two channels, one of them video, with two layers each, six layer configurations that scale
up, down and coarsely, cut at odd pixels, show stereo or nothing; two calls after switching
on, so that the second changes what the first set while it is being carried over.

### PanelRegs, DispBoard, OutputDevices, DispDriver

The machine `sys` has clock tree, timing controllers, DSI, PWM, lines, rails, interrupt
controller, managers and devices. The functions are operators on it; `DispDriver` runs the
caller's steps, the chain of timer callbacks that opens the panel, frame ends and interrupts.
Boards differ in the panel (DSI in its three modes, HV, LVDS, none, one without a driver), the
HDMI mode and protection, which loops fail to lock, and whether the first frame is slow.
Calls of the caller start when bring-up is over (`wait_lcd_open`). Fairness: the processor
goes on, timers strike, controllers that scan show frames, and the interrupt of a controller
that interrupts again and again is sometimes in time (strong fairness: the line at which it is
taken varies).

`ScreenRuns` leaves out runs in which a manager's own clock failed and panels without a frame
interrupt: the code loses the count of clocks in the first and never handles the interrupt in
the second. The early return of `disp_hdmi_enable` when a clock does not lock is modelled but not
taken in these runs: the loop of the HDMI clock is on since `hdmi_init`.

## What the runs show

Passing:

- `queue`: the unlocked ring is a bounded FIFO; no event is lost, doubled, reordered or torn.
- `dma`: the count of enabled channels stays exact; no handler is called for a transfer of the
  channel's earlier owner.
- `usb_bulk`: in every interleaving without a bus reset commands are read before they are
  overwritten, responses are announced exactly, payloads are whole when announced, and the host
  is answered.
- `usb_bulk_reset`: with resets at any moment, and hardware that moves while the handler runs, a
  completion of a payload disappears in one way only: cleared unread by the handler.
- `usb_controller`: the register functions do not disturb each other's endpoints, endpoint 0
  follows the host, and failed starts, repeated stops and transfers in flight leave nothing behind.
- `card`: cards are published and withdrawn, and eventually, what is installed is alive but beside
  another driver's FlashIo, and assertions fail in two known ways only; a partition table survives
  failed writes and power cuts, and what is read back of it is true; pins and configuration keep
  what was last asked of them.
- `mmc`: with lost commands and answers, the bus stays within the card's mode, driver and card
  agree, initialisation recovers, data is exact and secure items are whole.
- `power`: supplies, settings and interrupt registers as described above, over a bus that fails.
- `display`: no torn frame but in the midst of the unprotected copying; applied means written.
- `outputs`: clocks balanced, backlight only with a picture, settings shown in the end.

Violations, disagreements between the code and what it or its interface says (`findings` in
`PROJECT.json`): `dma_last`, the last channel's completions are never served; `usb_bulk_window`, a
transfer that ends while the interrupt handler runs is never reported.

### Deviations met while modelling

The models follow the code in these; the properties are stated for what remains true.
Paths are below `Drivers/`, if nothing else is said.

- `EfiUsbFnIo/usb_base_sun50iw1p1.c:295`: a DMA completion during the handler is cleared
  unseen (`usb_bulk_window`). `usb_dma_stop` does not stop a transfer: after a bus reset an old one
  may move packets of the next payload into its own buffer, or report it before it is there
  (`RxEventComplete` is stated without resets). Line 209: a reset during `Transfer`
  leaves the wrong endpoint selected (`BusEvents` with `"reset"` violates `TxExact`), and the
  late response to an old command lets a payload overwrite the next command. With
  `Shapes = {"tail"}` a payload whose last packet has one to three bytes is announced before
  that packet has arrived (`RxEventComplete`).
- `EfiUsbFnIo`, `StopsFirst = FALSE`: a start without a stop zeroes the channel numbers of the
  earlier one, gets channels 3 and 4, and the interrupt handler looks for 1 and 2.
- `SunxiSdMmcDxe/SdMmcDxe.c:516`, `:704`, `:452`: with an eMMC (`flashElsewhere`), a removed
  card's interfaces stay installed in freed memory; timer and entry point can publish the same
  card, and an assertion fails (`AssertExplained` has both); reads with the identity of a replaced card
  succeed (`MediaIdentity`); a hot-plugged card has a `LastBlock` of 2^64 - 1, since the result
  of `SDMMC_LogicalInit`, 0 on success, is taken for the number of sectors.
- `SunxiSdMmcDxe`: `mmc_op.c:316` and `sunxi_mmc_interface.c:178` ignore results; the DDR bit
  is lost after a recovery; `mmc_exit` leaves `has_init` set (nothing calls it).
- `SunxiSdMmcDxe/eMMCFlashIo.c`: `eMMCWriteGpt` reports success when memory runs out after its
  first write; a table whose backup an earlier call tore can lose both copies in a second
  interruption. The erase takes addresses without the 20 MB that `eMMCWriteMbr` adds to them; a
  part of more than 16 MB has 2 MB erased 8 MB before its end, and one without a length loses
  its first 8 MB. `eMMCFsIo.c`: an empty part makes the window of the file system reach to
  the end of the disk. `SunxiPartitionLib`: `CreateProtectiveMbr` takes bits 32 and up of the
  size, and `SunxiGptPartitionGetSize` is one block short.
- `Library/SysConfigLib`: `SetMem` is called with length and value exchanged, so that a string
  keeps the end of a longer one before it; a request without pins loses its buffer; the pull
  and drive that a request left alone become 0 on release; the status a pin had is saved at its
  place in the list and not among the used entries; `script_parser_fetch_subkey_next` bounds
  the copy of a name by the size of a pointer.
- `AxpPower`: `&=` in the tests of pending sources reports only the first source of each
  register; `&= ~1<<b` disables more than it should; the AXP806 and AXP808 test a byte that
  nothing set; `ProbeIntEnable` does not clear `*IntMask`; `Axp81XProbeSupplyStatusByName`
  returns the voltage as a status. The AXP22x passes a buffer without the chip's address to the
  bus. A press of the power key between the read of the status registers and the write of `0xff`
  is lost, and so are the sources that a failed call read, and all but the one tested first in each
  register. `axp806_set_cldo1` to `3` (`Axp806Supply.c:1095`, `:1176`, `:1266`) clear four bits of
  a field of five, and `axp806_set_dcdc4` (`:356`) encodes 3300 mV as 64, which sets bit 6 and leaves
  0 in the field of six, 600 mV; the AXP808's functions are copies.
- `SmBusDxe/Rsb.c:518`: a cast makes the error test of a secure read dead code, so that a
  failed read reports success with some byte, which the callers write back over other rails' bits.
- Display engine: `disp_mgr_update_regs` is not protected against the frame (`disp_manager.c:884`,
  `:888`); the high address byte of a layer is shifted by `layno` and not by
  `layno * 8` (`de_rtmx.c:517`); the colour range flag is never applied; enhancement stays
  bypassed and its flags are never cleared; write back is switched on with old settings after
  an invalid request; the second layer of a stereo picture stays enabled (`de_hal.c:296`).
- Outputs: a second registration of an interrupt asserts; `detach` never finds the attached
  device; `tcon1_close` masks the wrong interrupt; `tcon_get_timing` is off by one;
  `DISP_LCD_DISABLE` is not handled; a failing LCD clock is ignored by the open flow, a failing
  HDMI clock leaves manager and interrupt on; a failed switch of screen 0 to HDMI loses the
  LCD; interrupts of CPU panels are never handled; the PWM computation overflows 32 bits for
  periods of 423 to 500 us; the frame buffer window wraps when the LCD is narrower than HDMI;
  the test for a locked loop is inverted (`clk_factor.c:103`); `clk_set_parent` recalculates
  rates only on failure.

## What is proved

The theorems hold for all values of the constants that satisfy the assumptions named in the
modules. A theorem is about the specification of its component (`Spec`, `Ep0Spec`, `IntSpec`,
`FlashSpec`, `SysSpec`, `UsbSpec`), which a run composes with others that share no variable with it, so that more
behaviours fit in a run.

- `QueueInvariant`, `QueueImplementsFifo` (`SunxiQueueProofs`). The invariant adds to the
  type that the slot being copied is neither empty nor overwritten; the refinement rests on
  lemmas about how `Contents` changes with `Head` and `Tail`, where the wrap of the index is
  the difficulty. Assumption: a capacity of at least one.
- `DmaCountExact`, `DmaIsolation` (`SunxiDmaProofs`). `CountMatchesEnables` and
  `FreeChannelQuiet` are inductive together with the type invariant; `NoStaleCompletion`
  needs in addition that `install_int` clears the END bit of its own channel (`EndBitInMask`),
  and what holds of a channel in the middle of its release. Assumption: at most two words of
  channels.
- `LifecycleSafe`, `AllReturned`, `DmaMemorySafe` (`UsbDeviceProofs`). The inductive
  invariant says, for each point of a start or stop in progress, which of the resources are
  held; `FirstRequests` shows that an empty table yields the channels 1 and 2. For `DmaMemorySafe`
  it adds that a channel which is armed works for the transfer that is outstanding: also while it is
  cut by a reset, and through a stop up to the reset of the controller. Assumption: the
  client stops before it starts again; without it `NoLeak` and `ChannelsMatchIsr` fail.
- `CardSafe`, `AssertsExplained` (`CardProofs`). For any cards and ticks, with other flash or
  without, and with the timer in the entry point. The invariant adds that what is alive has a
  FlashIo, on its own handle or elsewhere (`AliveWithFlash`); and, until the timer races the
  entry point, that nothing is published before the entry point does it (`NothingYet`), that
  afterwards one interface is alive exactly while a card is taken to be present (`OnePublished`),
  and that the card the host was initialised for is the one in the slot or was just pulled
  (`SameCard`). `PublishKeeps` is the lemma on a publication, wherever it happens: nothing is alive
  then, or the assertion fails.
- `SendingExact` (`UsbBulkProofs`). `TxExact` needs to know where a packet is at each step of
  `Transfer`: which endpoint is selected while the foreground loads the FIFO (`Selecting`), how
  much of the packet is in it (`Loading`), and that the flag by which the handler tells the last
  packet is set in time (`Completing`). Assumption: no bus reset; the handler selects another
  endpoint on one.
- `CompletionKept` (`UsbBulkProofs`). Resets are allowed, and hardware that moves while the
  handler runs. The invariant follows a payload from the register that arms the channel to the
  interrupt and the event (`Receiving`, `DmaSampled`, `Finished`). Assumption, as a temporal
  hypothesis: the queue is never full (`[]QueueRoom`), since `UsbQueueEventMassage` drops what
  does not fit.
- `CommandsIntact`, `PayloadsWhole` (`UsbBulkProofs`). They share an invariant, because a command
  is safe for the same reason as a payload is whole: the exchange has one phase at a time.
  `HostInv` gives the host's phase, `InOrder` what is in the FIFO, `Responded`, `Untaken` and
  `Taken` tie the client's place to it and to the one event of the protocol that may be in the
  queue. Assumptions: no bus reset, and no payload that ends with less than four bytes. None of the
  assumptions of this module can be dropped: TLC finds `TxExact` violated with resets,
  `CompletionNotLost` with a queue of one place, `CommandIntact` and
  `RxEventComplete` with `Shapes = {"tail"}`; the deviations above say why.
- `SetupsServed`, `HostFollowed` (`UsbDeviceProofs`). The accesses to CSR0 that `ep0_recv_op` makes
  are folded into operators that give the register after each branch; a lemma for each says
  that only a read that is completed, or a reset, takes the received packet away. The invariant
  adds where a packet can be while its interrupt is not pending (`Announced`), that the only one
  whose interrupt the code clears is a late one (`LateSeen`), that the data stage belongs to a
  SYNCH_FRAME (`StageOwned`), and which address is to come while the handler is in the middle of
  SET_ADDRESS (`AddressKnown`). No assumption but those on the constants.
- `InterruptsSafe`, `FirstAlwaysReported` (`PowerProofs`). For all chips, any set of bytes that a
  failed read may give, and any number of such reads. What makes the first inductive is `KeyHeld`:
  a press that no call has read and that the call under way is about to clear came inside its
  window, or its read was wrong. `Gathered` says that a source which was pending when a probe began
  is in the byte it read or still in the register, unless that register was misread. The second is
  an action property.
- `OneCopySurvives` (`CardProofs`). `GptSurvives` is not inductive, because it says nothing of the
  writes to come. `GptCall` says which of the five writes of `eMMCWriteGpt` are left and what
  the disk holds before each: as long as the primary table is being written the backup is what
  it was; from the fourth write on the primary table is complete. `OtherCall` says that
  the writes of all other calls are planned ones, and lemmas about each plan (boot files,
  erasure of a part, boot records) that none of these reaches the backup. `BackupHeader`, that a
  header in the last block leads to the blocks before it, keeps whether the backup verifies
  from depending on anything else. Assumptions: `FlashAssumption` (a block holds a whole number of
  entries, and the entries fill their blocks) and `GeometryAssumption`: the card is large enough,
  and the parts that are erased end before the backup. The code does not check the latter; a
  table with a part beyond the end of the card would let the erase reach the backup.
- `TablesAreTrue` (`CardProofs`), for the same assumptions (of which two serve this theorem: a
  block is not larger than boot0, 32 KiB, so that boot0 has a block; and the part of the file
  system is one of the table's). The invariant is `TablesInv`. `HeadersTrue`: every header on the
  disk carries the check sum of the entries of one image, so that whoever verifies a header has
  read one image's entries. `LibTrue` says the same of what the library has read, which
  outlives the disk's contents, and `WindowTrue` where the file system's window then lies. `CallsTrue` follows each call to its end: what of the writes is left
  (`GptLast`, `MbrCall`, `FileCall`, `EraseCall`) and what the disk holds where the others went,
  and what therefore holds when it reports success (`CallDone`). The proof needs
  induction over data in two places: the entries that are read back block by block are those
  that were cut into blocks (arithmetic on quotients and remainders), and the records of
  `eMMCWriteMbr` lead from block 1 to every block up to the last record and to none beyond it. The
  induction is by `LeastOf`, that a non-empty set of natural numbers has a least element, from the
  library's theorem on well-founded orders: if the chain missed a block there would be a first
  one that it misses.

- `ConfigIsKept` (`SysConfigProofs`), from `PinAssumption` alone: nothing bounds the pins, the
  ports, the length of a list, the handles that overlap, or the number of calls. What is hard is
  the middle of `gpio_request` and `gpio_release`, where four registers are in local variables and
  move from one register to the next. `Shows` is what a pin would have if they were written
  back. `Requested` says, after each turn of the loop, that what is shown is what the settings so
  far ask (`SpecAt`, `Agree`) and that a field that differs from its register is marked as changed,
  since only those are flushed; `Released`, that the pins done so far are as they were and the
  others untouched. `MoveFacts` is the lemma about going to the next pin: in the same registers, in
  another function register only, or in others altogether; it holds for the data register, too,
  where a pin that is no output shows the level outside, because only outputs are promised a
  value. Both loops are recursive functions, and that they have a value at all is proved by
  `LeastOf`, as are the properties of their turns. The inductive invariant `ConfigInv` adds that
  the pins and the names of a handle differ, so that a name stands for one pin, and that a string
  of the configuration agrees with the one last given for it as far as both reach.
- `ChangesKept` (`UsbControllerProofs`). A call is a path of registers, one step for
  each access (`CallPath`), and with an event inside one of them it is still a path, since the
  access that the event disturbs writes what it read before (`DisturbedPath`); that `Perform` has a
  path at all is again by `LeastOf`. `UnderFacts` says what one such access changes. Of each shared
  function, `OtgTargetPrograms` and `OtgGeneralPrograms` say which bits its accesses can clear, for
  all their arguments. `SharedInv` is inductive: what the controller set and nobody cleared is in
  the registers. Assumption: `EpsAssumption`, that endpoints 0 to 2 exist and none is above 15, as
  the selection register has four bits.
- `EndpointsKept` (`UsbControllerProofs`), from the same assumption, for calls in any order and
  number and an event at any access of each. Which endpoint an access means depends on the accesses
  before it, through the selection register, so the proof has four layers. `Fits` says what a function
  with a given purpose may do to the registers of an endpoint of a given kind (only the functions
  that end a stall may clear its bit, no other than the ones that drop packets may clear `ReadyBit`,
  and so on), and `DevEp0Calls` to `HostControlCalls` check this, and that the one access that the
  function is for is made (`Does`), against the program of every function, for all its arguments.
  `Shapes` puts the selection around them: in every call, the endpoint selected at each access
  (`Follows`) is one that the call is about, `__usb_bulk_ep_reset` with its two endpoints included, and
  endpoint 0 is selected at the end. `TurnFacts`, `CsrTurn`, `MaxpTurn`, `BusTurn` and `FifoTurn` give
  what one access, raced or not, leaves of each kind of register, and `RunReady` to `RunFifo` carry
  it along the path of a call. The inductive invariant `EndpointInv` adds to the property that
  between two calls endpoint 0 is selected and no command bit is set in a CSR (a flush left there
  would drop the next packet), that the registers of the maximal packets hold the binary digits
  of the numbers given last, and that the FIFOs are unset or where `__usb_bulk_ep_reset` places them.
  The conditions in the property are the code's: on the host side a maximal packet is promised
  only after `ConfigEp_Default`, since `USBC_Host_ConfigEp` ORs it in, and a request only until
  the controller has raised something; the DMA selection, one bit for all endpoints, is promised
  for one user at a time.

Only model-checked:

- the liveness properties `Answered`, `HandlerReturns`, `SlotFollowed` and `PictureShown`: liveness
  under fairness, and `ENABLED`, are outside what the proof system does;
- the MMC modules: retries and loops of the code are recursive operators there, which the proof
  system does not handle;
- `ReadsBack`, `RequestsKept` and `VoltageBeforeOn` of `AxpPower`, which are sums over sets of bits
  in tables of hexadecimal numbers, finite as they stand: TLC looks at every entry;
- the display (`NoTornFrame`, `AppliedIsInRegisters`, `ScreenRuns`, `BacklightNeedsPicture`), whose
  steps are long chains of updates to nested records, and whose outputs use recursive operators.

## Not modelled, and plan

- `SunxiTwiLib`, a polled master that only reads a key at start-up; `PciEmulation` and
  `DmaBounceBufferLib`, a constant configuration space and copies without state between
  transfers.
- `gpio_request_early` and `gpio_request_simple` of `SysConfigLib`: their macros access registers
  as `INTN`, 64 bits wide here, and so the register behind each one, too; what the bus makes of
  that is not known from the code.
- In the modelled components: copying of FIFO data and calibration of the USB PHY; EDID, the
  queries and the `sw_enable`, suspend and resume paths of the display, which nothing in this
  build reaches; TV, smart backlight and bandwidth scaling, which are not compiled; register
  contents that no other register or property depends on (coefficient tables).
- `PrePi`, `MemoryInitPei`, the clocks and the message box of `Sun50iW1P1Lib`, boot manager,
  `SimpleFbDxe`, ACPI and SMBIOS tables, `HdmiLib` (a binary): straight-line register
  programming, static tables, calls into the firmware core.
- Proofs worth having next: `ClockWithinMode` and `DataExact` once the retries of the MMC modules
  are recursive functions; `VoltageBeforeOn` of `AxpPower` over an abstract table of rails;
  `AppliedIsInRegisters` of `DispScreen`.

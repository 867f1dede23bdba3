# TLA+ models of virt_driver

`virt_driver` is a set of out-of-tree Linux drivers for virtual hardware, with
the QEMU board that some of them run on. This directory specifies them: the UART
network driver (`uart_net`), the demand-paged memory of the PCIe driver (`pcie`),
the fan and temperature drivers (`virt_fan`, `virt_temp`) and the bring-up of the
board (`virt.c`). TLC checks the models on small instances, liveness included;
TLAPS proves their safety properties for every instance. Paths below are relative to `src/infected/modules/`.

## 1. Inventory

| Component | State | Operations | Interacts with |
|---|---|---|---|
| `uart_net` receiver (`uart_net.c:236-356`) | `rx_state`, `saved_state`, `rx_skb`, frame length, bytes received, two length bytes and their index, `dev->stats` | one loop iteration of `uartnet_poll` per byte; reset in `uartnet_open`, free in `uartnet_stop` | PL011 receive FIFO, network stack |
| `uart_net` transmitter (`:92-234`) | `tx_state`, `tx_skb`, `tx_current_ptr/count`, `tx_escape_next`, the queue's stopped bit | `uartnet_start_xmit` starts a frame, `uartnet_tx_task` writes it byte by byte | transmit FIFO, work queue, network core |
| `uart_net` contexts (`:92-504`) | the PL011's IMSC/RIS/CR, NAPI state, `tx_work`, the registered handlers | interrupt handler, NAPI poll, work item, `ndo_start_xmit`, open, stop | each other: IMSC is read-modify-written in four of them, two locks guard the transmitter |
| `uart_net` probe/remove (`:506-638`) | bound, driver data, net_device, NAPI context, work queue, handlers | `uartnet_probe` with its error paths, `uartnet_remove` | driver core, users who open the interface |
| `pcie` paging (`pcie_mm.c`, `pcie_swap.c`, `pcie.h`) | chunk and frame descriptors, swap counters, page tables, page lock | `pcieBase_fault` (`fill_vpage`, `evict_page`, `my_swap_pagein`), `pcie_mm_reset` | swap device, page tables of the programs |
| `pcie` character device (`pcie_cdev.c`) | device registration | `mmap`, `ioctl`, init/exit | paging |
| `pcie` module and proc file (`pcie_main.c`, `pcie_proc.c`) | the adapter: swap device, character device, proc directory | init and exit in order, `/proc/pcie_mm/total_swap` | paging, the board's RAM |
| `user_copy.c` | none of its own | map, reset, fill, read back | character device |
| `virt_fan` (`virt_fan.c`, `fan_trans.c`, `virt_trans.c`) | PWM buffer, fans, two mutexes, timer, work items | sysfs store/show, timer, work callback, `fan_write` with retries, probe, remove | one of two transports; the writable parameter `num_fans` |
| `virt_temp` | one temperature and its mutex | sysfs store/show, probe, removal | none |
| `notifier_chain` | none | a demonstration | none |
| QEMU `virt.c`, `virt.h` | memory map, GIC version, created regions, interrupt lines, chardevs | `machvirt_init`, which the repository changes in four places to add a second UART | the guests: `uart_net` on that UART, `pcie` on a window of RAM |

What is hard here:

* **Deframing a byte stream.** The length field comes from the line and sizes a
  buffer; bytes are escaped; the receiver has no timeout, so after a lost byte
  or a restart it must find the frame boundary from the bytes alone.
* **Five contexts, one register, two locks.** IMSC is updated without a common
  lock; `tx_state` is published before the fields it guards; an interrupt that
  stays masked stops a direction for ever.
* **Page faults in parallel.** `pcieBase_fault` runs with `mmap_lock` held for
  reading, sleeps in swap I/O, and no lock guards the descriptors.
* **Locks, retries and a timer in `virt_fan`.** Two locks are taken in both
  orders; the files exist before the locks are initialised; work items are queued
  whether or not the last one is done; a parameter read again and again changes.
* **Error paths.** Probing and loading take five to seven steps, each of which
  may fail, while users already open what has been registered.
* **A memory map in wrapping arithmetic**, interrupt lines and serial lines handed
  out from tables, options that are accepted and refused in several places.

`PROJECT.json` lists each hazard at its line with the properties that would
catch it.

## 2. Modules

| Module | Models | Composes |
|---|---|---|
| `UartRx` | the receive state machine on arbitrary bytes | |
| `UartLink` | transmitter, a byte line, the peer's receiver | extends `UartRx`; instantiates `FrameChannel` |
| `FrameChannel` | abstract: a reliable FIFO of frames | |
| `UartLinkProofs` | theorems about `UartRx` and `UartLink` | extends `UartLink` |
| `UartNet` | the five contexts and the hardware and kernel they share | |
| `UartNetProofs` | theorems about `UartNet` | extends `UartNet` |
| `PcieMm` | programs, page faults, swap | instantiates `ChunkMemory` |
| `ChunkMemory` | abstract: an array of chunks that remember | |
| `PcieMmProofs` | theorems about `PcieMm` | extends `PcieMm` |
| `VirtFan` | the fan driver with either transport | |
| `VirtFanProofs` | theorems about `VirtFan` | extends `VirtFan` |
| `VirtBoard` | `machvirt_init` on one command line | |
| `UartProbe` | probe and remove of `uart_net` | |
| `PcieModule` | init and exit of `pcie`, its programs | |
| `VirtTemp` | the temperature driver | |
| `UartProbeProofs`, `PcieModuleProofs`, `VirtTempProofs` | theorems about these | each extends its module |
| `Machine` | the board and a guest on it | extends `VirtBoard`, `UartProbe`, `PcieModule`, `VirtTemp` |
| `MachineProofs` | theorems about the board and its guest | extends `Machine` and the proofs of its three drivers |
| `MC*` | instances for TLC | |

Definitions keep the C names where they can: `uartnet_poll_byte` is one
iteration of the loop of `uartnet_poll`, `pcie_mm_reset` is the function of that
name, `rx_state` the field. Definitions named after a broken form of another one
(`RxStopNoFree`, `EvictZapForgotten`) are mutants: plausible bugs, used by no
specification, each of which one property is known to catch.

**UartRx.** One action per state of the `switch`. `State` and `Unescaped` are
the `goto restart` after an escape: in state `ESCAPE` the byte is XORed with
0x20 and processed again in `saved_state`. A buffer is the sequence of bytes put
into it and the room it was allocated; `live`, `frames` and `aborted` are
history. `rx_bytes` is left out.

**UartLink.** A step of the transmitter is one iteration of the loop of
`uartnet_tx_task`, guarded by `FR_TXFF` (the line is full). The line is external:
sender's FIFO, wire and receiver's FIFO in one sequence of at most `LineCap`
bytes, that may lose `MaxLost` of them (an overrun). The two sides
together may be taken down and up again `MaxStops` times, in mid-frame too;
`cut` counts the frames that a stop of the sender cuts off.

**UartNet.** A step is one access to something shared. `writel(readl(IMSC) op
bits, IMSC)` is two steps. `CanRun` is the scheduler: with `SMP` all contexts
interleave freely; on one CPU only what really preempts does (an interrupt a
poll, anything `open`/`stop`, the stack's answer to a delivered frame the loop of
a poll; `start_xmit` and `tx_task` run with interrupts off). Frames are a number
of bytes. PL011, NAPI (`off`, `idle`, `sched` and its MISSED bit) and the work
queue are external and modelled by what the driver relies on. `tx_current` says
whose bytes `tx_current_ptr` describes, which is how a task that runs ahead of
`start_xmit` shows. `late` remembers that the last `uartnet_stop` masked the
interrupts while a handler, or a poll past its `napi_complete_done`, was still at
work; on one CPU that cannot be. Memory is sequentially consistent.

**PcieMm.** Threads fault, and a fault is split where the code sleeps or where
another CPU's step matters. A chunk is two parts: the page the fault returns
(`head`) and the rest, mapped by `remap_pfn_range` (`tail`). `BUG()`, a NULL
descriptor dereferenced and a double `remap_pfn_range` all lead to `dead`.
Contents are one value per chunk. Transfers may fail, which the code ignores.
A reset comes where `user_copy.c` asks for it, after the mapping and before the
first access (`Untouched`), or with `ResetAnyTime` at any time.

**VirtFan.** Threads are users in a sysfs call, workers in a work item, and the
thread that probes and removes; a step is a lock operation, a transfer or an
access to shared data. A PWM value is its age (how many were set before it), so
that "older" and "newer" can be stated. `transport` is chosen at the start:
`virt_trans.c` reads the PWM buffer under `pwm_buf_lock` while `mcu_lock` is
held; `fan_trans.c` makes a read of a command and a fetch, either of which may
fail after it has reached the controller, and `fan_write` over it repeats even
what succeeded, because `_fan_write` returns the number of bytes. A zeroed mutex
(before `fan_init`) can be taken but not waited for; `early` remembers that
one was. Oopses end a behaviour (`Panic`).

**VirtBoard.** One action per stage of `machvirt_init`, in its order; each
creates its devices or ends QEMU. `opts` is the command line, `memmap`, `gic`
the computed map and version, `mapped`, `lines`, `backend` what
`memory_region_add_subregion`, `sysbus_connect_irq` and `qdev_prop_set_chr` have
been asked for. Addresses are in units of 64 KiB and their sums wrap at
`AddrUnits`. What comes from files and from QEMU's other parts is an option: whether
the image of `-bios` is found and loads, whether a flash image has the size of its
device (`FirmwareRefused`), whether the kernel loads, whether the second chardev is a
multiplexer, which takes several front ends.

**UartProbe, PcieModule, VirtTemp.** One action per step that can fail or that
others can see the result of. Open and stop are single steps in `UartProbe`:
`UartNet` is their inside. `PcieModule` follows what is registered (`held`), the
swap device and the proc entries; an entry of a module that is gone is `stale`,
and reading it an oops. Programs open the device once the module is live; an open
through a node made by hand, between `cdev_add` and the end of `pciebase_cdev_init`,
is left out. `VirtTemp` has a mutex that is never initialised.

**Machine.** Boots the board on some command line and, if it runs, one guest
uses one of the drivers, which share no state. The board says whether the window
that `pcie_init_phymem` touches is RAM: all of it, which is the 23 GiB that `run.sh`
asks for (page structures come in sections, so a little less may do).

## 3. Runs

Passing:

| Run | Bounds | What it shows |
|---|---|---|
| `uart_rx` | MTU 1 + header 1, 8 line bytes (the three special ones, an escaped 0x5A, lengths 0-3), 2 headers | the receiver never writes outside a buffer, leaks none, accounts for each header and delivers only legal frames, whatever arrives, with failing allocations and restarts |
| `uart_link` | 2 of 7 frames, real MTU, line of 3 bytes | frames without 0x5A arrive unchanged, in order, once, and eventually (refinement of `FrameChannel`) |
| `uart_link_faults` | 4 frames of at most 4 bytes, 1 lost byte, 1 restart, failing allocations | unless a byte is lost or the sender cuts a frame off, nothing is delivered that was not sent, even if a frame holds what looks like a frame; each fault costs a bounded number of frames |
| `uart_net` | one CPU, frames of 3, FIFOs of 2, 2 received bytes, a poll of 1 frame, 2 opens | neither interrupt is lost (receive: except to an interrupt inside `open`), no stale pointers, no frame meets another, quiet after `stop`; the queue is woken, bytes are read, open and stop return |
| `pcie_memory` | 1 thread, 3 chunks, 2 frames, 5 faults | page tables and swap counters agree with the descriptors, the chunks refine `ChunkMemory`, every fault returns |
| `pcie_races` | 2 processes, 2 chunks, 1 frame, 4 faults, failing I/O, resets at any time | a `BUG()` needs overlapping faults, a reset inside a fault, or a tail touched before its head; without them the descriptors agree |
| `virt_fan` | 2 users, 1 worker, 1 fan, 2 attempts, 1 store, 1 write of `num_fans`, 1 failed transfer, both transports | the locks exclude unless used before `fan_init`; the only deadlock is a read against the work item over the virtual transport; reads are fresh and not mixed up; nothing runs after the removal |
| `virt_fan_live` | 1 user, 2 workers, I2C | the controller never goes back to an older PWM, a set PWM reaches it, every call, work item and removal ends |
| `machine` | 392 command lines, an address space of 4 TiB, 3 probes, 3 loads, 2 open files, 2 users of `virt_temp` | regions are disjoint, interrupt lines and serial lines exclusive, the GIC fits, ordinary machines whose images load boot; `uart_net` is bound or leaves nothing, its handlers never outlive what they use; `pcie` unwinds, and works with 23 GiB of RAM and not with less; `virt_temp` shows what was stored |

Failing, each a disagreement between the code and one of its own comments or
assertions (the findings in `PROJECT.json` quote them):

| Run | Counterexample |
|---|---|
| `uart_link_escape` | an un-escaped 0x5A goes through the switch again and is taken for a new escape: any frame with a byte 0x5A is lost |
| `uart_net_tx_smp` | the work item masks the transmit interrupt of the frame just started |
| `pcie_bug` | two threads fault on one chunk and reach `BUG()` |

Other weaknesses are in the models and are excluded by the wording of the
passing properties rather than shown by a run of their own:

* an interrupt between the unmasking and `napi_enable` in `uartnet_open` masks
  reception for good (`early` in `RxRearmedUnlessEarly` and `RxDrains`);
* on several CPUs overlapping read-modify-writes of IMSC can also leave the
  receive interrupt masked (`uart_net` is one CPU); every open registers one more
  handler (`handlers`);
* on several CPUs work queued for the previous frame can start `uartnet_tx_task`
  between the publication of `tx_state` (`uart_net.c:208`) and the pointer and
  count (213-215). It then finds a count of 0 and spins with interrupts off until
  `uartnet_start_xmit` has set them (`TxPreparedBeforeUse` says so). If, however, a
  handler or a poll outlives the masking in `uartnet_stop` (475), its late write of
  IMSC or its late `queue_work` can start the task for the first frame after the
  next open, and what it finds is the pointer of the frame that the stop has freed
  (`late`);
* after a lost byte, or a stop of the sender in mid-frame, pieces of two frames
  can be joined into one that is delivered (`lost + cut = 0` in
  `DeliveredWereSent`);
* when `platform_get_irq` fails, `uartnet_probe` returns a value nothing has set,
  and if that is 0 the driver core has the device for bound (`noirq` in
  `BoundOrNothing` and `HandlerFindsItsQueue`);
* a reset clears only frame 0's counters (`FrameCountsCover` in `SwapBalance` has an inequality);
* `pciebase_init` ignores a swap device it cannot open, whose error number
  `blkdev_put` and the block layer then follow, and undoes neither swap device
  nor proc file when the character device fails (`noswap`, `excuse`);
* over the virtual transport, which the Makefile links, a sysfs read and the work
  item deadlock (`DeadlockOnlyReadVsWork` says that nothing else does);
* sysfs calls before `fan_init` use locks that are initialised, that is freed,
  under them, and `fan_pwm_init` overwrites what they stored (`early`, `lost`);
* a memory map beyond the end of `hwaddr` wraps (`FitsAddressSpace` in
  `MemoryMapSound`); the SMMU's lines lie inside the MSI frame's (named in
  `LinesExclusive`); `gic-version=host` without an irqchip stays "host" (named in
  `GicServesEveryCpu`);
* `secure=on` with two serial lines that are no multiplexers no longer starts, because the added UART has
  taken the line of the secure one (stated by `SecondSerialToUart2`).

*Why the bounds are enough.* In the receiver, two headers are needed to see a
frame after a damaged one; MTU + header = 2 gives a legal length of 1 and of 2
and an illegal one. The link's frames cover each special byte in the data, two
lengths whose low byte is special, and escaped forms that look like special
bytes; the line is shorter than a frame, so both sides work on one frame at
once. A transmit FIFO smaller than a frame forces `tx_task` to leave in the
middle and wait for the interrupt; two opens are needed for what a stop leaves
behind. Of two received bytes the second can arrive while a poll reads the first,
after the poll has found the FIFO empty and before it unmasks, or be left over when
the budget of one frame is used up (a poll that ended there, `PollAgainForgotten`,
goes unnoticed with one byte). One chunk
more than frames forces eviction, and five faults let a chunk go out and come
back. Two users and a worker of `virt_fan` give every pair of lock holders; two
attempts tell a first from a last one; the second worker is needed for two work
items at once, and then one user is enough, since users never write the
controller. The command lines of `machine` vary one group of options at a time
around the repository's scripts: RAM below, at and above the limits of the map,
CPU counts around 8 and 123, every GIC option with every accelerator, and all
combinations of serial lines, EL3, EL2, SMMU and firmware, every pair of `-bios` and
flash images with a kernel that loads or not. 4 TiB instead of 16 EiB
let the map pass the end of the address space with TLC's 32-bit integers; no
constant of the code is near either. Guests are started on a few of the machines
only, since of the board they see the window alone. The counters `MaxFrames`, `MaxSent`, `MaxLost`, `MaxStops`, `MaxRx`,
`MaxOpens`, `MaxFaults`, `MaxQueue`,
`MaxWrites`, `MaxStores`, `MaxFails`, `MaxProbes`, `MaxLoads` and `MaxFds` only end
the runs. Deadlock is not checked where
these counters, or a `dead` thread, may leave nothing to do.

*Fairness.* `UartNet`: strong fairness of each context, because on one CPU a
runnable context is disabled again and again by others and the kernel still gets
round to it; weak fairness of the UART moving and signalling bytes, the latter
because the driver unmasks the receive timeout together with the receive interrupt, so
that bytes below the trigger level are signalled too (that a byte acknowledged just
before a stop is signalled again after the next open is assumed). Nothing says
that a user sends, opens or stops; a call once begun is finished. `UartLink`:
weak fairness of the transmitter, the receiver and of opening (its progress is
what `uart_net` shows). `PcieMm`: weak fairness of each thread in a fault.
`VirtFan`: strong fairness of a call, a work item, a probe or a removal once
begun, because a mutex is handed on to its waiters but is seen taken and free in
between; weak fairness of the armed timer; no user has to call. `Machine`: weak
fairness of `machvirt_init`.

## 4. Proofs

Every theorem is about all values of the constants that the named `ASSUME` of the
component allows; the bounds of the runs (`MaxFaults`, `MaxOpens` and so on) are
arbitrary numbers in it. Where a theorem needs more, it says so in its own
`ASSUME`, and each of those hypotheses is the setting of the run that checks the
same property, or a weaker one.

| Module | Theorem | States | Needs |
|---|---|---|---|
| `UartLinkProofs` | `RxTypeCorrect`, `RxBufferSafe`, `RxNoSkbLeak`, `RxFramesAccounted`, `RxDeliveredWellFormed` | the receiver on arbitrary bytes: the five properties of `uart_rx` | |
| | `LinkDeliveredWereSent` | `LinkSpec => []DeliveredWereSent` | `NoEscapeChar`, `LengthFits` |
| | `LinkDamageBounded` | `LinkSpec => []DamageBounded` | `NoEscapeChar`, `ShortFrames` |
| | `LinkRefinesChannel` | `LinkSpec => Channel!ChanSafe` | these and `Reliable` |
| `UartNetProofs` | `TxQueueAwakeOnlyWhenIdle`, `NetTypeOK`, `NetTxPreparedBeforeUse` | `QueueAwakeOnlyWhenIdle`, `TypeOK`, `TxPreparedBeforeUse` | |
| | `NetQuiescentWhenDown`, `NetRxRearmedUnlessEarly`, `NetTxArmed` | the invariants of those names | `~SMP` |
| `PcieMmProofs` | `NoBugUnlessRacedHolds`, `FrameOwnedHolds`, `FrameCountsCoverHolds` | any threads, processes, failing I/O, resets | |
| | `PteSoundUnlessRaced` | `Spec => [](PteSound \/ raced)` | `OneProcess`, `~ResetAnyTime` |
| | `PteSoundHolds`, `SwapBalanceHolds` | `PteSound`, `SwapBalance` | `OneThread`, `~ResetAnyTime`, `~AnyOrder` |
| | `MemorySpecHolds` | `Spec => MemorySpec` (refinement of `ChunkMemory`) | these and `~IoMayFail` |
| `VirtFanProofs` | `LocksExcludeHolds`, `DeadlockOnlyReadVsWorkHolds`, `ReadIsOwnAndFreshHolds`, `NothingAfterRemoveHolds`, `McuNeverGoesBackHolds` | the invariants and the action property of those names | |
| `MachineProofs` | `BoardMemoryMapSound`, `BoardLinesExclusive`, `BoardGicServesEveryCpu`, `BoardSecondSerialToUart2`, `GuestPcieNeeds23GiB` | the board's properties under `MachineSpec` | |
| | `GuestRunsDrivers` | `MachineSpec => UartProbeSpec /\ ModuleSpec /\ TempSpec` | |
| | `GuestDriversSafe` | the four properties below, under `MachineSpec` | |
| `UartProbeProofs` | `ProbeBoundOrNothing`, `ProbeHandlerFindsItsQueue` | under `UartProbeSpec` | |
| `PcieModuleProofs` | `ModuleUnloadLeavesNothing` | under `ModuleSpec` | |
| `VirtTempProofs` | `TempShownWasStored` | under `TempSpec` | |

**The receiver.** None of the five is inductive. `BufferSafe` at the byte that
completes the length field needs that no buffer exists yet (`NoEarlySkb`) and that
the byte count was cleared at the header (`LengthFresh`); an escape must not return
to a state without them (`EscapeInv`); `uartnet_open` overwrites `rx_skb` without
freeing it, which is harmless only because a closed interface is idle (`DownIdle`).
`RxInv` is the conjunction, with one lemma per state of the `switch`.
`FramesAccounted` includes that `rx_over_errors` stays 0: the overflow branch of the
data state is dead code, since `BufferSafe` always leaves room there.

**The link.** The bytes the sender has written, is writing and will write are a
stream, and each has a position in it: frame, field, byte of the field, and whether
its escape has been written. `LinkInv` says that the bytes on the line have
consecutive positions (`Chain`) from where the receiver is (`RxAt`: hunting for a
header, or in the middle of the frame with what it has read so far) to where the
sender is (`TxAt`), and that what was delivered comes from earlier frames in
ascending order (`Received`). A step looks at one end of the line only, so no
induction over its length is needed. A hunting receiver cannot mistake a byte of a
frame for a header because no special byte stands inside a frame on the line
(`EscapeUndone`); this is where the proof needs the escaping. `NoEscapeChar`
excludes frames with a byte 0x5A in data or length: for those the refinement is
false, which `uart_link_escape` shows, and nothing is claimed. `LengthFits` (lengths below 65536) is what two
length bytes hold. For the refinement, `ExactInv` strengthens this with "hunting
only at a header" and "delivered exactly the frames before this one"; `Reliable` is
a line without losses, stops and failed allocations, as in `uart_link`. `ChanSafe` is
`FrameChannel` without its fairness.

**Damage.** After a lost byte, or a stop of the sender in the middle of a frame, the
receiver may take anything for a frame. `DamageInv` replaces the chain of positions by
a `Track`: neighbouring bytes on the line may have a gap between their positions, and
each gap knows how many events (losses and cuts) made it. What the receiver has missed
up to its position is `Paid` for by the events in front of that position, at
2 + `MaxLen` div 5 frames each, by the frames it dropped and by those its own stops
aborted. While it is out of step (`Astray`) the payment covers more: one frame for
every five bytes by which what it still awaits (`Awaited`, at most the longest frame)
exceeds what the current frame supplies (`Supplied`). Each byte read lowers both, each
header passed costs five, so the balance never grows until it is hunting again, and
there a header puts it back in step (`PaidRead`); meeting a gap starts it again at the
price of the events in the gap (`PaidGap`).

`ShortFrames` is a condition on the constant that the proof turned up. The bound is
false for some frame sizes: with `MaxLen` = 1194, a frame cut after a length byte 4 lets
the next header 0xAA pass for the low length byte, and the 4 * 256 + 170 bytes then
awaited swallow one frame more than the bound allows. `ShortFrames` asks that `MaxLen`
be below 138 (0xAA ^ 0x20, the smaller value a header can have for the receiver), or
below 138 * 256 and not 4 modulo 5. The driver's `MaxLen`, 256 + 14 = 270, satisfies it, and
so does that of `uart_link_faults`.

**The contexts of `uart_net`.** `uartnet_start_xmit` and `uartnet_tx_task` hold
different locks, so `QueueAwakeOnlyWhenIdle` rests on the order of their steps.
`TxInv` names the places where no frame may be in progress (`NoFrame`: queue awake,
`start_xmit` before its check, `tx_task` between footer and wake, the transmitter
reset by open or stop), says that the first three exclude one another, and that
`start_xmit` runs only while the device is up (`RunningInv`). This and the types
hold on several CPUs, and so does `TxPreparedBeforeUse`, the property of the window
between lines 208 and 213-215. An earlier frame's pointer is there only if a stop cut
that frame off, since a frame that was sent leaves a count of 0. `CutOffInv` says
that from then on, until `uartnet_start_xmit` has prepared the next frame, nothing
can start the task (`TxSilent`): no work is queued, no handler is about to queue any,
and the transmit interrupt stays masked, nobody holding a copy of IMSC with its bit to write back;
unless a handler or a poll was under way when `uartnet_stop` wrote 0 to IMSC
(`late`). The other three are proved for one (on several, `TxArmed` is
false, as `uart_net_tx_smp` shows): `OneCpuInv` says which contexts can be suspended under which
(`OneAtATime`), that a suspended read-modify-write of IMSC therefore writes back
what is there except for the RX bit of a poll (`MaskKept`), what each step of
`uartnet_stop` has shut down (`ShutDown`), and what keeps each direction going
(`RxReady`, `TxReady`). Each action has a lemma that states its effect (`XmitEnterFx`
and so on); the invariants are proved from those.

**Paging.** `raced` becomes true when faults overlap, a reset falls into a fault, or
a tail is touched first. Until then (`Calm`) at most one thread is in a fault
(`Alone`), the descriptors agree except where that fault has moved them
(`FaultState`, by its program counter), every frame in use has one owner, and a head
is never mapped without its tail. `PteInv` adds that entries exist only in mapped
vmas and that the victim has none left when its frame moves; this needs that the
faulting mapping is the only one (`OneProcess`), since `evict_page` zaps no other,
and that a reset finds no entries. A thread alone, touching heads first, cannot
race, hence `PteSoundHolds`. For the refinement `MemoryInv` adds that a chunk coming
back has been read into its frame before it is `IN_MEM` (`Returned`); a step of the
driver keeps `Content` and a write of the program changes it in one place.
`SwapInv` adds that nothing is out while a frame is free. That the per-frame
counters cover the totals is a statement about a sum over all frames, `FrameSum`, a
recursive function; what it computes is proved by looking at the least frame where
it would not (`LeastFacts`, `SumsExist`, `FrameSumCounts`).

**virt_fan.** `FanInv`: an owner is inside its lock and, unless a lock was taken
before `fan_init` (`early`), who is inside is the owner; the timer, the queue, the
workers and the callers exist only in their phases of probe and remove
(`PhaseInv`); a work item in a transfer holds the current PWM and the controller is
never ahead of it (`WriteInv`); a reply belongs to the caller inside (`ReadInv`).
The deadlock theorem follows from what each waiting place holds and wants.

**The board.** `MapInv` lists the regions that can ever be mapped with their bases
as functions of the command line; that they are disjoint is then arithmetic on the
tables and on rounding (`AddFacts`, `RoundUpFacts`) for an address space of any
multiple of 512 GiB. `GicInv` says when the version is settled and that the CPUs fit,
`SerialInv` that the serial lines are given out together. `PcieNeeds23GiB` relates
the board to the guest's driver and uses `ModuleInv`.

**Life cycles.** The three drivers of the guest are proved as specifications of
their own, of whose steps a guest of `Machine` is made; `GuestRunsDrivers` says that
the machine implements them, and `GuestDriversSafe` carries their properties over.
What a failing step of
`uartnet_probe` must undo depends on how far the call got, so `ProbeInv` says for each
`pstep` exactly what exists. `ModuleInv` says what is registered before each step of
`pciebase_init` (`HeldAt`), that an open file keeps the module live, and between which
steps the proc entries exist. `TempInv` follows a value from a call to the device and
to another call, and needs that without a file nobody is in one, because the history
is forgotten with the device.

Only model-checked is liveness, which is outside the prover's reach: `QueueWakes`,
`RxDrains`, `OpenStopReturn`, `FaultReturns`, `PwmReachesMcu`, `FanCallsReturn`,
`OrdinaryBoots` and the fairness half of `ChannelSpec`.

## 5. Not modelled

* Of `virt.c`: the device tree, the wiring inside a CPU (timers, PMU), hotplug of
  memory and CPUs, ACPI and SMBIOS tables, property setters, and the machine types
  before 6.2: they add nothing to the map, the lines or the serial lines, or they
  are third-party tables. Exits for want of host resources (memory, `create_device_tree`,
  a device that cannot be realised for other reasons than those above), for NUMA
  and for CPU properties are left out too: `OrdinaryBoots` is about the conditions that
  `machvirt_init` and its callees themselves check.
* The `pwm_enable` files of `virt_fan`, which store a number nothing reads; PWM
  and RPM values; module registration of `virt_fan` and `virt_temp` (a macro).
* `uartnet_probe` asks `alloc_netdev` for no private area (`uart_net.c:522`):
  whether there is room is up to the allocator, so the models take `priv` for usable.
* `rx_bytes`/`tx_bytes` (the former read after the buffer was handed on,
  `uart_net.c:337`), the Ethernet header that `eth_type_trans` takes off frames of
  any length (`:333`), logging, baud rate and line control.
* PCIE_CMD_GET_PTE, which only logs; argument parsing and timing of `user_copy`.
* What two threads of one program read while one of them evicts: the loss is
  real but nothing in the repository promises otherwise.
* `notifier_chain`, which has no state.

## 6. Plan

Done: every component with state has its module, and every safety property of a
passing run its theorem. When the driver changes: a change of `UARTNET_MTU` must be
held against `ShortFrames`, and a new path through `uartnet_poll` needs a case in
`ByteTaken` and `PaidRead` besides the invariants of the receiver.

# leicaefi-skymaster: a TLA+ verification project

The repository is a set of Linux kernel modules for the EFI chip of a Leica
device: an I2C companion chip with LEDs, keys, batteries, chargers, a one-wire
bus and its own flash. This directory models the parts in which threads,
interrupts, callers and failing transfers meet, checks the models with TLC on
small instances, and proves the most important properties with TLAPS for every
value of the constants.

Paths below are relative to `src/src/` unless they start with `include/`.

## The system

| Component | State it keeps | Operations | Talks to |
|---|---|---|---|
| Chip access, `core/leicaefi-chip.c` | command lock, command state word, wait queue | register read, write, set bits, clear bits; `leicaefi_chip_gencmd`; two interrupt handlers | regmap/I2C, every driver |
| Nested interrupt controller, `core/leicaefi-irq.c` | requested and current mask, wake count, bus lock | bus lock, enable, disable, set_wake, sync; threaded handler; init, delete | chip access, parent interrupt, consumers |
| Core probe, `core/leicaefi-core.c` | none but devm's list | allocate chip, check hardware, add irq chip, init chip, create children | all |
| Character device, `chr/leicaefi-chr.c` | region, cdev, class device | create, open, ioctl dispatch, remove | the ioctl files |
| Flash and mode ioctls, `chr/leicaefi-chr-flash.c` | operation lock, state word, wait queue | 8 ioctls, two interrupt handlers | chip access, interrupt controller |
| Register ioctls, `chr/leicaefi-chr-reg.c` | none | read, write, set and clear bits of any register, no lock | chip access |
| LED test mode, power source, one-wire ioctls | none | commands and register reads | command channel, chip access |
| LEDs, `leds/leicaefi-leds.c` | delays, interval, previous state per LED; worker thread; lock | brightness, blink, worker round, probe, remove | chip access, LED class |
| Keys, `keys/leicaefi-keys.c` | input device | interrupt handler, probe | chip access, input layer |
| Batteries and chargers, `power/*.c` | power supply devices | property reads | command channel, chip access |
| Reboot hooks, `reboothook/*.c` | saved global function pointers | install, restore | chip access, kernel globals |

The components meet in three places. All of them share the chip's registers
over one I2C client without a common lock (only single transfers are atomic).
The interrupt controller delivers the chip's events to handlers of the command
channel, the flash code and the keys. And the command channel
serialises the commands of batteries, chargers and ioctls.

What is hard to get right here, and hard to test:

* reading IFG and ERR clears them, and the parent interrupt is edge triggered:
  every read that fails, comes at the wrong time or is made by someone else can
  lose an event or leave the line low for good;
* an I2C write may be reported failed after the chip has acted on it;
* command and flash waits have neither timeout nor signal, so each promise of a
  wake-up matters;
* the handler thread reads masks without the lock that writers take;
* the register ioctls take no lock at all;
* LED requests, the blink worker, probe and removal change the same registers,
  and part of the state (`prev_state_on`) is a copy of what a register should be;
* the blink worker's thread pointer is changed outside the LED lock.

`PROJECT.json` lists these, with their lines, under `hazards`.

### What makes each component correct

* Interrupt controller: IE is what the masks say; a low line is always going to
  be read; every event of an enabled interrupt reaches its handler; the wake
  depth of the parent equals the number of armed interrupts; nothing from before
  the probe stays in the chip's registers (the handler thread may still deliver what
  it copied while initialisation ran).
* Command channel: an unlocked channel accepts the next command; the chip never
  executes two; a caller is told the fate of its own command and reads its own
  answer; every call returns.
* Flash: as the command channel, for every ioctl; only the opposite partition is
  checked; a reported success is in the memory.
* LEDs: a blinking LED goes on and off; two LEDs of an icon blink inverted;
  battery LEDs are left alone without a worker (except by a request that tested for
  it just before the reset, see `leds_battery`); the panel looks the same after
  every removal.
* The three together: a caller that sleeps until its command's interrupt arrives
  is never forgotten between the chip, IFG, ERR and the handler thread; handlers
  run for interrupts of their own kind only; the input layer does not stay out of
  step with a key.
* Register access: each ioctl and driver reaches the register it names, with the
  operation it names.
* Batteries, chargers and small ioctls: a caller is told success exactly if every
  step succeeded; a missing battery is told apart from a cold one; the two LEDs of the
  test mode agree.
* Life cycle: nothing that can be called outlives what it works on; an unbound device
  has nothing left in use; the reboot hook is that of a driver that is there. The
  exceptions are the region and cdev of a failed probe of the character device,
  and hooks taken back out of order.

## The modules

| Module | Models | Role |
|---|---|---|
| `IrqChip` | `core/leicaefi-irq.c` | controller, handler thread, chip's line and registers, init and delete |
| `MCIrqChip` | | instance values |
| `IrqChipProofs` | | invariant, safety theorems, distance of every event from its handler |
| `Gencmd` | `core/leicaefi-chip.c`, generic commands | callers, state word, handlers, command unit |
| `CommandChannel` | | abstract specification `Gencmd` implements |
| `GencmdProofs` | | invariant, safety theorems, refinement, rank of a call |
| `Flash` | `chr/leicaefi-chr-flash.c` | 8 ioctls, handshake, handlers, flash unit |
| `FlashDevice` | | abstract specification `Flash` implements |
| `FlashProofs` | | invariant, safety theorems, refinement, rank of an ioctl |
| `Leds` | `leds/leicaefi-leds.c` | requests, worker, probe, removal |
| `MCLeds` | | instance values |
| `LedsProofs` | | rounding lemmas, invariant, safety and action theorems, rounds to a turn |
| `Registers` | `core/leicaefi-chip.c` (command byte), `chr/leicaefi-chr-reg.c`, hardware check | pure operators |
| `RegistersProofs` | | what the chip takes out of each byte |
| `Keys` | `keys/leicaefi-keys.c` | two events in a register, handler, input layer |
| `Core` | the drivers on one chip | composes `IrqChip`, `Gencmd`, `Keys`, `Registers` |
| `CoreProofs` | | invariants, safety theorems, steps and theorems of the parts, rank of the whole |
| `Power` | `power/*.c`, `chr/leicaefi-chr-led.c`, `chr/leicaefi-chr-power.c`, `chr/leicaefi-chr-onewire.c` | clients of the channel and of single reads |
| `PowerProofs` | | conversions, invariant, safety theorems, steps of the channel, rank of a call |
| `Lifecycle` | `core/leicaefi-core.c`, `chr/leicaefi-chr.c`, `reboothook/*.c`, probes and removals of all children | probe, failed probe, removal, hooks |
| `LifecycleProofs` | | invariant, safety theorems, rank of a stay |

`Core` instantiates the modules it composes (`Irq`, `Cmd`, `Key`, `R`) on one set of
variables; `Power` instantiates `CommandChannel`, the specification that `Gencmd` is
proved to implement.

Conventions. A kernel thread or lock holder has a program counter; one step ends
where another thread may act in between, so at each I2C transfer, each atomic
exchange, each sleep and each unlock. Where a lock is held from the first read to
the last write and all that is read is under it (a round of the LED worker), the whole
handler is one step; a LED request also tests `worker_tsk`, which changes outside the
lock, and is two. A transfer ends in one of three ways: done, failed without
effect (`lost`), failed after the chip acted on it (`applied`). `MaxFaults`
bounds the failures of a behaviour. Operators named "Faulty variant" describe
plausible mistakes in the code; no specification uses them, they show that
each property notices something. Variables marked "history" are written but
never read by a guard.

### IrqChip

`phase` follows `leicaefi_irq_chip_init` and `leicaefi_del_irq_chip`, `step` the
consumer that holds the bus lock, `thread` the handler `leicaefi_irq_thread`.
`mask_requested`, `mask_current` and `wake_count` are the fields of the struct;
`ie`, `ifg`, `err` the registers as sets of bits. The bit of an interrupt is named
by its number (the masks of one register differ), `ErrBit` is the summary bit.
`LatchEdge` computes the falling edge from the change of `ie` and `ifg`.

The parent interrupt is requested (`core/leicaefi-irq.c:285`) before IE is cleared and IFG and ERR
are read (299-325), with whatever IE an earlier owner left. A low line then starts the handler, which
may copy an old event from IFG and be overtaken by the rest of initialisation; a consumer that
enables the interrupt before the handler comes to it is handed the old event. `UpWithoutStale` says
what holds: once the chip is up its registers hold nothing old, and the copy does only
in the run that was under way. `NoStaleDelivery` states what does not hold; added to
`IrqChipFaults.cfg`, TLC shows this behaviour, without any fault.

The controller calls back into genirq, so two facts of genirq are part of the
model: operations are called with the bus lock held, and `set_wake` only when the
state changes. The handler of a consumer runs when both `mask_current` and
genirq's own state, which is `mask_requested`, allow it.

`dirty` holds IE bits whose last write was reported failed (the code only logs
it); `read_fault` says whether a read of the handler failed since the controller
was added, and in which way; `owed` the events latched while their interrupt was
enabled by both masks and IE; `stale` what was pending before the probe, `stale.chip` in the
chip's registers and `stale.copy` in the handler thread's copy of them. The
properties that mention them say: this holds except for what those faults do.

### Gencmd and CommandChannel

Only the holder of `gencmd_lock` is inside `leicaefi_chip_gencmd_request`, so
there is one `pc`. `running` and `signals` are commands the chip executes and
interrupts it raised; each is tagged `cur` if it belongs to the holder's request,
and re-tagged `old` when the lock is released. The order in which a completion and
an error signal that are both outstanding are delivered is left open, which
covers the order of the handler's walk. `tainted` becomes true when the chip was
started on something nobody waits for: a write of CMD_CTRL that was reported
failed but acted upon, or a register write of the character device.

`CommandChannel` has no lock, state or interrupt: a caller asks, is served, the
chip executes its command at most once, and the reply is what became of it, or an
I/O error.

### Flash and FlashDevice

Same handshake, written out four times in the code with its own error paths, and
four ioctls without it. One `pc` and the request `op` stand for the eight
functions: their common steps are the same actions, and what differs (the mode check,
the address register, the error code) is a case in the action. An address stands
for a word that is a segment of its own, so that erase and write meet; word values
are written or blank. Whether the WREN bit lets a write through is left to
the chip, which may answer any operation with an error. Copying arguments to and from user
space changes no state here and is left out. `chr-reg.c`'s writes are `RawWrite`.

### Leds

`efidev->lock` is held for the whole of each request and worker round, and `request` is the
request that holds it. A round is one step; a request is two: `Begin` takes the lock and
tests `worker_tsk` (`Spares`), `Serve` does the rest, since `StartWorker` and `ForgetWorker`
change the pointer without the lock. `worker` is `worker_tsk # NULL`; an error
pointer stays in it for a moment. Each register update may fail between
clearing and setting bits. A LED is lit or not: DIMMED, which requests and the worker write, and
FULLY_ON, which the end of removal writes for the power LED, are both lit. `disturbed` holds the blinking LEDs whose register was
written past `prev_state_on`: by a brightness request above zero, by the
initial brightness, or by an update that failed. The bit pattern trigger exists only with a
patched kernel and is left out. So are writes of the LED registers by the register
ioctls and the chip's LED test mode: they change LEDs past this driver by design.

### Registers

The command byte, what the chip takes out of it, the numbers the register ioctls accept
and the byte each sends, and the fields of the identification word. There is no state;
`Core` uses the operators for the register ioctls, and the theorems are about
every byte.

### Keys and Core

`Keys` holds KEY_DATA as two bytes, the input layer's view `input` and the keys themselves.
Which byte holds the older of two events is the chip's choice; that it is
the high one, which the handler reports first, is an assumption.
`key_fault` says whether a failed read left events in the register or lost them.

`Core` starts where probe ends, with all interrupts enabled and none pending, and models
three hwirqs in the order of `core/leicaefi-irq.h`: key, completion, error. A step of the
command unit no longer hands its interrupt to a handler, as in `Gencmd`, but latches it
(`Irq!Raise`); the thread's loop calls the handler (`Dispatch`), and while the handler
runs the loop stands still (`HandlersIdle`). Each handler is as long as in its own module:
two steps for the command channel, a failing transfer for the keys. The register
ioctls are one action with the byte of `Registers`: reading clears IFG, ERR or KEY_DATA
under the drivers' feet, writing changes IE or starts a command. `meddled` says that an
ioctl took pending interrupts away or changed IE; `read_fault` is `IrqChip`'s. All
callers want the answer, and none is interrupted while it waits for the lock, cases
`Gencmd` covers.

`CommandSteps` closes the gap between `Gencmd`, which takes for granted that each
interrupt reaches its handler, and the drivers: what callers, handlers and chip do in
`Core` is a step of `Gencmd`, or changes nothing that module sees.

### Power

The clients of the channel keep no state between calls, so a task is its call (`op`),
how far it is (`pc`) and what it will return. A battery message checks the presence, asks the
channel, and converts the answer; the LED test mode asks twice without a lock in between; the
rest is one register read. Plugging the battery in and out happens at any time. The comment at
`power/leicaefi-battery.c:80` says that without a battery the chip "may hang forever", so the
chip executes a message only while a battery is there; a battery pulled between
the check and the command then blocks the channel for everybody, and `CallReturns` says that
nothing else does. A command that the chip reports as failed has had no effect; one whose
transfers failed may have been executed all the same (`RepliesEio`), and the test mode changed.
`split`, `overlap` and `absent` are history: two LED calls that met, or one that failed
halfway or was told so of a command that was executed, may leave the LEDs in different modes, which the code accepts. The default of
0 for a missing battery passes through the same conversion as an answer
(`power/leicaefi-battery.c:186`), so `AbsentTold` asks that no battery can answer it.

### Lifecycle

Each probe is a sequence of steps; `stage` counts those done and not undone, `live` holds
the resources in use whose driver is there. A step may fail, and devres then releases what
came before in reverse order (`Undo`). `Manual` are the resources devres does not know: a removal
takes them back itself, but no callback runs after a failed probe, which leaves them in use
without a driver (`LeaveBehind`, `chr/leicaefi-chr.c:196`): they move from `live` to `orphans`, for good.
Removing the core unbinds the children first, unloading the
module of the character device unbinds its device. `Needs` says what the functions
reachable through a resource make use of, driver by driver, read from the handlers, callbacks and
attributes. `NoDangling` asks for all of it in `live`, of `orphans` too, with one exception: the cdev,
which still leads into memory that devres has freed. A failed `class_create` is not noticed (`chr/leicaefi-chr.c:241` looks for `NULL` only),
and then no character device can be created. `arm_pm_restart` and `pm_power_off` are
saved and written together, so they are one `hook`; another driver does the same, at any
time. Taken back in the wrong order (`crossed`), the hook of a removed device is put
back, by `OtherRestores` for this driver's; `HooksNest` and `NoDangling` except just that.

## The runs

| Run | Question | Instance |
|---|---|---|
| `irqchip_faults` | Do masks, IE, line, events and wake depth stay consistent under any interleaving with a failing transfer, over probe, removal and a new probe, and is every event of an enabled interrupt delivered? | 2 interrupts, one of them an error interrupt, 1 fault; both may wake the system |
| `gencmd_faults` | What survives failing and ambiguous transfers and a register write past the driver, and does every call return? | 2 callers, 2 faults, 1 raw write |
| `gencmd_channel` | Do callers see the abstract channel? | 3 callers, 2 faults without effect |
| `flash_faults` | Is the device usable, and are answers true, after any sequence of flash ioctls with a fault and a raw write? | 1 caller, 2 addresses, both modes |
| `flash_device` | Do two competing callers see the abstract device, and do their ioctls return? | 2 callers, 2 addresses, 1 fault without effect |
| `leds_removal` | How does the panel look after removal, failed probe and probe again? | 2 icon LEDs and a battery LED, 1 fault |
| `leds_blink` | Do LEDs blink, and inverted when paired, whatever the order of requests? | 2 LEDs of an icon, delays at the default, at the cap and beyond the overflow |
| `leds_icon` (violated) | Does the inversion hold without the exceptions? | as above, no fault |
| `leds_battery` (violated) | Does a removal leave the battery LEDs alone, whatever request is under way? | as `leds_removal`, no fault |
| `core` | Do interrupts find their way from the chip to callers and keys with a fault or a register ioctl in between, and are the steps those of `Gencmd`? | 1 caller, 1 key that changes twice, 1 disturbance: a failing transfer or a register ioctl of any kind |
| `power_clients` | What are callers told, and do the LEDs agree, while the battery comes and goes? | 2 tasks, 5 calls, 1 fault, 1 plugging |
| `lifecycle` | Is everything in use while it can be called, and nothing left, for probes and removals in any order? | core, chr module, `chr` and `reboothook`, another hooking driver |

Why the bounds are enough to be interesting. Two interrupts are one of each kind,
and one consumer's sync can overlap the handler's walk over the other. One fault, at any
transfer, reaches every error path of sync, handler and initialisation; the theorems lift
both bounds. One ambiguous start plus
the next request of another caller is all that is needed for a late interrupt to
meet the wrong request; a third caller queues behind both. In the flash model one
caller is enough for sequences of operations with leftovers of the previous one,
and two compete for the lock. LED delays of one and two intervals give equal and
unequal cycles, and a word of 8 values makes the rounding wrap at the largest delay, as
`unsigned long` does at its own.

In `core`, one caller suffices for a wait, a late interrupt and the next command; the key's
interrupt precedes the others in the loop and its handler delays them, and two changes fill
both bytes of KEY_DATA. One disturbance of either kind at any moment shows what it can
part; the theorems lift all of these bounds. In `power_clients` two tasks are what is needed for two test
mode calls to meet, and for one to wait behind a battery message. `RawValues` has one
answer, and the conversions are proved for all. The two children of `lifecycle` are those with
hand-written removal, global state and a second owner; the other three hold devres'
resources alone, or, for the LEDs, one thread, and are in the proofs.

Deadlock is checked in every run but `core`, where the system may really stop: a failed
read of IFG that the chip did not see leaves the line low for good, and the caller waits.

Fairness. `WF(Thread)`, `WF(Holder)`, `WF(Handler)`, `WF(Worker)`: kernel threads
that block only on I2C, on the lock they hold, or in the sleep the model shows.
`WF(Task)`, `WF(Goes)` and the
like: calls, probes and removals that have begun run on. `WF(Finish)`, `WF(Chip)`: a chip that answers what it was started on, the assumption under which
the code waits without timeout. `SF(Acquire)`, `SF(Serve)`: mutexes are handed to their waiters
in turn. In `Leds`, `WF(Serve)`: a request that has the lock runs on. Users, events and faults have no fairness. In `irqchip_faults` an event may also be
given up because its consumer disables the interrupt, or be lost with a failed read of IFG or ERR.

### The violated runs

`leds_icon` checks what the comment at `leds/leicaefi-leds.c:248-250` says, that
two LEDs under one icon blink "in inverted cycle (if same parameters are set)". In TLC's
behaviour both are made to blink as soon as they are registered; the probe then writes
its initial brightness (line 616) and lights one of them, but leaves its delays and `prev_state_on`;
the worker sees no toggle and skips the write, and both are lit. A brightness
request above zero on a blinking LED (line 215) and an update that failed (line 284) lead
to the same state. `leds_blink` shows that nothing else does: with LEDs excepted
that one of the three has `disturbed`, the inversion holds.

`leds_battery` checks the comment at line 181, "do not change battery led status on device
removal". A request takes the lock and finds `worker_tsk` set, remove stops the thread and
resets the pointer without the lock (line 661), and the request goes on to write the
battery's LED. `leds_removal` and `BatteryKeptAlways` confine it to a request that was already past its test.

## What is proved

`IrqChipProofs`, under `IrqAssumption` (any number of interrupts, any split into
plain and error interrupts, any number of faults). The properties are not inductive:
whether IE agrees with the masks while the lock is free depends on what IE holds
at each step of the sync, and whether an event is lost depends on where it is. `IInv`
says both: `IeInv` gives IE at each step from the masks and the sync's own two
masks; `OwedInv` locates each owed event, behind an enabled bit in the chip, or in the
thread's copy at an index the loop has not passed. `StaleInv` follows an old event from the
registers into the copy and out of it. `LineInv` needs that the parent
interrupt is requested in each phase in which the line counts. `Inductive` is proved action
by action, and the properties follow: `IeMatchesMasksAlways`, `LineNeverStuckAlways`,
`NoLostEventAlways`, `WakeBalancedAlways`, `UpWithoutStaleAlways`, `TypeCorrect`.
`EventsComeNearerAlways` counts the steps of the thread from each owed event to its handler,
from the same location: if the pass under way does not come to the event, the event is
in the chip behind an enabled bit, the line is low, so an edge is latched for a next pass.

`GencmdProofs`, under `GencmdAssumption` (any set of callers, any bounds).
`CleanInv` says for each step of the holder what is under way: nothing, an executing
command, a raised signal, or an answered request, and which state the word has with
it. `StateInv` is what remains without the assumption of a clean history.
From these follow `FreeMeansIdleAlways`, `NeverPendingUnlockedAlways`,
`NoLostWakeupAlways`, `OneCommandAlways`, `OwnAnswerAlways`; and, for `MaxRaw = 0`
and faults without effect, `ImplementsChannel`: every step of the handshake is a
step of the abstract channel or changes nothing a caller sees. `ChannelStepsAlways`
drops both restrictions and asks only that no command was started that nobody waits for.
`RefusesForGoodAlways` says what such a command can cost: once its interrupt has left the word
DONE or FAILED, the channel refuses every later call, for good.

`FlashProofs`, under `FlashAssumption` (any set of callers and addresses, any
bounds). The invariant is built as that of `Gencmd`; `Executed` adds what a completed
operation has done to the memory or the mode, `AddrInv` that the address register
holds the caller's address when it is used, and `Fresh` that what is checked or switched to is not
the running partition. `UnlockedIsIdleAlways`, `NeverLeftPendingAlways`,
`OppositeCheckedAlways`, `AnswerIsTrueAlways` follow, and `ImplementsDevice` under
the same restriction as `ImplementsChannel`; `DeviceStepsAlways` and `RefusesForGoodAlways` are as
those of the channel.

`LedsProofs`, under `LedsAssumption` (any number of LEDs on two registers, any refresh
interval, cap and word of at least two refresh intervals). `FollowInv` drops the condition on
the worker from `RegisterFollows`: before there is a worker, too, a blinking LED's register is
what `prev_state_on` says or the LED is disturbed, so that the first round starts right.
`IconInv` speaks of `prev_on` alone, which a failed write does not disturb, and
both give `IconInverted`. The lemmas on `Intervals` bound the rounding and show that a delay
that does not overflow yields at least one interval; the action property `BlinkAccepted` follows.
`BatteryKept`, also an action property, needs in which phases `worker_tsk` is `NULL` and what the
request that holds the lock has found in it: none but such a request, under way when the
pointer was reset, changes a battery LED without a worker.
`InCycleAlways` keeps the interval of a blinking LED within its cycle, and with it
`RoundsTurnAlways` counts the rounds to the LED's next turn.

`RegistersProofs` needs no assumption: every number a register ioctl may be given
reaches the register in its low six bits with the operation the ioctl names
(`CommandTakenApart`, `IoctlReachesRegister`, `RefusedExactly`), and the hardware check does not tell loader from
firmware (`ModeNotChecked`).

`CoreProofs`, under `CoreAssumption` (any callers, any keys with codes of seven bits, any
bounds). Three invariants. `CoreInv` for `NeverForgottenAlways`: probe's masks stay, an
undisturbed IE is full, a low line has a latched edge or a thread about to read, and a waiting
caller's command runs or its interrupt is in a register, or in the thread's copy at an index the loop
has not passed; a read moves it on, and the loop passes it only by running the
handler, which ends the wait. `KeyInv` for `KeysFollowAlways`: processing what KEY_DATA holds
would bring the input layer in step with the keys. `CleanInv` for `CommandStepsAlways`: while no
command was started past the driver, one thing is under way, and an interrupt latched in
the chip or copied by the thread, never both, stands for the one signal of `Gencmd`.
So a handler that the loop runs is a `Handle` of `Gencmd`, and every other step a step of
`Gencmd` or none. `NeverForgottenAlways` covers keys as well as callers: a key event in KEY_DATA
has its interrupt on the way.

`ControllerStepsAlways` does for `IrqChip` what `CommandStepsAlways` does for `Gencmd`. With the
two, the parts' theorems carry over: `CoreProofs` instantiates the proof modules of both parts on
its own variables (`IrqP`, `CmdP`) and uses their lemmas on single steps, so that
`ControllerKeptAlways`, `CommandKeptAlways` and `ChannelStepsAlways` hold in the composition without
a second proof of either invariant. `AtRestAlways` puts all of it together for a system that
has come to rest: nobody waits, nothing is owed, and the keys are known.

`PowerProofs`, under `PowerAssumption` (any tasks, calls and non-zero 16-bit answers).
`ConversionsFit` bounds all products of the conversions by the code's `int`. `UsesChannelAlways`
shows that tasks use the channel as its specification allows. `CallInv` follows
what each task was told by the channel, `AnswerInv` the battery's answer on its way, `LedInv`
which of the two LEDs a running call has changed: a call that met no other runs alone, so
that both its changes stand when it returns. `SuccessMeansServedAlways`, `AbsentToldAlways`
and `LedTestAgreesAlways` are parts of them, the last with the exceptions `split` and `overlap`. `BlockedOnlyUnpluggedAlways` is the one way in which the
channel can be blocked for everybody.

`LifecycleProofs`, under `LifecycleAssumption` (any of the five children). The invariant ties
`live` to the stages: what is in use with its driver is what the steps done so far acquired, a child
with anything done hangs from a core that still has its children, and the hooks form a stack
unless they crossed. `orphans` only grows, by the steps of failed probes that devres does not
know. `NoDanglingAlways`, `NothingLeftAlways`, `HooksNestAlways` and `TypeCorrect`
follow. `OnlyRegionAndCdevLeftAlways` says what failed probes can leave behind, the one exception of the
first two, and
`NoCircularWaitAlways` that overlapping removals wait for children that can go on.

### The provable half of liveness

The prover does not do fairness, so `EventsHandled`, `CallReturns`, `IoctlReturns`, `Blinks`,
`KeysSeen` and `Unwound` are only model-checked. What they need besides fairness is proved, for
every value of the constants: that nobody waits without an end in sight, and that steps lead
towards it.

| Only model-checked | Nobody waits in vain | Every step leads on |
|---|---|---|
| `EventsHandled` (`IrqChip`) | `NoLostEventAlways` | `EventsComeNearerAlways` |
| `CallReturns` (`Gencmd`) | `NoLostWakeupAlways` | `RunsDownAlways`: 14 steps of holder, handlers and chip |
| `IoctlReturns` (`Flash`) | `NoLostWakeupAlways` | `RunsDownAlways`: 16 steps |
| `Blinks` (`Leds`) | `InCycleAlways` | `RoundsTurnAlways`: at most `MaxInterval` rounds |
| `CallReturns`, `KeysSeen` (`Core`) | `NeverForgottenAlways`, `AtRestAlways` | `RunsDownAlways`: a call adds 21 steps, a key 12, a register ioctl 13 |
| `CallReturns` (`Power`) | `BlockedOnlyUnpluggedAlways` | `RunsDownAlways`: nine steps |
| `Unwound` (`Lifecycle`) | `NoCircularWaitAlways` | `RunsDownAlways`: as many steps as the probe has, and back |

Each `RunsDown` weighs what is left to do (`StepsLeft`): a running command weighs as much as the
interrupt, the pass of the thread and the wake-up it causes. A step that leaves the weight as it
is may only queue a caller; only the steps named there add to it. What remains
for TLC is that a step that is possible is taken.

The properties of this table that no run lists (`EventsComeNearer`, `RoundsTurn`, `InCycle`, the `RunsDown`, `AtRest`,
`NoCircularWait`, `BlockedOnlyUnplugged`), and likewise `ChannelSteps`, `DeviceSteps`, `RefusesForGood`,
`UsesChannel`, `ControllerSteps`, `ControllerKept`, `CommandKept` and `OnlyRegionAndCdevLeft`, hold of the runs' instances as well:
naming one of them in the run's `.cfg`, with `Spec` as the specification, checks it there.

## Not modelled, and what could follow

* A file of the character device that stays open across a removal: the code counts no
  users, so there is no property of it to state (`chr/leicaefi-chr.c:19`, listed as a hazard).
  The dispatch of an ioctl is a search for the handler that knows it, without state.
* The LED bit pattern trigger, compiled only with a kernel that carries it.
* The sign of a battery's current, a convention of the battery.
* Removal of the core while commands run: `Lifecycle` says that handlers and devices
  have what they use, `Core` starts after probe. Running both at once would add the
  product of their states and no interaction beyond those.
* The versions and texts of the probe, the constants and structure layouts of `include/*.h` beyond
  what the models name, the build files, and copying between kernel and user space.

Next in line: the flash interrupts inside `Core`'s loop, with the flash unit next to the
command unit on one chip; `flash_device` and `irqchip_faults` cover both sides by themselves.

------------------------------ MODULE IrqChip ------------------------------
(***************************************************************************)
(* The nested interrupt controller of the EFI chip, core/leicaefi-irq.c.   *)
(*                                                                         *)
(* Three parties share its state: the consumers of the nested interrupts,  *)
(* which enable, disable and arm them for wake-up under the bus lock; the  *)
(* threaded handler of the parent interrupt, which reads (and by reading   *)
(* clears) IFG and ERR and then walks irq_mask_current without any lock;   *)
(* and the chip, which latches events into IFG and ERR and pulls the       *)
(* interrupt line while an enabled bit of IFG is set.  The parent          *)
(* interrupt is requested for the falling edge only, so an edge that is    *)
(* not followed by a read of IFG is never repeated.                        *)
(*                                                                         *)
(* An I2C transfer succeeds, fails without effect, or fails after the chip *)
(* has acted on it; at most MaxFaults transfers of a behaviour fail.       *)
(***************************************************************************)
EXTENDS Integers, FiniteSets

CONSTANTS
    IrqCount,       \* LEICAEFI_TOTAL_IRQ_COUNT: the hwirqs are 0 .. IrqCount-1
    ErrorIrqs,      \* the hwirqs whose descriptor has is_error = true
    ErrBit,         \* LEICAEFI_IRQBIT_ERR, the summary bit of all ERR bits
    NoIrq,          \* nobody holds the bus lock
    WakeIrqs,       \* the hwirqs whose consumer arms them for wake-up
    MaxFaults       \* bound on failing I2C transfers

Irqs == 0 .. IrqCount - 1

ASSUME IrqAssumption ==
    /\ IrqCount \in Nat \ {0}
    /\ ErrorIrqs \subseteq Irqs
    /\ ErrBit \notin Irqs
    /\ NoIrq \notin Irqs
    /\ WakeIrqs \subseteq Irqs
    /\ MaxFaults \in Nat

(* The bit a hwirq has in IFG and IE (plain interrupts) or in ERR (error    *)
(* interrupts) is named by the hwirq itself: reg_mask differs between the   *)
(* descriptors of one register.                                             *)
PlainIrqs == Irqs \ ErrorIrqs
IfgBits   == PlainIrqs \cup {ErrBit}

VARIABLES
    phase,          \* progress of leicaefi_irq_chip_init / leicaefi_del_irq_chip
    irq_requested,  \* the parent interrupt is requested
    mask_requested, \* irq_mask_requested
    mask_current,   \* irq_mask_current
    wake_count,     \* wake_count, not yet propagated to the parent
    owner,          \* the consumer that holds the bus lock
    step,           \* how far the owner got
    enable_mask,    \* ie_enable_mask of the running sync
    disable_mask,   \* ie_disable_mask of the running sync
    thread,         \* program counter of leicaefi_irq_thread
    ifg_value,      \* the thread's copy of IFG
    err_value,      \* the thread's copy of ERR
    index,          \* the thread's loop index
    ie, ifg, err,   \* the chip's registers
    edge,           \* an edge of the line is latched for the thread
    wake_on,        \* genirq: which nested interrupts are armed for wake-up
    parent_wake,    \* genirq: wake depth of the parent interrupt
    faults,         \* failed transfers so far
    dirty,          \* history: IE bits whose last write was reported failed
    read_fault,     \* history: what failed reads of the thread may have caused
    owed,           \* history: interrupts that must still reach their handler
    stale           \* history: events latched before this chip was added that
                    \* are still in its registers, and in the thread's copies

chipVars   == <<phase, irq_requested>>
maskVars   == <<mask_requested, mask_current>>
wakeVars   == <<wake_count, wake_on, parent_wake>>
busVars    == <<owner, step, enable_mask, disable_mask>>
threadVars == <<thread, ifg_value, err_value, index>>
histVars   == <<dirty, read_fault, owed, stale>>
vars == <<chipVars, maskVars, wakeVars, busVars, threadVars,
          ie, ifg, err, edge, faults, histVars>>

Phases == {"none", "request", "clear_ie", "read_ifg", "read_err", "set_ie",
           "up", "del"}
Steps  == {"free", "locked", "masks", "disable", "enable", "wake"}

NoMask    == [i \in Irqs |-> FALSE]
NoneStale == [chip |-> {}, copy |-> {}]

TypeOK ==
    /\ phase \in Phases
    /\ irq_requested \in BOOLEAN
    /\ mask_requested \in [Irqs -> BOOLEAN]
    /\ mask_current \in [Irqs -> BOOLEAN]
    /\ wake_count \in Int
    /\ owner \in Irqs \cup {NoIrq}
    /\ step \in Steps
    /\ enable_mask \subseteq PlainIrqs
    /\ disable_mask \subseteq PlainIrqs
    /\ thread \in {"idle", "ifg", "err", "loop"}
    /\ ifg_value \subseteq IfgBits
    /\ err_value \subseteq ErrorIrqs
    /\ index \in Irqs
    /\ ie \subseteq IfgBits
    /\ ifg \subseteq IfgBits
    /\ err \subseteq ErrorIrqs
    /\ edge \in BOOLEAN
    /\ wake_on \in [Irqs -> BOOLEAN]
    /\ parent_wake \in Int
    /\ faults \in 0 .. MaxFaults
    /\ dirty \subseteq IfgBits
    /\ read_fault \subseteq {"stuck", "dropped"}
    /\ owed \subseteq Irqs
    /\ stale \in [chip : SUBSET Irqs, copy : SUBSET Irqs]

-----------------------------------------------------------------------------
(* I2C transfers and the interrupt line *)

Outcomes == {"ok", "lost", "applied"}

(* The outcome o of one transfer, within the fault bound.                   *)
Transfer(o) ==
    /\ o \in Outcomes
    /\ IF o = "ok" THEN faults' = faults
                   ELSE faults < MaxFaults /\ faults' = faults + 1

(* The chip acts on the transfer, whatever the driver is told.              *)
Acts(o) == o # "lost"

(* The chip pulls the line while an enabled interrupt is pending.           *)
LineActive(e, f) == e \cap f # {}

(* A change of IE or IFG that makes the line fall latches an edge for the   *)
(* thread (IRQF_TRIGGER_FALLING), once the parent interrupt is requested.   *)
LatchEdge ==
    edge' = IF irq_requested /\ ~LineActive(ie, ifg) /\ LineActive(ie', ifg')
            THEN TRUE ELSE edge

-----------------------------------------------------------------------------
(* The consumers: irq_bus_lock, one operation, irq_bus_sync_unlock *)

(* leicaefi_irq_chip_lock, called by genirq before the operations below.    *)
BusLock(i) ==
    /\ phase = "up" /\ owner = NoIrq
    /\ owner' = i /\ step' = "locked"
    /\ UNCHANGED <<chipVars, maskVars, wakeVars, enable_mask, disable_mask,
                   threadVars, ie, ifg, err, edge, faults, histVars>>

(* leicaefi_irq_enable *)
Enable ==
    /\ step = "locked"
    /\ mask_requested' = [mask_requested EXCEPT ![owner] = TRUE]
    /\ step' = "masks"
    /\ UNCHANGED <<chipVars, mask_current, wakeVars, owner, enable_mask,
                   disable_mask, threadVars, ie, ifg, err, edge, faults,
                   histVars>>

(* leicaefi_irq_disable.  genirq no longer runs the handler from here on,   *)
(* so a pending event is not owed to it any more.                           *)
Disable ==
    /\ step = "locked"
    /\ mask_requested' = [mask_requested EXCEPT ![owner] = FALSE]
    /\ owed' = owed \ {owner}
    /\ step' = "masks"
    /\ UNCHANGED <<chipVars, mask_current, wakeVars, owner, enable_mask,
                   disable_mask, threadVars, ie, ifg, err, edge, faults,
                   dirty, read_fault, stale>>

(* leicaefi_irq_set_wake; genirq calls it only when the state changes.      *)
SetWake(on) ==
    /\ step = "locked"
    /\ owner \in WakeIrqs /\ wake_on[owner] # on
    /\ wake_on' = [wake_on EXCEPT ![owner] = on]
    /\ wake_count' = IF on THEN wake_count + 1 ELSE wake_count - 1
    /\ step' = "masks"
    /\ UNCHANGED <<chipVars, maskVars, parent_wake, owner, enable_mask,
                   disable_mask, threadVars, ie, ifg, err, edge, faults,
                   histVars>>

(* Faulty variant: irq_mask_current is not updated.                         *)
SyncMasksForgetsCurrent ==
    /\ step = "masks"
    /\ LET changed == {i \in Irqs : mask_current[i] # mask_requested[i]}
       IN  /\ enable_mask'  = {i \in changed \ ErrorIrqs : mask_requested[i]}
           /\ disable_mask' = {i \in changed \ ErrorIrqs : ~mask_requested[i]}
    /\ step' = "disable"
    /\ UNCHANGED <<chipVars, maskVars, wakeVars, owner, threadVars,
                   ie, ifg, err, edge, faults, histVars>>

(* Faulty variant: error interrupts are not skipped.                        *)
SyncMasksKeepsErrors ==
    /\ step = "masks"
    /\ LET changed == {i \in Irqs : mask_current[i] # mask_requested[i]}
       IN  /\ enable_mask'  = {i \in changed : mask_requested[i]}
           /\ disable_mask' = {i \in changed : ~mask_requested[i]}
    /\ mask_current' = mask_requested
    /\ step' = "disable"
    /\ UNCHANGED <<chipVars, mask_requested, wakeVars, owner, threadVars,
                   ie, ifg, err, edge, faults, histVars>>

(* leicaefi_irq_chip_sync_unlock: the loop that compares the masks.  All of *)
(* it is under the bus lock and only the owner's entry can differ.  The     *)
(* error interrupts have no bit of their own in IE.                         *)
SyncMasks ==
    /\ step = "masks"
    /\ LET changed == {i \in Irqs : mask_current[i] # mask_requested[i]}
       IN  /\ enable_mask'  = {i \in changed \ ErrorIrqs : mask_requested[i]}
           /\ disable_mask' = {i \in changed \ ErrorIrqs : ~mask_requested[i]}
    /\ mask_current' = mask_requested
    /\ step' = "disable"
    /\ UNCHANGED <<chipVars, mask_requested, wakeVars, owner, threadVars,
                   ie, ifg, err, edge, faults, histVars>>

(* A failed write of IE is only logged: mask_current already claims it.     *)
WriteIE(o, bits, value) ==
    /\ Transfer(o)
    /\ ie' = IF Acts(o) THEN value ELSE ie
    /\ dirty' = IF o = "ok" THEN dirty \ bits ELSE dirty \cup bits

(* leicaefi_irq_chip_sync_unlock: clear_bits(IE), skipped for an empty mask *)
SyncDisable(o) ==
    /\ step = "disable"
    /\ IF disable_mask = {}
       THEN o = "ok" /\ UNCHANGED <<ie, dirty, faults>>
       ELSE WriteIE(o, disable_mask, ie \ disable_mask)
    /\ ifg' = ifg
    /\ LatchEdge
    /\ step' = "enable"
    /\ UNCHANGED <<chipVars, maskVars, wakeVars, owner, enable_mask,
                   disable_mask, threadVars, err, read_fault, owed, stale>>

(* leicaefi_irq_chip_sync_unlock: set_bits(IE), skipped for an empty mask   *)
SyncEnable(o) ==
    /\ step = "enable"
    /\ IF enable_mask = {}
       THEN o = "ok" /\ UNCHANGED <<ie, dirty, faults>>
       ELSE WriteIE(o, enable_mask, ie \cup enable_mask)
    /\ ifg' = ifg
    /\ LatchEdge
    /\ step' = "wake"
    /\ UNCHANGED <<chipVars, maskVars, wakeVars, owner, enable_mask,
                   disable_mask, threadVars, err, read_fault, owed, stale>>

(* Faulty variant: wake_count is not reset after it was propagated.         *)
SyncWakeUnlockKeepsCount ==
    /\ step = "wake"
    /\ parent_wake' = parent_wake + wake_count
    /\ owner' = NoIrq /\ step' = "free"
    /\ enable_mask' = {} /\ disable_mask' = {}
    /\ wake_count \in -2 .. 2
    /\ UNCHANGED <<chipVars, maskVars, wake_count, wake_on, threadVars, ie,
                   ifg, err, edge, faults, histVars>>

(* leicaefi_irq_chip_sync_unlock: hand wake_count to the parent, unlock.    *)
SyncWakeUnlock ==
    /\ step = "wake"
    /\ parent_wake' = parent_wake + wake_count
    /\ wake_count' = 0
    /\ owner' = NoIrq /\ step' = "free"
    /\ enable_mask' = {} /\ disable_mask' = {}
    /\ UNCHANGED <<chipVars, maskVars, wake_on, threadVars, ie, ifg, err,
                   edge, faults, histVars>>

Consumer ==
    \/ \E i \in Irqs : BusLock(i)
    \/ Enable
    \/ Disable
    \/ \E on \in BOOLEAN : SetWake(on)
    \/ SyncMasks
    \/ \E o \in Outcomes : SyncDisable(o)
    \/ \E o \in Outcomes : SyncEnable(o)
    \/ SyncWakeUnlock

-----------------------------------------------------------------------------
(* The threaded handler of the parent interrupt *)

Return == thread' = "idle" /\ ifg_value' = {} /\ err_value' = {} /\ index' = 0

(* Faulty variant: with nothing enabled, the handler returns at once.       *)
ThreadStartOnlyEnabled ==
    /\ irq_requested /\ edge /\ thread = "idle"
    /\ edge' = FALSE
    /\ thread' = IF mask_current = NoMask THEN "idle" ELSE "ifg"
    /\ UNCHANGED <<chipVars, maskVars, wakeVars, busVars, ifg_value, err_value,
                   index, ie, ifg, err, faults, histVars>>

(* The kernel runs leicaefi_irq_thread for a latched edge.                  *)
ThreadStart ==
    /\ irq_requested /\ edge /\ thread = "idle"
    /\ edge' = FALSE
    /\ thread' = "ifg"
    /\ UNCHANGED <<chipVars, maskVars, wakeVars, busVars, ifg_value, err_value,
                   index, ie, ifg, err, faults, histVars>>

(* Reading IFG clears it.  A failed read ends the handler with IRQ_HANDLED: *)
(* the line stays low when the chip did not see the read, and the events    *)
(* are gone when it did.                                                    *)
ReadIfg(o) ==
    /\ thread = "ifg"
    /\ Transfer(o)
    /\ ifg' = IF Acts(o) THEN {} ELSE ifg
    /\ stale' = [chip |-> IF Acts(o) THEN stale.chip \ PlainIrqs ELSE stale.chip,
                 copy |-> IF o = "ok" THEN stale.chip \cap PlainIrqs ELSE {}]
    /\ IF o = "ok"
       THEN /\ ifg_value' = ifg
            /\ thread' = IF ErrBit \in ifg THEN "err" ELSE "loop"
            /\ UNCHANGED <<err_value, index, read_fault>>
       ELSE Return /\ read_fault' = read_fault \cup
                        {IF Acts(o) THEN "dropped" ELSE "stuck"}
    /\ ie' = ie
    /\ LatchEdge
    /\ UNCHANGED <<chipVars, maskVars, wakeVars, busVars, err, dirty, owed>>

(* Reading ERR clears it.  A failed read drops the whole copy of IFG.       *)
ReadErr(o) ==
    /\ thread = "err"
    /\ Transfer(o)
    /\ err' = IF Acts(o) THEN {} ELSE err
    /\ stale' = [chip |-> IF Acts(o) THEN stale.chip \ ErrorIrqs ELSE stale.chip,
                 copy |-> IF o = "ok"
                          THEN stale.copy \cup (stale.chip \cap ErrorIrqs)
                          ELSE {}]
    /\ IF o = "ok"
       THEN /\ err_value' = err
            /\ thread' = "loop"
            /\ UNCHANGED <<ifg_value, index, read_fault>>
       ELSE Return /\ read_fault' = read_fault \cup {"dropped"}
    /\ UNCHANGED <<chipVars, maskVars, wakeVars, busVars, ie, ifg, edge,
                   dirty, owed>>

(* The loop body calls handle_nested_irq for i ...                          *)
Dispatches(i) == mask_current[i] /\ i \in ifg_value \cup err_value

(* Faulty variant: the loop ends one interrupt early.                       *)
DispatchMissesLast ==
    /\ thread = "loop"
    /\ owed' = IF Dispatches(index) /\ mask_requested[index]
               THEN owed \ {index} ELSE owed
    /\ IF index + 2 < IrqCount
       THEN index' = index + 1 /\ UNCHANGED <<thread, ifg_value, err_value>>
       ELSE Return
    /\ UNCHANGED <<chipVars, maskVars, wakeVars, busVars, ie, ifg, err, edge,
                   faults, dirty, read_fault, stale>>

(* Faulty variant: the loop stops at the first interrupt it handles.        *)
DispatchOnlyFirst ==
    /\ thread = "loop"
    /\ owed' = IF Dispatches(index) /\ mask_requested[index]
               THEN owed \ {index} ELSE owed
    /\ IF index + 1 < IrqCount /\ ~Dispatches(index)
       THEN index' = index + 1 /\ UNCHANGED <<thread, ifg_value, err_value>>
       ELSE Return
    /\ UNCHANGED <<chipVars, maskVars, wakeVars, busVars, ie, ifg, err, edge,
                   faults, dirty, read_fault, stale>>

(* ... which runs the consumer's handler unless genirq has it disabled.     *)
Dispatch ==
    /\ thread = "loop"
    /\ owed' = IF Dispatches(index) /\ mask_requested[index]
               THEN owed \ {index} ELSE owed
    /\ IF index + 1 < IrqCount
       THEN index' = index + 1 /\ UNCHANGED <<thread, ifg_value, err_value>>
       ELSE Return
    /\ stale' = [stale EXCEPT !.copy =
                    IF index + 1 < IrqCount THEN @ \ {index} ELSE {}]
    /\ UNCHANGED <<chipVars, maskVars, wakeVars, busVars, ie, ifg, err, edge,
                   faults, dirty, read_fault>>

Thread ==
    \/ ThreadStart
    \/ \E o \in Outcomes : ReadIfg(o)
    \/ \E o \in Outcomes : ReadErr(o)
    \/ Dispatch

-----------------------------------------------------------------------------
(* The chip *)

(* An event of i is latched.  It is owed to the handler when both masks and *)
(* the IE bit that stands for i say so.                                     *)
Raise(i) ==
    LET bit == IF i \in ErrorIrqs THEN ErrBit ELSE i
    IN  /\ ifg' = ifg \cup {bit}
        /\ err' = IF i \in ErrorIrqs THEN err \cup {i} ELSE err
        /\ ie' = ie
        /\ LatchEdge
        /\ owed' = IF phase = "up" /\ mask_requested[i] /\ mask_current[i]
                      /\ bit \in ie
                   THEN owed \cup {i} ELSE owed
        /\ stale' = [stale EXCEPT !.chip = @ \ {i}]
        /\ UNCHANGED <<chipVars, maskVars, wakeVars, busVars, threadVars,
                       faults, dirty, read_fault>>

-----------------------------------------------------------------------------
(* leicaefi_add_irq_chip, leicaefi_irq_chip_init, leicaefi_del_irq_chip *)

(* kzalloc and the domain.  Whatever the chip holds pending is now stale.   *)
AddChip ==
    /\ phase = "none"
    /\ phase' \in {"request", "del"}
    /\ mask_requested' = NoMask /\ mask_current' = NoMask
    /\ wake_count' = 0
    /\ stale' = [stale EXCEPT !.chip = (ifg \cap PlainIrqs) \cup err]
    /\ UNCHANGED <<irq_requested, wake_on, parent_wake, busVars, threadVars,
                   ie, ifg, err, edge, faults, dirty, read_fault, owed>>

(* request_threaded_irq; the parent controller may replay an old edge.      *)
RequestIrq ==
    /\ phase = "request"
    /\ \/ phase' = "clear_ie" /\ irq_requested' = TRUE /\ edge' \in BOOLEAN
       \/ phase' = "del" /\ UNCHANGED <<irq_requested, edge>>
    /\ UNCHANGED <<maskVars, wakeVars, busVars, threadVars, ie, ifg, err,
                   faults, histVars>>

(* One transfer of leicaefi_irq_chip_init; its failure deletes the chip.    *)
InitTransfer(o, from, to) ==
    /\ phase = from
    /\ Transfer(o)
    /\ phase' = IF o = "ok" THEN to ELSE "del"
    /\ UNCHANGED <<irq_requested, maskVars, wakeVars, busVars, threadVars,
                   read_fault, owed>>

InitClearIE(o) ==
    /\ InitTransfer(o, "clear_ie", "read_ifg")
    /\ ie' = IF Acts(o) THEN {} ELSE ie
    /\ dirty' = {}
    /\ ifg' = ifg
    /\ LatchEdge
    /\ UNCHANGED <<err, stale>>

InitReadIfg(o) ==
    /\ InitTransfer(o, "read_ifg", "read_err")
    /\ ifg' = IF Acts(o) THEN {} ELSE ifg
    /\ stale' = [stale EXCEPT !.chip = IF Acts(o) THEN @ \ PlainIrqs ELSE @]
    /\ ie' = ie
    /\ LatchEdge
    /\ UNCHANGED <<err, dirty>>

(* Faulty variant: pending ERR bits are not cleared.                        *)
InitReadErrSkipped(o) ==
    /\ InitTransfer(o, "read_err", "set_ie")
    /\ UNCHANGED <<ie, ifg, err, edge, dirty, stale>>

InitReadErr(o) ==
    /\ InitTransfer(o, "read_err", "set_ie")
    /\ err' = IF Acts(o) THEN {} ELSE err
    /\ stale' = [stale EXCEPT !.chip = IF Acts(o) THEN @ \ ErrorIrqs ELSE @]
    /\ UNCHANGED <<ie, ifg, edge, dirty>>

InitSetIE(o) ==
    /\ InitTransfer(o, "set_ie", "up")
    /\ ie' = IF Acts(o) THEN ie \cup {ErrBit} ELSE ie
    /\ ifg' = ifg
    /\ LatchEdge
    /\ UNCHANGED <<err, dirty, stale>>

(* The device goes away once every consumer has freed its interrupt (devm   *)
(* unwinds in reverse order).                                               *)
Remove ==
    /\ phase = "up" /\ owner = NoIrq
    /\ mask_requested = NoMask /\ wake_on = NoMask
    /\ phase' = "del"
    /\ UNCHANGED <<irq_requested, maskVars, wakeVars, busVars, threadVars,
                   ie, ifg, err, edge, faults, histVars>>

(* leicaefi_del_irq_chip: free_irq waits for the handler and forgets the    *)
(* edge; it is called only when the interrupt was requested ...             *)
FreeIrq ==
    /\ phase = "del" /\ irq_requested
    /\ thread = "idle"
    /\ irq_requested' = FALSE /\ edge' = FALSE
    /\ UNCHANGED <<phase, maskVars, wakeVars, busVars, threadVars, ie, ifg,
                   err, faults, histVars>>

(* ... then the mappings, the domain and the chip go.                       *)
DisposeChip ==
    /\ phase = "del" /\ ~irq_requested
    /\ phase' = "none"
    /\ read_fault' = {} /\ stale' = NoneStale
    /\ UNCHANGED <<irq_requested, maskVars, wakeVars, busVars, threadVars,
                   ie, ifg, err, edge, faults, dirty, owed>>

Lifecycle ==
    \/ AddChip
    \/ RequestIrq
    \/ \E o \in Outcomes : InitClearIE(o)
    \/ \E o \in Outcomes : InitReadIfg(o)
    \/ \E o \in Outcomes : InitReadErr(o)
    \/ \E o \in Outcomes : InitSetIE(o)
    \/ Remove
    \/ FreeIrq
    \/ DisposeChip

-----------------------------------------------------------------------------
(* Before the first probe the chip's registers hold anything an earlier     *)
(* owner left: ERR bits come with their summary in IFG unless it was read.  *)
Init ==
    /\ phase = "none" /\ irq_requested = FALSE
    /\ mask_requested = NoMask /\ mask_current = NoMask
    /\ wake_count = 0 /\ wake_on = NoMask /\ parent_wake = 0
    /\ owner = NoIrq /\ step = "free"
    /\ enable_mask = {} /\ disable_mask = {}
    /\ thread = "idle" /\ ifg_value = {} /\ err_value = {} /\ index = 0
    /\ ie \in SUBSET IfgBits
    /\ ifg \in SUBSET IfgBits
    /\ err \in SUBSET ErrorIrqs
    /\ edge = FALSE
    /\ faults = 0
    /\ dirty = {} /\ read_fault = {} /\ owed = {} /\ stale = NoneStale

Next == Consumer \/ Thread \/ Lifecycle \/ \E i \in Irqs : Raise(i)

Spec == Init /\ [][Next]_vars

(* The parent's handler thread is a kernel thread: it is scheduled whenever *)
(* an edge is latched and it does not block except for the I2C transfers.   *)
FairSpec == Spec /\ WF_vars(Thread)

-----------------------------------------------------------------------------
(* Properties *)

(* While the bus lock is free both masks agree and the chip's IE register   *)
(* is the summary bit plus the enabled plain interrupts; only a bit whose   *)
(* last write was reported failed may differ (irq.c:100-115 logs, and never *)
(* retries).  The register has no reader in the driver: nothing would show  *)
(* that the two have drifted apart.                                         *)
IeMatchesMasks ==
    phase = "up" /\ owner = NoIrq =>
        /\ mask_current = mask_requested
        /\ ErrBit \in ie
        /\ \A i \in PlainIrqs \ dirty : i \in ie <=> mask_current[i]

(* The line is requested for its falling edge only: whenever it is low, an  *)
(* edge is latched or the thread is about to read IFG.  Otherwise no        *)
(* interrupt would ever be seen again.  Only a read of IFG that failed      *)
(* before the chip saw it (irq.c:226-232) breaks this.                      *)
LineNeverStuck ==
    phase = "up" /\ "stuck" \notin read_fault /\ LineActive(ie, ifg) =>
        edge \/ thread = "ifg"

(* No event is lost between the chip and the consumers: with no edge        *)
(* latched and the thread idle, every event that was latched while its      *)
(* interrupt was enabled has reached its handler, whatever the masks did    *)
(* while the thread walked them without the lock, unless a read failed.     *)
NoLostEvent ==
    thread = "idle" /\ ~edge /\ read_fault = {} => owed = {}

(* The wake depth of the parent interrupt is the number of nested ones      *)
(* armed for wake-up, up to what the owner of the lock has not propagated;  *)
(* nothing is left to propagate once the lock is free (irq.c:117-128).      *)
WakeBalanced ==
    /\ parent_wake + wake_count = Cardinality({i \in Irqs : wake_on[i]})
    /\ owner = NoIrq => wake_count = 0

(* When initialisation succeeds, no event from before the probe is left in  *)
(* the chip's registers (irq.c:309-325 clears IFG and ERR), so no run of    *)
(* the handler that starts from then on delivers one.  The parent interrupt *)
(* is requested first (irq.c:285), however: a run that had read IFG before  *)
(* it was cleared still holds what it found there and goes on with it.      *)
UpWithoutStale ==
    phase = "up" =>
        /\ stale.chip = {}
        /\ stale.copy # {} => thread \in {"err", "loop"}

(* What the code does not guarantee for that reason: a consumer that enables*)
(* its interrupt while such a run is under way is handed an event from      *)
(* before the probe, as TLC shows when asked for this invariant.            *)
NoStaleDelivery ==
    thread = "loop" /\ Dispatches(index) /\ mask_requested[index] =>
        index \notin stale.copy

(* An event latched while its interrupt is enabled is eventually delivered, *)
(* or its consumer disables the interrupt, or a read of IFG or ERR fails;   *)
(* failing writes of IE and masks that change during the walk do not count. *)
EventsHandled == \A i \in Irqs : i \in owed ~> i \notin owed \/ read_fault # {}

(* The pass of the thread that is under way will come to i's event.         *)
InPass(i) ==
    \/ thread = "ifg"
    \/ thread = "err" /\ i \in (IF i \in ErrorIrqs THEN err ELSE ifg_value)
    \/ thread = "loop" /\ index <= i /\ i \in ifg_value \cup err_value

(* The steps of the thread until its loop starts, and until it comes to the *)
(* event of i: in this pass, or in the one after it.                        *)
Lead == CASE thread = "idle" -> 3
          [] thread = "ifg"  -> 2
          [] thread = "err"  -> 1
          [] OTHER           -> 0

StepsTo(i) ==
    IF thread = "idle" \/ InPass(i)
    THEN Lead + (i - index) + 1
    ELSE Lead + (IrqCount - index) + i + 4

(* The safety half of EventsHandled: while no read fails, an event that is  *)
(* owed to its consumer is a bounded number of steps of the thread away,    *)
(* each step of the thread brings it nearer, and neither the masks that the *)
(* consumers change without waiting for the thread nor new events, however  *)
(* many, ever put it off (irq.c:218-270).                                   *)
EventsComeNearer ==
    [][\A i \in owed \cap owed' : read_fault' = {} =>
          /\ StepsTo(i) \in 1 .. 2 * IrqCount + 4
          /\ thread # "idle" \/ edge
          /\ IF Thread THEN StepsTo(i)' < StepsTo(i)
                       ELSE StepsTo(i)' <= StepsTo(i)]_vars

-----------------------------------------------------------------------------
(* The inductive invariant behind the safety properties *)

Running == {"read_ifg", "read_err", "set_ie"}

(* The lock is free exactly between two operations; consumers come after    *)
(* initialisation and are gone before removal, and before the comparison of *)
(* the masks only the pending request can make them differ.                 *)
BusInv ==
    /\ owner = NoIrq <=> step = "free"
    /\ phase # "up" => step = "free" /\ mask_requested = NoMask
    /\ step # "masks" => mask_current = mask_requested
    /\ step \in {"disable", "enable"} =>
          /\ \A i \in enable_mask : mask_current[i]
          /\ \A i \in disable_mask : ~mask_current[i]

(* What IE holds at each step of the owner's sync.                          *)
IeInv ==
    /\ phase \in Running => ie = {} /\ dirty = {}
    /\ phase = "up" => ErrBit \in ie
    /\ phase = "up" => \A i \in PlainIrqs \ dirty :
          i \in ie <=>
              \/ /\ mask_current[i]
                 /\ step \in {"disable", "enable"} => i \notin enable_mask
              \/ step = "disable" /\ i \in disable_mask

(* The line can only be low without an edge before IE was cleared.          *)
LineInv ==
    /\ phase \in Running \cup {"clear_ie", "up"} => irq_requested
    /\ LineNeverStuck

(* Where an owed event is: in the chip's registers behind an enabled bit,   *)
(* or in the thread's copy, not yet passed by its loop.                     *)
PlainPending(i) ==
    \/ i \in ifg /\ i \in ie
    \/ i \in ifg_value /\ thread \in {"err", "loop"} /\ index <= i

ErrorPending(i) ==
    \/ i \in err /\ (ErrBit \in ifg \/ thread = "err")
    \/ i \in err_value /\ thread = "loop" /\ index <= i

OwedInv ==
    /\ thread # "loop" => index = 0
    /\ owed # {} => phase = "up"
    /\ \A i \in owed :
          /\ mask_requested[i] /\ mask_current[i]
          /\ read_fault = {} =>
                IF i \in ErrorIrqs THEN ErrorPending(i) ELSE PlainPending(i)

(* Where the events from before the probe are: the registers that were not  *)
(* read since, and the copies of a thread that has not come to its end.     *)
StaleInv ==
    /\ phase \in {"read_err", "set_ie", "up"} => stale.chip \subseteq ErrorIrqs
    /\ phase \in {"set_ie", "up"} => stale.chip = {}
    /\ thread \in {"idle", "ifg"} => stale.copy = {}

WakeInv ==
    /\ step \in {"free", "locked"} => wake_count = 0
    /\ parent_wake + wake_count = Cardinality({i \in Irqs : wake_on[i]})

IInv == TypeOK /\ BusInv /\ IeInv /\ LineInv /\ OwedInv /\ StaleInv /\ WakeInv
=============================================================================

----------------------------- MODULE Lifecycle -----------------------------
(***************************************************************************)
(* How the EFI's devices come and go.  The I2C driver (core/leicaefi-core.c) *)
(* probes the chip and adds one child device per cell; each child has a     *)
(* driver of its own.  A probe acquires its resources one by one; devres    *)
(* releases them in reverse order when the probe fails or after the remove  *)
(* callback.  What devres does not know, only the callback takes back.      *)
(*                                                                         *)
(* A device is unbound, probing, bound, removing, or failing (its probe     *)
(* failed); stage counts the steps of its probe that are done and not yet   *)
(* undone.  A resource is in use while it is in live, its driver being      *)
(* there, or in orphans: leicaefi_chr_probe fails without taking back what  *)
(* leicaefi_chr_create_device made (chr.c:196-199), and nothing ever does.  *)
(* Devres, the driver core, the class of the character device and the other *)
(* driver that hooks the reboot are external.                               *)
(***************************************************************************)
EXTENDS Integers, Sequences

CONSTANT Cells      \* the child devices

VARIABLES
    state, stage,   \* of each device
    live,           \* resources in use whose driver is there
    orphans,        \* resources in use that a failed probe left behind
    class_valid,    \* class_create succeeded
    hook,           \* arm_pm_restart and pm_power_off: whose function
    prev_hook,      \* prev_restart_hook, prev_poweroff_hook
    other_prev,     \* the same of another driver that installs hooks
    installed,      \* the drivers that have installed hooks
    crossed         \* history: hooks were taken back out of order

hookVars == <<hook, prev_hook, other_prev, installed, crossed>>
vars == <<state, stage, live, orphans, class_valid, hookVars>>

-----------------------------------------------------------------------------
(* What each probe does, step by step *)

CoreProbe == <<"hwcheck", "core_efidev", "efichip", "irq_chip", "complete_irq",
               "error_irq", "children", "print_info">>

ChrModuleInit == <<"class", "chr_driver">>

(* Faulty variant: the device is opened to users before its interrupts are. *)
ChrProbeDeviceFirst == <<"chr_efidev", "region", "cdev", "node",
                         "flash_complete_irq", "flash_error_irq">>

ChrProbe == <<"chr_efidev", "flash_complete_irq", "flash_error_irq", "region",
              "cdev", "node">>

ReboothookProbe == <<"reboothook_efidev", "hooks">>

LedsProbe == <<"leds_efidev", "led_classdevs", "worker_tsk">>

KeysProbe == <<"keys_efidev", "input_dev", "key_irq">>

PowerProbe == <<"power_efidev", "ext1", "ext2", "poe1", "bat1">>

Probe(d) ==
    CASE d = "core"       -> CoreProbe
      [] d = "chr_module" -> ChrModuleInit
      [] d = "chr"        -> ChrProbe
      [] d = "reboothook" -> ReboothookProbe
      [] d = "leds"       -> LedsProbe
      [] d = "keys"       -> KeysProbe
      [] d = "power"      -> PowerProbe

Devices == {"core", "chr_module"} \cup Cells

ASSUME LifecycleAssumption ==
    Cells \subseteq {"chr", "reboothook", "leds", "keys", "power"}

(* Steps that acquire nothing.                                              *)
Checks == {"hwcheck", "print_info"}

(* Resources devres does not know: remove callbacks release them.           *)
Manual == {"region", "cdev", "node", "hooks", "worker_tsk"}

(* What the functions reachable through a resource, its handlers or its     *)
(* release, make use of: the core's of the chip and the interrupts, ...     *)
CoreNeeds(r) ==
    CASE r = "irq_chip"                      -> {"efichip"}
      [] r \in {"complete_irq", "error_irq"} -> {"efichip", "irq_chip"}
      [] r = "children"  -> {"efichip", "irq_chip", "complete_irq", "error_irq"}
      [] OTHER                               -> {}

(* ... the character device's of the class and of the flash interrupts, ... *)
ChrNeeds(r) ==
    CASE r = "chr_driver" -> {"class"}
      [] r = "chr_efidev" -> {"children", "chr_driver"}
      [] r \in {"flash_complete_irq", "flash_error_irq"} -> {"chr_efidev"}
      [] r = "cdev" -> {"chr_efidev", "flash_complete_irq", "flash_error_irq",
                        "region"}
      [] r = "node"       -> {"cdev"}
      [] OTHER            -> {}

(* ... the hooks of their device, ...                                       *)
ReboothookNeeds(r) ==
    CASE r = "reboothook_efidev" -> {"children"}
      [] r = "hooks"             -> {"reboothook_efidev"}
      [] OTHER                   -> {}

(* ... requests and worker of the LEDs, ...                                 *)
LedsNeeds(r) ==
    CASE r = "leds_efidev"                     -> {"children"}
      [] r \in {"led_classdevs", "worker_tsk"} -> {"leds_efidev"}
      [] OTHER                                 -> {}

(* ... the key handler of the input device, ...                             *)
KeysNeeds(r) ==
    CASE r = "keys_efidev" -> {"children"}
      [] r = "input_dev"   -> {"keys_efidev"}
      [] r = "key_irq"     -> {"keys_efidev", "input_dev"}
      [] OTHER             -> {}

(* ... and the supplies of theirs.                                          *)
PowerNeeds(r) ==
    CASE r = "power_efidev"                       -> {"children"}
      [] r \in {"ext1", "ext2", "poe1", "bat1"}   -> {"power_efidev"}
      [] OTHER                                    -> {}

Needs(r) == CoreNeeds(r) \cup ChrNeeds(r) \cup ReboothookNeeds(r)
            \cup LedsNeeds(r) \cup KeysNeeds(r) \cup PowerNeeds(r)

Resources(d) == {Probe(d)[i] : i \in 1 .. Len(Probe(d))} \ Checks

TypeOK ==
    /\ state \in [Devices -> {"unbound", "probing", "bound", "removing", "failing"}]
    /\ stage \in [Devices -> Nat]
    /\ live \subseteq UNION {Resources(d) : d \in Devices}
    /\ orphans \subseteq Manual
    /\ class_valid \in BOOLEAN
    /\ {hook, prev_hook, other_prev} \subseteq {"none", "efi", "other"}
    /\ installed \subseteq {"efi", "other"}
    /\ crossed \in BOOLEAN

-----------------------------------------------------------------------------
(* Probe *)

Leaving(d) == state[d] \in {"removing", "failing"}

(* A driver binds to its device: the children's devices exist while the     *)
(* core keeps them, the driver of "chr" while its module has registered it. *)
Available(d) ==
    /\ d \in Cells => "children" \in live /\ ~Leaving("core")
    /\ d = "chr" => "chr_driver" \in live /\ ~Leaving("chr_module")

Bind(d) ==
    /\ state[d] = "unbound" /\ Available(d)
    /\ state' = [state EXCEPT ![d] = "probing"]
    /\ UNCHANGED <<stage, live, orphans, class_valid, hookVars>>

(* Faulty variant: the old hook is saved after the new one is installed.    *)
SaveHookLate ==
    /\ hook' = "efi" /\ prev_hook' = "efi"
    /\ installed' = installed \cup {"efi"}
    /\ UNCHANGED <<other_prev, crossed>>

(* leicaefi_reboothook_probe                                                *)
InstallHooks ==
    /\ prev_hook' = hook /\ hook' = "efi"
    /\ installed' = installed \cup {"efi"}
    /\ UNCHANGED <<other_prev, crossed>>

(* The next step of a probe succeeds.  A failed class_create does too, as   *)
(* the module only looks for NULL (chr.c:241), but device_create does not   *)
(* take the class then.                                                     *)
Acquire(d) ==
    /\ state[d] = "probing"
    /\ LET step == Probe(d)[stage[d] + 1]
       IN  /\ step = "node" => class_valid
           /\ live' = live \cup ({step} \ Checks)
           /\ IF step = "class" THEN class_valid' \in BOOLEAN
                                ELSE class_valid' = class_valid
           /\ IF step = "hooks" THEN InstallHooks ELSE UNCHANGED hookVars
    /\ stage' = [stage EXCEPT ![d] = @ + 1]
    /\ state' = IF stage[d] + 1 = Len(Probe(d))
                THEN [state EXCEPT ![d] = "bound"] ELSE state
    /\ UNCHANGED orphans

(* It fails, and with it the probe.  Installing the hooks cannot fail.      *)
AcquireFails(d) ==
    /\ state[d] = "probing"
    /\ Probe(d)[stage[d] + 1] \notin {"hooks", "class"}
    /\ state' = [state EXCEPT ![d] = "failing"]
    /\ UNCHANGED <<stage, live, orphans, class_valid, hookVars>>

-----------------------------------------------------------------------------
(* Removal *)

(* Somebody unbinds the driver or unloads its module.                       *)
Unbind(d) ==
    /\ state[d] = "bound"
    /\ state' = [state EXCEPT ![d] = "removing"]
    /\ UNCHANGED <<stage, live, orphans, class_valid, hookVars>>

(* Faulty variant: only a removal takes the children along.                 *)
ParentLeavesRemovalOnly(d) ==
    /\ state[d] = "bound"
    /\ d \in Cells /\ state["core"] = "removing"
    /\ state' = [state EXCEPT ![d] = "removing"]
    /\ UNCHANGED <<stage, live, orphans, class_valid, hookVars>>

(* Removing the children unbinds each, removing a driver all its devices.   *)
ParentLeaves(d) ==
    /\ state[d] = "bound"
    /\ \/ d \in Cells /\ Leaving("core")
       \/ d = "chr" /\ Leaving("chr_module")
    /\ state' = [state EXCEPT ![d] = "removing"]
    /\ UNCHANGED <<stage, live, orphans, class_valid, hookVars>>

(* leicaefi_reboothook_remove: whoever hooked last is forgotten.            *)
RestoreHooks ==
    /\ hook' = prev_hook
    /\ installed' = installed \ {"efi"}
    /\ crossed' = (crossed \/ hook # "efi")
    /\ UNCHANGED <<prev_hook, other_prev>>

(* The release of r waits for those it would pull the ground from.          *)
Released(r) ==
    /\ r = "children" => \A d \in Cells : state[d] = "unbound"
    /\ r = "chr_driver" => \A d \in Cells \cap {"chr"} : state[d] = "unbound"

(* What a failed probe should have taken back itself.                       *)
Abandoned(d) == state[d] = "failing" /\ Probe(d)[stage[d]] \in Manual

(* Faulty variant: leicaefi_chr_remove_device forgets the region.           *)
UndoKeepsRegion(d) ==
    /\ Leaving(d) /\ stage[d] > 0 /\ ~Abandoned(d)
    /\ LET step == Probe(d)[stage[d]]
       IN  /\ Released(step)
           /\ live' = IF step = "region" THEN live ELSE live \ {step}
           /\ IF step = "hooks" THEN RestoreHooks ELSE UNCHANGED hookVars
    /\ stage' = [stage EXCEPT ![d] = @ - 1]
    /\ UNCHANGED <<state, orphans, class_valid>>

(* The remove callback takes back what devres does not know, then devres    *)
(* releases the rest, each in reverse order of the probe.                   *)
Undo(d) ==
    /\ Leaving(d) /\ stage[d] > 0 /\ ~Abandoned(d)
    /\ LET step == Probe(d)[stage[d]]
       IN  /\ Released(step)
           /\ live' = live \ {step}
           /\ IF step = "hooks" THEN RestoreHooks ELSE UNCHANGED hookVars
    /\ stage' = [stage EXCEPT ![d] = @ - 1]
    /\ UNCHANGED <<state, orphans, class_valid>>

(* No callback runs after a failed probe and leicaefi_chr_probe returns     *)
(* without undoing leicaefi_chr_create_device: what devres does not know    *)
(* stays in use without its driver, for good.                               *)
LeaveBehind(d) ==
    /\ state[d] = "failing" /\ stage[d] > 0 /\ Abandoned(d)
    /\ LET step == Probe(d)[stage[d]]
       IN  live' = live \ {step} /\ orphans' = orphans \cup {step}
    /\ stage' = [stage EXCEPT ![d] = @ - 1]
    /\ UNCHANGED <<state, class_valid, hookVars>>

Undone(d) ==
    /\ Leaving(d) /\ stage[d] = 0
    /\ state' = [state EXCEPT ![d] = "unbound"]
    /\ UNCHANGED <<stage, live, orphans, class_valid, hookVars>>

Goes(d) == ParentLeaves(d) \/ Undo(d) \/ LeaveBehind(d) \/ Undone(d)

-----------------------------------------------------------------------------
(* Another driver that installs hooks and takes them back the same way.  If *)
(* it hooked after reboothook and outlives it, it puts back a function of a *)
(* device that is gone.                                                     *)

OtherInstalls ==
    /\ "other" \notin installed
    /\ other_prev' = hook /\ hook' = "other"
    /\ installed' = installed \cup {"other"}
    /\ UNCHANGED <<state, stage, live, orphans, class_valid, prev_hook, crossed>>

OtherRestores ==
    /\ "other" \in installed
    /\ hook' = other_prev
    /\ installed' = installed \ {"other"}
    /\ crossed' = (crossed \/ hook # "other")
    /\ UNCHANGED <<state, stage, live, orphans, class_valid, prev_hook, other_prev>>

-----------------------------------------------------------------------------
Init ==
    /\ state = [d \in Devices |-> "unbound"]
    /\ stage = [d \in Devices |-> 0]
    /\ live = {} /\ orphans = {}
    /\ class_valid = FALSE
    /\ hook = "none" /\ prev_hook = "none" /\ other_prev = "none"
    /\ installed = {} /\ crossed = FALSE

Next ==
    \/ \E d \in Devices :
          Bind(d) \/ Acquire(d) \/ AcquireFails(d) \/ Unbind(d) \/ Goes(d)
    \/ OtherInstalls
    \/ OtherRestores

Spec == Init /\ [][Next]_vars

(* A probe and a removal, once begun, run to their end.                     *)
FairSpec ==
    /\ Spec
    /\ \A d \in Devices : WF_vars(Acquire(d) \/ AcquireFails(d)) /\ WF_vars(Goes(d))

-----------------------------------------------------------------------------
(* Properties *)

(* Whatever can be called has all it uses: no handler, ioctl or attribute   *)
(* outlives or precedes what it works on, of its own driver, of the core    *)
(* and of the chip, at any point of probes and removals that overlap, and   *)
(* the reboot hook in place is none of a device that is gone.  Two          *)
(* exceptions: the cdev that a failed probe of chr left open to users       *)
(* (chr.c:196-199) has lost its device, and the hook may have when hooks    *)
(* were taken back out of order (reboothook.c:91, by either driver).        *)
NoDangling ==
    /\ \A r \in live : Needs(r) \subseteq live
    /\ \A r \in orphans : Needs(r) = {} \/ r = "cdev"
    /\ hook = "efi" => "hooks" \in live \/ crossed

(* A failed probe leaves nothing behind but what leicaefi_chr_create_device *)
(* made before its last step: the other four drivers acquire what devres    *)
(* does not know last, where no later step can fail.                        *)
OnlyRegionAndCdevLeft == orphans \subseteq {"region", "cdev"}

(* Once a device is unbound, nothing of its driver's last stay is in use,   *)
(* with the exception of the region and the cdev of a probe of chr that     *)
(* failed after making them (chr.c:196-199); a removal leaves nothing.      *)
NothingLeft ==
    /\ \A d \in Devices : state[d] = "unbound" => live \cap Resources(d) = {}
    /\ OnlyRegionAndCdevLeft

(* As long as hooks are taken back in reverse order, the hook in place is   *)
(* that of a driver that has installed one and is still there, or the one   *)
(* from before (reboothook.c:91 writes back what it saved, whoever hooked   *)
(* in between).                                                             *)
HooksNest ==
    ~crossed =>
        /\ hook \in installed \cup {"none"}
        /\ installed # {} => hook # "none"
        /\ hook = "efi" => "hooks" \in live

(* Every removal and every failed probe comes to its end, the core's only   *)
(* after those of its children.                                             *)
Unwound == \A d \in Devices : Leaving(d) ~> state[d] = "unbound"

(* A device that cannot go on leaving waits for a child, and a child waits  *)
(* for nobody: removals that overlap never wait in a circle.                *)
Stuck(d) == Leaving(d) /\ stage[d] > 0 /\ ~Released(Probe(d)[stage[d]])

NoCircularWait ==
    \A d \in Devices : Stuck(d) =>
        \E e \in Cells : state[e] # "unbound" /\ ~Stuck(e)

(* What is left of a device's stay with its driver, at the longest.         *)
StepsLeft(d) ==
    CASE state[d] = "unbound" -> 0
      [] Leaving(d)           -> 1 + stage[d]
      [] state[d] = "bound"   -> 2 + Len(Probe(d))
      [] OTHER                -> 3 + 2 * Len(Probe(d)) - stage[d]

(* A stay runs down whatever fails and whoever else leaves: no step of one  *)
(* device moves another or sets a probe or removal back, and a device comes *)
(* back only by being bound again, to a parent that stays.                  *)
RunsDown ==
    [][\/ \E d \in Devices :
             /\ \/ StepsLeft(d)' < StepsLeft(d)
                \/ state[d] = "unbound" /\ Available(d) /\ state'[d] = "probing"
             /\ \A e \in Devices \ {d} : state'[e] = state[e] /\ stage'[e] = stage[e]
       \/ UNCHANGED <<state, stage, live>>]_vars
=============================================================================

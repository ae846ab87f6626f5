-------------------------- MODULE LifecycleProofs --------------------------
(***************************************************************************)
(* Theorems about Lifecycle for every choice of child devices, all five of  *)
(* leicaefi_mfd_cells included.  The inductive invariant says which part of *)
(* a probe each state allows, that the resources in use are exactly those   *)
(* the stages of the probes account for, and that a device is bound only    *)
(* while what it hangs from stays.                                          *)
(***************************************************************************)
EXTENDS Lifecycle, TLAPS

USE LifecycleAssumption

AllDevices == {"core", "chr_module", "chr", "reboothook", "leds", "keys", "power"}

(* The probe a resource belongs to, and its step there.                     *)
Owner(r) ==
    CASE r \in {"hwcheck", "core_efidev", "efichip", "irq_chip", "complete_irq",
                "error_irq", "children", "print_info"}           -> "core"
      [] r \in {"class", "chr_driver"}                           -> "chr_module"
      [] r \in {"chr_efidev", "flash_complete_irq", "flash_error_irq", "region",
                "cdev", "node"}                                  -> "chr"
      [] r \in {"reboothook_efidev", "hooks"}                    -> "reboothook"
      [] r \in {"leds_efidev", "led_classdevs", "worker_tsk"}    -> "leds"
      [] r \in {"keys_efidev", "input_dev", "key_irq"}           -> "keys"
      [] r \in {"power_efidev", "ext1", "ext2", "poe1", "bat1"}  -> "power"

Position(r) ==
    CASE r \in {"hwcheck", "class", "chr_efidev", "reboothook_efidev",
                "leds_efidev", "keys_efidev", "power_efidev"}           -> 1
      [] r \in {"core_efidev", "chr_driver", "flash_complete_irq", "hooks",
                "led_classdevs", "input_dev", "ext1"}                   -> 2
      [] r \in {"efichip", "flash_error_irq", "worker_tsk", "key_irq",
                "ext2"}                                                 -> 3
      [] r \in {"irq_chip", "region", "poe1"}                           -> 4
      [] r \in {"complete_irq", "cdev", "bat1"}                         -> 5
      [] r \in {"error_irq", "node"}                                    -> 6
      [] r = "children"                                                 -> 7
      [] r = "print_info"                                               -> 8

(* The step at which each device is ready to be used.                       *)
Last(d) ==
    CASE d = "core" -> 8 [] d = "chr_module" -> 2 [] d = "chr" -> 6
      [] d = "reboothook" -> 2 [] d = "leds" -> 3 [] d = "keys" -> 3
      [] d = "power" -> 5

LEMMA DevicesKnown == Devices \subseteq AllDevices
BY DEF Devices, AllDevices

(* No resource is acquired by two probes or twice by one.                   *)
LEMMA Steps ==
    ASSUME NEW d \in AllDevices
    PROVE  /\ Len(Probe(d)) = Last(d) /\ Last(d) \in 2 .. 8
           /\ \A i \in 1 .. Last(d) :
                 Owner(Probe(d)[i]) = d /\ Position(Probe(d)[i]) = i
<1>1. CASE d = "core"
  <2>1. Probe(d) = CoreProbe
    BY <1>1 DEF Probe
  <2> QED  BY <1>1, <2>1 DEF CoreProbe, Last, Owner, Position
<1>2. CASE d = "chr_module"
  <2>1. Probe(d) = ChrModuleInit
    BY <1>2 DEF Probe
  <2> QED  BY <1>2, <2>1 DEF ChrModuleInit, Last, Owner, Position
<1>3. CASE d = "chr"
  <2>1. Probe(d) = ChrProbe
    BY <1>3 DEF Probe
  <2> QED  BY <1>3, <2>1 DEF ChrProbe, Last, Owner, Position
<1>4. CASE d = "reboothook"
  <2>1. Probe(d) = ReboothookProbe
    BY <1>4 DEF Probe
  <2> QED  BY <1>4, <2>1 DEF ReboothookProbe, Last, Owner, Position
<1>5. CASE d = "leds"
  <2>1. Probe(d) = LedsProbe
    BY <1>5 DEF Probe
  <2> QED  BY <1>5, <2>1 DEF LedsProbe, Last, Owner, Position
<1>6. CASE d = "keys"
  <2>1. Probe(d) = KeysProbe
    BY <1>6 DEF Probe
  <2> QED  BY <1>6, <2>1 DEF KeysProbe, Last, Owner, Position
<1>7. CASE d = "power"
  <2>1. Probe(d) = PowerProbe
    BY <1>7 DEF Probe
  <2> QED  BY <1>7, <2>1 DEF PowerProbe, Last, Owner, Position
<1> QED  BY <1>1, <1>2, <1>3, <1>4, <1>5, <1>6, <1>7 DEF AllDevices

LEMMA NeedsOwned ==
    ASSUME NEW d \in AllDevices, NEW i \in 1 .. Last(d), NEW s \in Needs(Probe(d)[i])
    PROVE  /\ s \notin Checks
           /\ Owner(s) \in AllDevices
           /\ Probe(Owner(s))[Position(s)] = s
           /\ \/ Owner(s) = d /\ Position(s) \in 1 .. i - 1
              \/ s = "children" /\ Owner(s) = "core" /\ Position(s) = 7
                 /\ d \notin {"core", "chr_module"}
              \/ s = "chr_driver" /\ Owner(s) = "chr_module" /\ Position(s) = 2
                 /\ d = "chr"
<1>1. CASE d = "core"
  <2>1. Probe(d) = CoreProbe
    BY <1>1 DEF Probe
  <2>2. /\ s \in {"efichip", "irq_chip", "complete_irq", "error_irq"}
        /\ Position(s) < i
    BY <1>1, <2>1 DEF CoreProbe, Last, Position, Needs, CoreNeeds, ChrNeeds,
        ReboothookNeeds, LedsNeeds, KeysNeeds, PowerNeeds
  <2> QED  BY <1>1, <2>1, <2>2 DEF CoreProbe, Last, Owner, Position, Checks, AllDevices
<1>2. CASE d = "chr_module"
  <2>1. Probe(d) = ChrModuleInit
    BY <1>2 DEF Probe
  <2>2. s = "class" /\ i = 2
    BY <1>2, <2>1 DEF ChrModuleInit, Last, Needs, CoreNeeds, ChrNeeds,
        ReboothookNeeds, LedsNeeds, KeysNeeds, PowerNeeds
  <2> QED  BY <1>2, <2>1, <2>2 DEF ChrModuleInit, Last, Owner, Position, Checks, AllDevices
<1> DEFINE Parents == {"children", "chr_driver"}
<1>0. /\ Owner("children") = "core" /\ Position("children") = 7
      /\ Owner("chr_driver") = "chr_module" /\ Position("chr_driver") = 2
      /\ Probe("core")[7] = "children" /\ Probe("chr_module")[2] = "chr_driver"
      /\ Parents \cap Checks = {}
  BY DEF Owner, Position, Probe, CoreProbe, ChrModuleInit, Checks
<1>3. CASE d = "chr"
  <2>1. Probe(d) = ChrProbe
    BY <1>3 DEF Probe
  <2>2. \/ s \in Parents
        \/ /\ s \in {"chr_efidev", "flash_complete_irq", "flash_error_irq", "region", "cdev"}
           /\ Position(s) < i
    BY <1>3, <2>1 DEF ChrProbe, Last, Position, Needs, CoreNeeds, ChrNeeds,
        ReboothookNeeds, LedsNeeds, KeysNeeds, PowerNeeds
  <2> QED  BY <1>0, <1>3, <2>1, <2>2 DEF ChrProbe, Last, Owner, Position, Checks, AllDevices
<1>4. CASE d = "reboothook"
  <2>1. Probe(d) = ReboothookProbe
    BY <1>4 DEF Probe
  <2>2. s = "children" \/ (s = "reboothook_efidev" /\ i = 2)
    BY <1>4, <2>1 DEF ReboothookProbe, Last, Needs, CoreNeeds, ChrNeeds,
        ReboothookNeeds, LedsNeeds, KeysNeeds, PowerNeeds
  <2> QED  BY <1>0, <1>4, <2>1, <2>2 DEF ReboothookProbe, Last, Owner, Position, Checks, AllDevices
<1>5. CASE d = "leds"
  <2>1. Probe(d) = LedsProbe
    BY <1>5 DEF Probe
  <2>2. s = "children" \/ (s = "leds_efidev" /\ i \in {2, 3})
    BY <1>5, <2>1 DEF LedsProbe, Last, Needs, CoreNeeds, ChrNeeds,
        ReboothookNeeds, LedsNeeds, KeysNeeds, PowerNeeds
  <2> QED  BY <1>0, <1>5, <2>1, <2>2 DEF LedsProbe, Last, Owner, Position, Checks, AllDevices
<1>6. CASE d = "keys"
  <2>1. Probe(d) = KeysProbe
    BY <1>6 DEF Probe
  <2>2. \/ s = "children"
        \/ s = "keys_efidev" /\ i \in {2, 3}
        \/ s = "input_dev" /\ i = 3
    BY <1>6, <2>1 DEF KeysProbe, Last, Needs, CoreNeeds, ChrNeeds,
        ReboothookNeeds, LedsNeeds, KeysNeeds, PowerNeeds
  <2> QED  BY <1>0, <1>6, <2>1, <2>2 DEF KeysProbe, Last, Owner, Position, Checks, AllDevices
<1>7. CASE d = "power"
  <2>1. Probe(d) = PowerProbe
    BY <1>7 DEF Probe
  <2>2. s = "children" \/ (s = "power_efidev" /\ i \in 2 .. 5)
    BY <1>7, <2>1 DEF PowerProbe, Last, Needs, CoreNeeds, ChrNeeds,
        ReboothookNeeds, LedsNeeds, KeysNeeds, PowerNeeds
  <2> QED  BY <1>0, <1>7, <2>1, <2>2 DEF PowerProbe, Last, Owner, Position, Checks, AllDevices
<1> QED  BY <1>1, <1>2, <1>3, <1>4, <1>5, <1>6, <1>7 DEF AllDevices

-----------------------------------------------------------------------------
(* How far the probe is in each state.                                      *)
StageInv ==
    /\ state \in [Devices -> {"unbound", "probing", "bound", "removing", "failing"}]
    /\ stage \in [Devices -> Nat]
    /\ \A d \in Devices :
          /\ stage[d] <= Last(d)
          /\ state[d] = "unbound" => stage[d] = 0
          /\ state[d] \in {"probing", "failing"} => stage[d] < Last(d)
          /\ state[d] = "bound" => stage[d] = Last(d)

(* The resources in use are those of the steps that are done.               *)
LiveInv ==
    /\ \A r \in live :
          /\ Owner(r) \in Devices /\ Position(r) \in 1 .. stage[Owner(r)]
          /\ Probe(Owner(r))[Position(r)] = r
          /\ r \notin Checks
    /\ \A d \in Devices : \A i \in 1 .. stage[d] :
          Probe(d)[i] \notin Checks => Probe(d)[i] \in live

(* A child is unbound before the core lets go of it, chr before its module. *)
ParentInv ==
    /\ \A d \in Cells : state[d] # "unbound" => stage["core"] >= 7
    /\ "chr" \in Cells /\ state["chr"] # "unbound" => stage["chr_module"] = 2

Inv == StageInv /\ LiveInv /\ ParentInv

(* What each action does to the devices.                                    *)
Moves(d, from, to) ==
    /\ state[d] \in from /\ state' = [state EXCEPT ![d] = to]
    /\ stage' = stage /\ live' = live

LEMMA MovesKeep ==
    ASSUME Inv, NEW d \in Devices,
           \/ Moves(d, {"unbound"}, "probing") /\ Available(d)
           \/ Moves(d, {"probing"}, "failing")
           \/ Moves(d, {"bound"}, "removing")
           \/ Moves(d, {"removing", "failing"}, "unbound") /\ stage[d] = 0
    PROVE  Inv'
<1> USE DEF Inv
<1>0. "core" \in Devices /\ "chr_module" \in Devices /\ Cells \subseteq Devices
  BY DEF Devices
<1>1. StageInv'
  <2>1. d \in AllDevices /\ Last(d) \in 2 .. 8
    BY DevicesKnown, Steps
  <2> QED  BY <2>1 DEF StageInv, Moves
<1>2. LiveInv'
  BY DEF LiveInv, Moves
<1>3. CASE Moves(d, {"unbound"}, "probing") /\ Available(d)
  <2>1. Owner("children") = "core" /\ Position("children") = 7
        /\ Owner("chr_driver") = "chr_module" /\ Position("chr_driver") = 2
    BY DEF Owner, Position
  <2>2. d \in Cells => stage["core"] >= 7
    <3>1. "children" \in live => 7 \in 1 .. stage["core"]
      BY <2>1 DEF LiveInv
    <3> QED  BY <1>0, <1>3, <3>1 DEF Available, StageInv
  <2>3. d = "chr" => stage["chr_module"] = 2
    <3>1. "chr_driver" \in live => 2 \in 1 .. stage["chr_module"]
      BY <2>1 DEF LiveInv
    <3>2. stage["chr_module"] \in Nat /\ stage["chr_module"] <= 2
      BY <1>0 DEF StageInv, Last
    <3> QED  BY <1>3, <3>1, <3>2 DEF Available
  <2>4. ParentInv'
    BY <1>0, <1>3, <2>2, <2>3 DEF ParentInv, StageInv, Moves
  <2> QED  BY <1>1, <1>2, <2>4
<1>4. CASE ~(Moves(d, {"unbound"}, "probing") /\ Available(d))
  <2>1. \A e \in Devices : state'[e] # "unbound" => state[e] # "unbound"
    BY <1>4 DEF Moves, StageInv
  <2>2. stage' = stage
    BY <1>4 DEF Moves
  <2>3. ParentInv'
    BY <1>0, <2>1, <2>2 DEF ParentInv
  <2> QED  BY <1>1, <1>2, <2>3
<1> QED  BY <1>3, <1>4

LEMMA AcquireKeeps ==
    ASSUME Inv, NEW d \in Devices, Acquire(d)
    PROVE  Inv'
<1> USE DEF Inv
<1> DEFINE r0 == Probe(d)[stage[d] + 1]
<1>0. "core" \in Devices /\ "chr_module" \in Devices /\ Cells \subseteq Devices
  BY DEF Devices
<1>1. d \in AllDevices /\ Last(d) \in 2 .. 8 /\ Len(Probe(d)) = Last(d)
  BY DevicesKnown, Steps
<1>2. /\ state[d] = "probing" /\ stage[d] \in Nat /\ stage[d] + 1 \in 1 .. Last(d)
      /\ live' = live \cup ({r0} \ Checks)
      /\ stage' = [stage EXCEPT ![d] = stage[d] + 1]
      /\ state' = IF stage[d] + 1 = Last(d)
                  THEN [state EXCEPT ![d] = "bound"] ELSE state
  BY <1>1 DEF Acquire, StageInv
<1>3. Owner(r0) = d /\ Position(r0) = stage[d] + 1
  BY <1>1, <1>2, Steps
<1>4. StageInv'
  BY <1>1, <1>2 DEF StageInv
<1>5. stage' \in [Devices -> Nat] /\ stage'[d] = stage[d] + 1
      /\ \A e \in Devices : stage[e] \in Nat /\ (e # d => stage'[e] = stage[e])
  BY <1>2 DEF StageInv
<1>6. ASSUME NEW r \in live'
      PROVE  /\ Owner(r) \in Devices /\ Position(r) \in 1 .. stage'[Owner(r)]
             /\ Probe(Owner(r))[Position(r)] = r
             /\ r \notin Checks
  <2> HIDE DEF r0
  <2>1. CASE r \in live
    <3>1. /\ Owner(r) \in Devices /\ Position(r) \in 1 .. stage[Owner(r)]
          /\ Probe(Owner(r))[Position(r)] = r
          /\ r \notin Checks
      BY <2>1 DEF LiveInv
    <3> QED  BY <1>5, <3>1
  <2>2. CASE r = r0 /\ r \notin Checks
    <3>1. Probe(Owner(r))[Position(r)] = r
      BY <1>3, <2>2 DEF r0
    <3> QED  BY <1>2, <1>3, <1>5, <2>2, <3>1
  <2> QED  BY <1>2, <2>1, <2>2
<1>7. ASSUME NEW e \in Devices, NEW i \in 1 .. stage'[e], Probe(e)[i] \notin Checks
      PROVE  Probe(e)[i] \in live'
  <2>1. CASE i \in 1 .. stage[e]
    BY <1>2, <1>7, <2>1 DEF LiveInv
  <2>2. CASE i \notin 1 .. stage[e]
    <3>1. e = d /\ i = stage[d] + 1
      BY <1>5, <2>2
    <3> QED  BY <1>2, <1>7, <3>1
  <2> QED  BY <2>1, <2>2
<1>8. LiveInv'
  BY <1>6, <1>7 DEF LiveInv
<1>9. ParentInv'
  <2>1. \A e \in Devices : state'[e] # "unbound" => state[e] # "unbound"
    BY <1>2 DEF StageInv
  <2>2. stage'["core"] >= stage["core"]
    BY <1>0, <1>5
  <2>3. stage["chr_module"] = 2 => stage'["chr_module"] = 2
    <3>1. stage'["chr_module"] <= 2
      BY <1>0, <1>4 DEF StageInv, Last
    <3> QED  BY <1>0, <1>5, <3>1
  <2> QED  BY <1>0, <1>5, <2>1, <2>2, <2>3 DEF ParentInv
<1> QED  BY <1>4, <1>8, <1>9

LEMMA UndoKeeps ==
    ASSUME Inv, NEW d \in Devices, Undo(d) \/ LeaveBehind(d)
    PROVE  Inv'
<1> USE DEF Inv
<1> DEFINE r0 == Probe(d)[stage[d]]
<1>0. "core" \in Devices /\ "chr_module" \in Devices /\ Cells \subseteq Devices
  BY DEF Devices
<1>1. d \in AllDevices /\ Last(d) \in 2 .. 8 /\ Len(Probe(d)) = Last(d)
  BY DevicesKnown, Steps
<1>2. /\ Leaving(d) /\ stage[d] \in 1 .. Last(d)
      /\ Released(r0)
      /\ live' = live \ {r0}
      /\ stage' = [stage EXCEPT ![d] = stage[d] - 1]
      /\ state' = state
  BY <1>1 DEF Undo, LeaveBehind, Abandoned, Leaving, Released, Manual, StageInv
<1>3. Owner(r0) = d /\ Position(r0) = stage[d]
  BY <1>1, <1>2, Steps
<1>4. StageInv'
  BY <1>1, <1>2 DEF StageInv, Leaving
<1>5. stage' \in [Devices -> Nat] /\ stage'[d] = stage[d] - 1
      /\ \A e \in Devices : stage[e] \in Nat /\ (e # d => stage'[e] = stage[e])
  BY <1>2 DEF StageInv
<1>6. ASSUME NEW r \in live'
      PROVE  /\ Owner(r) \in Devices /\ Position(r) \in 1 .. stage'[Owner(r)]
             /\ Probe(Owner(r))[Position(r)] = r
             /\ r \notin Checks
  <2>1. /\ Owner(r) \in Devices /\ Position(r) \in 1 .. stage[Owner(r)]
        /\ Probe(Owner(r))[Position(r)] = r
        /\ r \notin Checks
    BY <1>2 DEF LiveInv
  <2>2. ~(Owner(r) = d /\ Position(r) = stage[d])
    BY <1>2, <2>1
  <2> QED  BY <1>5, <2>1, <2>2
<1>7. ASSUME NEW e \in Devices, NEW i \in 1 .. stage'[e], Probe(e)[i] \notin Checks
      PROVE  Probe(e)[i] \in live'
  <2>1. i \in 1 .. stage[e]
    BY <1>5
  <2>2. Probe(e)[i] \in live
    BY <1>7, <2>1 DEF LiveInv
  <2>3. e \in AllDevices /\ stage[e] <= Last(e) /\ Last(e) \in Nat
    BY DevicesKnown, Steps DEF StageInv
  <2>4. Owner(Probe(e)[i]) = e /\ Position(Probe(e)[i]) = i
    BY <1>5, <2>1, <2>3, Steps
  <2>5. ~(e = d /\ i = stage[d])
    BY <1>5
  <2> HIDE DEF r0
  <2>6. Probe(e)[i] # r0
    BY <1>3, <2>4, <2>5
  <2> QED  BY <1>2, <2>2, <2>6
<1>8. LiveInv'
  BY <1>6, <1>7 DEF LiveInv
<1>9. ASSUME NEW e \in Cells, state'[e] # "unbound"
      PROVE  stage'["core"] >= 7
  <2>1. stage["core"] >= 7
    BY <1>2, <1>9 DEF ParentInv
  <2>2. CASE d = "core" /\ stage["core"] = 7
    <3>1. r0 = "children"
      BY <2>2 DEF Probe, CoreProbe
    <3> QED  BY <1>2, <1>9, <3>1 DEF Released
  <2>3. CASE ~(d = "core" /\ stage["core"] = 7)
    BY <1>0, <1>5, <2>1, <2>3
  <2> QED  BY <2>2, <2>3
<1>10. ASSUME "chr" \in Cells, state'["chr"] # "unbound"
       PROVE  stage'["chr_module"] = 2
  <2>1. stage["chr_module"] = 2
    BY <1>2, <1>10 DEF ParentInv
  <2>2. CASE d = "chr_module"
    <3>1. r0 = "chr_driver"
      BY <2>1, <2>2 DEF Probe, ChrModuleInit
    <3> QED  BY <1>2, <1>10, <3>1 DEF Released
  <2>3. CASE d # "chr_module"
    BY <1>0, <1>5, <2>1, <2>3
  <2> QED  BY <2>2, <2>3
<1>11. ParentInv'
  BY <1>9, <1>10 DEF ParentInv
<1> QED  BY <1>4, <1>8, <1>11

-----------------------------------------------------------------------------
(* Hooks.  As long as none was taken back out of order, those installed     *)
(* form a stack whose top is in place.                                      *)
HookType ==
    /\ hook \in {"none", "efi", "other"} /\ prev_hook \in {"none", "efi", "other"}
    /\ other_prev \in {"none", "efi", "other"}
    /\ installed \subseteq {"efi", "other"}
    /\ crossed \in BOOLEAN

Stacked ==
    \/ installed = {} /\ hook = "none"
    \/ installed = {"efi"} /\ hook = "efi" /\ prev_hook = "none"
    \/ installed = {"other"} /\ hook = "other" /\ other_prev = "none"
    \/ /\ installed = {"efi", "other"}
       /\ \/ hook = "other" /\ other_prev = "efi" /\ prev_hook = "none"
          \/ hook = "efi" /\ prev_hook = "other" /\ other_prev = "none"

Hooked == "reboothook" \in Cells /\ stage["reboothook"] = 2

HookInv ==
    /\ HookType
    /\ "efi" \in installed <=> Hooked
    /\ ~crossed => Stacked

(* Only the second step of leicaefi_reboothook_probe touches the hooks.     *)
LEMMA HooksStep ==
    ASSUME NEW d \in Devices, NEW i \in 1 .. Last(d)
    PROVE  Probe(d)[i] = "hooks" <=> d = "reboothook" /\ i = 2
<1>1. d \in AllDevices
  BY DevicesKnown
<1>2. Owner(Probe(d)[i]) = d /\ Position(Probe(d)[i]) = i
  BY <1>1, Steps
<1>3. Owner("hooks") = "reboothook" /\ Position("hooks") = 2
  BY DEF Owner, Position
<1>4. Probe("reboothook")[2] = "hooks"
  BY DEF Probe, ReboothookProbe
<1> QED  BY <1>2, <1>3, <1>4

LEMMA AcquireKeepsHooks ==
    ASSUME Inv, HookInv, NEW d \in Devices, Acquire(d)
    PROVE  HookInv'
<1>1. d \in AllDevices /\ Last(d) \in 2 .. 8
  BY DevicesKnown, Steps
<1>2. /\ stage[d] \in Nat /\ stage[d] + 1 \in 1 .. Last(d)
      /\ stage' = [stage EXCEPT ![d] = stage[d] + 1] /\ stage \in [Devices -> Nat]
  BY <1>1 DEF Acquire, Inv, StageInv
<1>3. Probe(d)[stage[d] + 1] = "hooks" <=> d = "reboothook" /\ stage[d] = 1
  BY <1>2, HooksStep
<1>4. CASE d = "reboothook" /\ stage[d] = 1
  <2>1. InstallHooks
    BY <1>3, <1>4 DEF Acquire
  <2>2. "reboothook" \in Cells
    BY <1>4 DEF Devices
  <2>3. ~Hooked /\ Hooked'
    BY <1>2, <1>4, <2>2 DEF Hooked
  <2>4. "efi" \notin installed
    BY <2>3 DEF HookInv
  <2> QED  BY <2>1, <2>3, <2>4 DEF InstallHooks, HookInv, HookType, Stacked
<1>5. CASE ~(d = "reboothook" /\ stage[d] = 1)
  <2>1. UNCHANGED hookVars
    BY <1>3, <1>5 DEF Acquire
  <2>2. Hooked' <=> Hooked
    <3>1. CASE d = "reboothook"
      <4>1. stage[d] # 2 /\ stage'[d] = stage[d] + 1
        BY <1>2, <3>1 DEF Last
      <4> QED  BY <1>2, <1>5, <3>1, <4>1 DEF Hooked
    <3>2. CASE d # "reboothook"
      <4>1. "reboothook" \in Cells => stage'["reboothook"] = stage["reboothook"]
        BY <1>2, <3>2 DEF Devices
      <4> QED  BY <4>1 DEF Hooked
    <3> QED  BY <3>1, <3>2
  <2> QED  BY <2>1, <2>2 DEF HookInv, HookType, Stacked, hookVars
<1> QED  BY <1>4, <1>5

LEMMA UndoKeepsHooks ==
    ASSUME Inv, HookInv, NEW d \in Devices, Undo(d) \/ LeaveBehind(d)
    PROVE  HookInv'
<1>1. d \in AllDevices /\ Last(d) \in 2 .. 8
  BY DevicesKnown, Steps
<1>2. /\ stage[d] \in 1 .. Last(d)
      /\ stage' = [stage EXCEPT ![d] = stage[d] - 1] /\ stage \in [Devices -> Nat]
      /\ LeaveBehind(d) => stage[d] # Last(d)
  BY <1>1 DEF Undo, LeaveBehind, Inv, StageInv
<1>3. Probe(d)[stage[d]] = "hooks" <=> d = "reboothook" /\ stage[d] = 2
  BY <1>2, HooksStep
<1>4. CASE d = "reboothook" /\ stage[d] = 2
  <2>1. RestoreHooks
    BY <1>2, <1>3, <1>4 DEF Undo, Last
  <2>2. "reboothook" \in Cells
    BY <1>4 DEF Devices
  <2>3. Hooked /\ ~Hooked'
    BY <1>2, <1>4, <2>2 DEF Hooked
  <2>4. "efi" \in installed
    BY <2>3 DEF HookInv
  <2>5. HookType'
    BY <2>1 DEF RestoreHooks, HookInv, HookType
  <2>6. ASSUME ~crossed'  PROVE Stacked'
    <3>1. ~crossed /\ hook = "efi"
      BY <2>1, <2>6 DEF RestoreHooks
    <3>2. \/ installed = {"efi"} /\ prev_hook = "none"
          \/ installed = {"efi", "other"} /\ prev_hook = "other" /\ other_prev = "none"
      BY <2>4, <3>1 DEF HookInv, Stacked
    <3>3. hook' = prev_hook /\ installed' = installed \ {"efi"} /\ other_prev' = other_prev
      BY <2>1 DEF RestoreHooks
    <3> QED  BY <3>2, <3>3 DEF Stacked
  <2>7. "efi" \notin installed'
    BY <2>1 DEF RestoreHooks
  <2> QED  BY <2>3, <2>5, <2>6, <2>7 DEF HookInv
<1>5. CASE ~(d = "reboothook" /\ stage[d] = 2)
  <2>1. UNCHANGED hookVars
    BY <1>3, <1>5 DEF Undo, LeaveBehind
  <2>2. Hooked' <=> Hooked
    <3>1. CASE d = "reboothook"
      <4>1. stage[d] # 2 /\ stage'[d] = stage[d] - 1 /\ stage[d] <= 2
        BY <1>2, <1>5, <3>1 DEF Last
      <4> QED  BY <1>2, <3>1, <4>1 DEF Hooked
    <3>2. CASE d # "reboothook"
      <4>1. "reboothook" \in Cells => stage'["reboothook"] = stage["reboothook"]
        BY <1>2, <3>2 DEF Devices
      <4> QED  BY <4>1 DEF Hooked
    <3> QED  BY <3>1, <3>2
  <2> QED  BY <2>1, <2>2 DEF HookInv, HookType, Stacked, hookVars
<1> QED  BY <1>4, <1>5

-----------------------------------------------------------------------------
(* What devres does not know is acquired last, or is one of two.            *)
LEMMA ManualLast ==
    ASSUME NEW d \in AllDevices, NEW i \in 1 .. Last(d), Probe(d)[i] \in Manual,
           i # Last(d)
    PROVE  Probe(d)[i] \in {"region", "cdev"}
<1> DEFINE r == Probe(d)[i]
<1>1. Owner(r) = d /\ Position(r) = i
  BY Steps
<1> HIDE DEF r
<1>2. CASE r = "node"
  BY <1>1, <1>2 DEF Owner, Position, Last
<1>3. CASE r = "hooks"
  BY <1>1, <1>3 DEF Owner, Position, Last
<1>4. CASE r = "worker_tsk"
  BY <1>1, <1>4 DEF Owner, Position, Last
<1> QED  BY <1>2, <1>3, <1>4 DEF Manual, r

(* The rest of the type invariant, and what failed probes left behind.      *)
RestInv == OnlyRegionAndCdevLeft /\ class_valid \in BOOLEAN

LEMMA LeaveBehindKeepsRest ==
    ASSUME Inv, RestInv, NEW d \in Devices, LeaveBehind(d)
    PROVE  RestInv'
<1>1. d \in AllDevices /\ stage[d] \in 1 .. Last(d) /\ stage[d] # Last(d)
  BY DevicesKnown, Steps DEF Inv, StageInv, LeaveBehind
<1>2. Probe(d)[stage[d]] \in Manual /\ orphans' = orphans \cup {Probe(d)[stage[d]]}
  BY DEF LeaveBehind, Abandoned
<1>3. orphans' \subseteq {"region", "cdev"}
  BY <1>1, <1>2, ManualLast DEF RestInv, OnlyRegionAndCdevLeft
<1> QED  BY <1>3 DEF RestInv, OnlyRegionAndCdevLeft, LeaveBehind

IInv == Inv /\ HookInv /\ RestInv

LEMMA InitIInv == Init => IInv
<1> SUFFICES ASSUME Init  PROVE IInv
  OBVIOUS
<1>1. \A d \in Devices : Last(d) \in 2 .. 8
  BY DevicesKnown, Steps
<1>2. StageInv
  BY <1>1 DEF Init, StageInv
<1>3. LiveInv
  <2>1. \A d \in Devices : 1 .. stage[d] = {}
    BY DEF Init
  <2> QED  BY <2>1 DEF Init, LiveInv
<1>4. ParentInv
  BY DEF Init, ParentInv, Devices
<1>5. HookInv
  <2>1. ~Hooked
    BY DEF Hooked, Init, Devices
  <2> QED  BY <2>1 DEF Init, HookInv, HookType, Stacked
<1> QED  BY <1>2, <1>3, <1>4, <1>5 DEF IInv, Inv, RestInv, OnlyRegionAndCdevLeft,
      Init

LEMMA OtherKeeps ==
    ASSUME IInv, OtherInstalls \/ OtherRestores
    PROVE  IInv'
<1>1. UNCHANGED <<state, stage, live, orphans, class_valid>>
  BY DEF OtherInstalls, OtherRestores
<1>2. Inv' /\ RestInv' /\ (Hooked' <=> Hooked)
  BY <1>1 DEF IInv, Inv, StageInv, LiveInv, ParentInv, RestInv, Hooked,
      OnlyRegionAndCdevLeft
<1>3. HookInv /\ HookType
  BY DEF IInv, HookInv
<1>4. CASE OtherInstalls
  BY <1>2, <1>3, <1>4 DEF OtherInstalls, HookInv, HookType, Stacked, IInv
<1>5. CASE OtherRestores
  <2>1. HookType' /\ ("efi" \in installed' <=> "efi" \in installed)
    BY <1>3, <1>5 DEF OtherRestores, HookType
  <2>2. ASSUME ~crossed'  PROVE Stacked'
    <3>1. ~crossed /\ hook = "other" /\ "other" \in installed
      BY <1>5, <2>2 DEF OtherRestores
    <3>2. \/ installed = {"other"} /\ other_prev = "none"
          \/ installed = {"efi", "other"} /\ other_prev = "efi" /\ prev_hook = "none"
      BY <1>3, <3>1 DEF HookInv, Stacked
    <3>3. hook' = other_prev /\ installed' = installed \ {"other"} /\ prev_hook' = prev_hook
      BY <1>5 DEF OtherRestores
    <3> QED  BY <3>2, <3>3 DEF Stacked
  <2> QED  BY <1>2, <1>3, <2>1, <2>2 DEF HookInv, IInv
<1> QED  BY <1>4, <1>5

LEMMA NextKeeps == IInv /\ [Next]_vars => IInv'
<1> SUFFICES ASSUME IInv, [Next]_vars  PROVE IInv'
  OBVIOUS
<1>0. Inv /\ HookInv /\ RestInv
  BY DEF IInv
<1>1. ASSUME NEW d \in Devices,
             Bind(d) \/ AcquireFails(d) \/ Unbind(d) \/ ParentLeaves(d) \/ Undone(d)
      PROVE  IInv'
  <2>1. \/ Moves(d, {"unbound"}, "probing") /\ Available(d)
        \/ Moves(d, {"probing"}, "failing")
        \/ Moves(d, {"bound"}, "removing")
        \/ Moves(d, {"removing", "failing"}, "unbound") /\ stage[d] = 0
    BY <1>1 DEF Bind, AcquireFails, Unbind, ParentLeaves, Undone, Moves, Leaving
  <2>2. Inv'
    BY <1>0, <2>1, MovesKeep
  <2>3. UNCHANGED <<stage, orphans, class_valid, hookVars>>
    BY <1>1 DEF Bind, AcquireFails, Unbind, ParentLeaves, Undone
  <2>4. HookInv' /\ RestInv'
    BY <1>0, <2>3 DEF HookInv, HookType, Stacked, Hooked, hookVars, RestInv,
        OnlyRegionAndCdevLeft
  <2> QED  BY <2>2, <2>4 DEF IInv
<1>2. ASSUME NEW d \in Devices, Acquire(d)
      PROVE  IInv'
  <2>1. Inv' /\ HookInv'
    BY <1>0, <1>2, AcquireKeeps, AcquireKeepsHooks
  <2>2. RestInv'
    BY <1>0, <1>2 DEF Acquire, RestInv, OnlyRegionAndCdevLeft
  <2> QED  BY <2>1, <2>2 DEF IInv
<1>3. ASSUME NEW d \in Devices, Undo(d) \/ LeaveBehind(d)
      PROVE  IInv'
  <2>1. Inv' /\ HookInv'
    BY <1>0, <1>3, UndoKeeps, UndoKeepsHooks
  <2>2. Undo(d) => RestInv'
    BY <1>0 DEF Undo, RestInv, OnlyRegionAndCdevLeft
  <2>3. RestInv'
    BY <1>0, <1>3, <2>2, LeaveBehindKeepsRest
  <2> QED  BY <2>1, <2>3 DEF IInv
<1>4. CASE UNCHANGED vars
  <2>1. UNCHANGED <<state, stage, live, orphans, class_valid, hookVars>>
    BY <1>4 DEF vars
  <2>2. Inv' /\ RestInv'
    BY <1>0, <2>1 DEF Inv, StageInv, LiveInv, ParentInv, RestInv,
        OnlyRegionAndCdevLeft
  <2>3. HookInv'
    BY <1>0, <2>1 DEF HookInv, HookType, Stacked, Hooked, hookVars
  <2> QED  BY <2>2, <2>3 DEF IInv
<1> QED  BY <1>1, <1>2, <1>3, <1>4, OtherKeeps DEF Next, Goes

(* The strengthened invariant: what each state says of a probe's progress,  *)
(* which resources are in use, what each device hangs from, and the stack   *)
(* of hooks.                                                                *)
THEOREM Inductive == Spec => []IInv
<1> QED  BY InitIInv, NextKeeps, PTL DEF Spec

LEMMA ResourcesOwned ==
    ASSUME NEW d \in Devices, NEW r \in Resources(d)
    PROVE  /\ Owner(r) = d /\ Position(r) \in 1 .. Last(d)
           /\ Probe(d)[Position(r)] = r /\ r \notin Checks
<1>1. d \in AllDevices
  BY DevicesKnown
<1>2. PICK i \in 1 .. Last(d) : r = Probe(d)[i]
  BY <1>1, Steps DEF Resources
<1> QED  BY <1>1, <1>2, Steps DEF Resources

(* Type correctness of the life cycle model.                                *)
THEOREM TypeCorrect == Spec => []TypeOK
<1>1. IInv => TypeOK
  <2> SUFFICES ASSUME IInv  PROVE TypeOK
    OBVIOUS
  <2>0. StageInv /\ LiveInv /\ HookType /\ RestInv
    BY DEF IInv, Inv, HookInv
  <2>1. ASSUME NEW r \in live
        PROVE  \E d \in Devices : r \in Resources(d)
    <3> DEFINE d == Owner(r)  i == Position(r)
    <3>1. d \in Devices /\ i \in 1 .. stage[d] /\ Probe(d)[i] = r /\ r \notin Checks
      BY <2>0 DEF LiveInv
    <3>2. stage[d] \in Nat /\ stage[d] <= Len(Probe(d)) /\ Len(Probe(d)) \in Nat
      BY <2>0, <3>1, DevicesKnown, Steps DEF StageInv
    <3>3. i \in 1 .. Len(Probe(d))
      BY <3>1, <3>2
    <3> HIDE DEF i, d
    <3> QED  BY <3>1, <3>3 DEF Resources
  <2>2. live \subseteq UNION {Resources(d) : d \in Devices}
    BY <2>1
  <2> QED  BY <2>0, <2>2 DEF StageInv, HookType, RestInv, OnlyRegionAndCdevLeft,
      Manual, TypeOK
<1> QED  BY <1>1, Inductive, PTL

(* The hook in place is reboothook's only while its device is there, unless *)
(* hooks were taken back out of order.                                      *)
LEMMA HookHeld ==
    ASSUME IInv, ~crossed, hook = "efi"
    PROVE  "hooks" \in live
<1>0. Stacked /\ ("efi" \in installed <=> Hooked) /\ LiveInv
  BY DEF IInv, Inv, HookInv
<1>1. Hooked
  BY <1>0 DEF Stacked
<1>2. Probe("reboothook")[2] = "hooks" /\ "hooks" \notin Checks
  BY DEF Probe, ReboothookProbe, Checks
<1> QED  BY <1>0, <1>1, <1>2 DEF LiveInv, Hooked, Devices

(* Whatever can be called has all it uses, through probes and removals of   *)
(* the core, its five children and the module that overlap, except the cdev *)
(* that a failed probe of chr leaves open and a hook that was put back out  *)
(* of order.                                                                *)
THEOREM NoDanglingAlways == Spec => []NoDangling
<1>1. ASSUME IInv, NEW r \in live, NEW s \in Needs(r)
      PROVE  s \in live
  <2> USE <1>1
  <2> DEFINE d == Owner(r)  i == Position(r)
  <2>0. StageInv /\ LiveInv /\ ParentInv
    BY DEF IInv, Inv
  <2>1. d \in Devices /\ i \in 1 .. stage[d] /\ Probe(d)[i] = r
    BY <2>0 DEF LiveInv
  <2>2. d \in AllDevices /\ stage[d] \in Nat /\ stage[d] <= Last(d) /\ Last(d) \in Nat
        /\ state[d] # "unbound"
    BY <2>0, <2>1, DevicesKnown, Steps DEF StageInv
  <2>3. i \in 1 .. Last(d)
    BY <2>1, <2>2
  <2> HIDE DEF d, i
  <2>4. /\ s \notin Checks
        /\ Probe(Owner(s))[Position(s)] = s
        /\ \/ Owner(s) = d /\ Position(s) \in 1 .. i - 1
           \/ s = "children" /\ Owner(s) = "core" /\ Position(s) = 7
              /\ d \notin {"core", "chr_module"}
           \/ s = "chr_driver" /\ Owner(s) = "chr_module" /\ Position(s) = 2
              /\ d = "chr"
    BY <2>1, <2>2, <2>3, NeedsOwned
  <2>5. CASE Owner(s) = d /\ Position(s) \in 1 .. i - 1
    <3>1. Position(s) \in 1 .. stage[d]
      BY <2>1, <2>2, <2>5
    <3> QED  BY <2>0, <2>1, <2>4, <2>5, <3>1 DEF LiveInv
  <2>6. CASE Owner(s) = "core" /\ Position(s) = 7 /\ d \notin {"core", "chr_module"}
    <3>1. d \in Cells /\ "core" \in Devices
      BY <2>1, <2>6 DEF Devices
    <3>2. 7 \in 1 .. stage["core"]
      BY <2>0, <2>2, <3>1 DEF ParentInv, StageInv
    <3> QED  BY <2>0, <2>4, <2>6, <3>1, <3>2 DEF LiveInv
  <2>7. CASE Owner(s) = "chr_module" /\ Position(s) = 2 /\ d = "chr"
    <3>1. "chr" \in Cells /\ "chr_module" \in Devices
      BY <2>1, <2>7 DEF Devices
    <3>2. 2 \in 1 .. stage["chr_module"]
      BY <2>0, <2>2, <2>7, <3>1 DEF ParentInv
    <3> QED  BY <2>0, <2>4, <2>7, <3>1, <3>2 DEF LiveInv
  <2> QED  BY <2>4, <2>5, <2>6, <2>7
<1>2. ASSUME IInv, NEW r \in orphans
      PROVE  Needs(r) = {} \/ r = "cdev"
  <2>1. r \in {"region", "cdev"}
    BY <1>2 DEF IInv, RestInv, OnlyRegionAndCdevLeft
  <2>2. Needs("region") = {}
    BY DEF Needs, CoreNeeds, ChrNeeds,
        ReboothookNeeds, LedsNeeds, KeysNeeds, PowerNeeds
  <2> QED  BY <2>1, <2>2
<1>3. IInv => NoDangling
  BY <1>1, <1>2, HookHeld DEF NoDangling
<1> QED  BY <1>3, Inductive, PTL

(* An unbound device has nothing of its driver's last stay in use, and of   *)
(* its failed probes at most the region and the cdev of chr.                *)
THEOREM NothingLeftAlways == Spec => []NothingLeft
<1>1. ASSUME IInv, NEW d \in Devices, state[d] = "unbound",
             NEW r \in live, r \in Resources(d)
      PROVE  FALSE
  <2> USE <1>1
  <2>1. Position(r) \in 1 .. stage[d]
    BY ResourcesOwned DEF IInv, Inv, LiveInv
  <2>2. stage[d] = 0
    BY DEF IInv, Inv, StageInv
  <2> QED  BY <2>1, <2>2
<1>2. IInv => NothingLeft
  BY <1>1 DEF NothingLeft, IInv, RestInv
<1> QED  BY <1>2, Inductive, PTL

(* Unless hooks were taken back out of order, the hook in place belongs to  *)
(* a driver that is there.                                                  *)
THEOREM HooksNestAlways == Spec => []HooksNest
<1>1. IInv => HooksNest
  <2> SUFFICES ASSUME IInv, ~crossed
               PROVE  /\ hook \in installed \cup {"none"}
                      /\ installed # {} => hook # "none"
                      /\ hook = "efi" => "hooks" \in live
    BY DEF HooksNest
  <2>1. Stacked
    BY DEF IInv, HookInv
  <2> QED  BY <2>1, HookHeld DEF Stacked
<1> QED  BY <1>1, Inductive, PTL

-----------------------------------------------------------------------------
(* A failed probe leaves at most the region and the cdev of chr behind.     *)
THEOREM OnlyRegionAndCdevLeftAlways == Spec => []OnlyRegionAndCdevLeft
<1>1. IInv => OnlyRegionAndCdevLeft
  BY DEF IInv, RestInv
<1> QED  BY <1>1, Inductive, PTL

(* Removals that overlap never wait in a circle.                            *)
THEOREM NoCircularWaitAlways == Spec => []NoCircularWait
<1>1. IInv => NoCircularWait
  <2> SUFFICES ASSUME IInv, NEW d \in Devices, Stuck(d)
               PROVE  \E e \in Cells : state[e] # "unbound" /\ ~Stuck(e)
    BY DEF NoCircularWait
  <2>1. /\ Owner("children") = "core" /\ Owner("chr_driver") = "chr_module"
        /\ "core" \notin Cells /\ "chr_module" \notin Cells
    BY DEF Owner
  <2>2. ASSUME NEW e \in Cells PROVE ~Stuck(e)
    <3> SUFFICES ASSUME Stuck(e) PROVE FALSE
      OBVIOUS
    <3>1. e \in AllDevices /\ stage[e] \in 1 .. Last(e)
      BY DevicesKnown, Steps DEF Devices, IInv, Inv, StageInv, Stuck
    <3>2. Owner(Probe(e)[stage[e]]) = e
      BY <3>1, Steps
    <3> QED  BY <2>1, <3>2 DEF Stuck, Released
  <2>3. \E e \in Cells : state[e] # "unbound"
    BY DEF Stuck, Released
  <2> QED  BY <2>2, <2>3
<1> QED  BY <1>1, Inductive, PTL

-----------------------------------------------------------------------------
(* The rank of the liveness argument: what is left of each stay.            *)
LEMMA StepsRunDown ==
    ASSUME IInv, [Next]_vars
    PROVE  \/ \E d \in Devices :
                 /\ \/ StepsLeft(d)' < StepsLeft(d)
                    \/ state[d] = "unbound" /\ Available(d) /\ state'[d] = "probing"
                 /\ \A e \in Devices \ {d} :
                       state'[e] = state[e] /\ stage'[e] = stage[e]
           \/ UNCHANGED <<state, stage, live>>
<1> DEFINE Others(d) == \A e \in Devices \ {d} :
                           state'[e] = state[e] /\ stage'[e] = stage[e]
           Less(d) == StepsLeft(d)' < StepsLeft(d) /\ Others(d)
           Begun(d) == /\ state[d] = "unbound" /\ Available(d)
                       /\ state'[d] = "probing" /\ Others(d)
           Same == UNCHANGED <<state, stage, live>>
<1>0. StageInv /\ \A d \in Devices : Len(Probe(d)) = Last(d) /\ Last(d) \in 2 .. 8
  BY DevicesKnown, Steps DEF IInv, Inv
<1> USE <1>0 DEF StageInv
<1>1. ASSUME NEW d \in Devices, Bind(d)
      PROVE  Begun(d)
  BY <1>1 DEF Bind
<1>2. ASSUME NEW d \in Devices, Acquire(d)
      PROVE  Less(d)
  <2>1. /\ state[d] = "probing"
        /\ stage' = [stage EXCEPT ![d] = stage[d] + 1]
        /\ state' = IF stage[d] + 1 = Last(d)
                    THEN [state EXCEPT ![d] = "bound"] ELSE state
    BY <1>2 DEF Acquire
  <2>2. Others(d)
    BY <2>1
  <2>3. StepsLeft(d) = 3 + 2 * Last(d) - stage[d]
    BY <2>1 DEF StepsLeft, Leaving
  <2>4. \/ StepsLeft(d)' = 2 + Last(d) /\ stage[d] + 1 = Last(d)
        \/ StepsLeft(d)' = 3 + 2 * Last(d) - (stage[d] + 1)
    BY <2>1 DEF StepsLeft, Leaving
  <2> QED  BY <2>2, <2>3, <2>4
<1>3. ASSUME NEW d \in Devices,
             AcquireFails(d) \/ Unbind(d) \/ ParentLeaves(d) \/ Undone(d)
      PROVE  Less(d)
  <2>1. /\ stage' = stage
        /\ \/ state[d] = "probing" /\ state' = [state EXCEPT ![d] = "failing"]
           \/ state[d] = "bound" /\ state' = [state EXCEPT ![d] = "removing"]
           \/ Leaving(d) /\ state' = [state EXCEPT ![d] = "unbound"]
    BY <1>3 DEF AcquireFails, Unbind, ParentLeaves, Undone
  <2> QED  BY <2>1 DEF StepsLeft, Leaving
<1>4. ASSUME NEW d \in Devices, Undo(d) \/ LeaveBehind(d)
      PROVE  Less(d)
  <2>1. /\ Leaving(d) /\ stage[d] > 0 /\ state' = state
        /\ stage' = [stage EXCEPT ![d] = stage[d] - 1]
    BY <1>4 DEF Undo, LeaveBehind, Leaving
  <2> QED  BY <2>1 DEF StepsLeft, Leaving
<1>5. ASSUME OtherInstalls \/ OtherRestores \/ UNCHANGED vars
      PROVE  Same
  BY <1>5 DEF OtherInstalls, OtherRestores, vars
<1>6. CASE \E d \in Devices : Less(d) \/ Begun(d)
  BY <1>6
<1> HIDE DEF StageInv, Less, Begun, Same
<1>7. (\E d \in Devices : Less(d) \/ Begun(d)) \/ Same
  BY <1>1, <1>2, <1>3, <1>4, <1>5 DEF Next, Goes
<1> QED  BY <1>6, <1>7 DEF Same

(* Every stay of a device with its driver runs down.                        *)
THEOREM RunsDownAlways == Spec => RunsDown
<1>1. IInv /\ [Next]_vars =>
        [\/ \E d \in Devices :
               /\ \/ StepsLeft(d)' < StepsLeft(d)
                  \/ state[d] = "unbound" /\ Available(d) /\ state'[d] = "probing"
               /\ \A e \in Devices \ {d} :
                     state'[e] = state[e] /\ stage'[e] = stage[e]
         \/ UNCHANGED <<state, stage, live>>]_vars
  BY StepsRunDown
<1> QED  BY <1>1, Inductive, PTL DEF Spec, RunsDown
=============================================================================

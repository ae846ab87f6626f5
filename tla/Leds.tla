-------------------------------- MODULE Leds --------------------------------
(***************************************************************************)
(* The LED driver, leds/leicaefi-leds.c: brightness and blink requests of   *)
(* the LED class, the worker thread that blinks in software every           *)
(* STATE_REFRESH_INTERVAL_MS, and probe and removal of the device.          *)
(*                                                                         *)
(* Every request and every round of the worker runs under efidev->lock from *)
(* its first read to its last register write.  A round is one step here.  A *)
(* request is two: worker_tsk, which it tests before it writes, is set and  *)
(* cleared outside the lock and may change in between.  A LED of the chip   *)
(* is lit or not: DIMMED, which blinking and brightness requests write, and *)
(* FULLY_ON, which the end of removal writes for the power LED, are both    *)
(* lit.  The bit pattern trigger, compiled in only with a kernel that       *)
(* carries it, is left out.                                                 *)
(***************************************************************************)
EXTENDS Integers, FiniteSets

CONSTANTS
    LedCount,       \* EFI_LED_COUNT; LEDs 2k and 2k+1 share an icon
    LedRegister,    \* efi_reg_no of each LED
    BatteryLeds,    \* LEDs with initial_brightness < 0
    PowerLed,       \* the LED that starts on and is on after removal
    Refresh,        \* STATE_REFRESH_INTERVAL_MS
    MaxInterval,    \* MAX_INTERVAL_COUNT
    Word,           \* unsigned long wraps at this value
    Delays,         \* requested delays, in milliseconds
    MaxFaults       \* bound on register updates that fail

LedIds    == 0 .. LedCount - 1
Registers == {1, 2}

ASSUME LedsAssumption ==
    /\ LedCount \in Nat \ {0}
    /\ LedRegister \in [LedIds -> Registers]
    /\ BatteryLeds \subseteq LedIds
    /\ PowerLed \in LedIds \ BatteryLeds
    /\ Refresh \in Nat \ {0} /\ MaxInterval \in Nat \ {0}
    /\ Word \in Nat /\ Word >= 2 * Refresh
    /\ Delays \subseteq 0 .. Word - 1
    /\ MaxFaults \in Nat

VARIABLES
    phase,          \* progress of probe and remove
    registered,     \* LED class devices registered
    worker,         \* worker_tsk # NULL; the thread runs in phase "up"
    request,        \* the request that holds the lock: its LED, and whether
                    \* its test of worker_tsk told it to spare the LED
    delay_on,       \* delay_on_intervals
    delay_off,      \* delay_off_intervals
    interval,       \* current_interval
    prev_on,        \* prev_state_on
    lit,            \* the chip's LED registers
    faults,         \* failed register updates so far
    disturbed,      \* history: blinking LEDs written past the blink logic,
                    \* or by an update that failed
    fresh,          \* history: no request since the worker's last round
    remove_fault    \* history: a register update of the removal failed

ledVars  == <<delay_on, delay_off, interval, prev_on>>
lifeVars == <<phase, registered, worker>>
vars == <<lifeVars, request, ledVars, lit, faults, disturbed, fresh,
          remove_fault>>

NoRequest == [led |-> -1, spared |-> FALSE]

Blinking(i) == delay_on[i] # 0 /\ delay_off[i] # 0

TypeOK ==
    /\ phase \in {"none", "register", "init", "start", "failed", "up", "stopped",
                  "unregister", "abort", "removed"}
    /\ registered \subseteq LedIds
    /\ worker \in BOOLEAN
    /\ request \in {NoRequest} \cup [led : LedIds, spared : BOOLEAN]
    /\ delay_on \in [LedIds -> 0 .. MaxInterval]
    /\ delay_off \in [LedIds -> 0 .. MaxInterval]
    /\ interval \in [LedIds -> Nat]
    /\ prev_on \in [LedIds -> BOOLEAN]
    /\ lit \in [LedIds -> BOOLEAN]
    /\ faults \in 0 .. MaxFaults
    /\ disturbed \subseteq LedIds
    /\ fresh \in BOOLEAN
    /\ remove_fault \in BOOLEAN

-----------------------------------------------------------------------------
(* leicaefi_led_set_register_unlocked: clear the masked bits, then set the  *)
(* new value; either transfer may fail, before or after the chip acted.     *)
Failures == {"clear_lost", "clear_applied", "set_lost", "set_applied"}
Outcomes == {"ok"} \cup (IF faults < MaxFaults THEN Failures ELSE {})

AfterWrite(before, mask, value, o) ==
    [i \in LedIds |->
        IF i \notin mask \/ o = "clear_lost" THEN before[i]
        ELSE o \in {"ok", "set_applied"} /\ value[i]]

Count(o) == faults' = IF o = "ok" THEN faults ELSE faults + 1

(* Faulty variant: the workaround for the battery LEDs is missing.          *)
SparesNone(i) == FALSE

(* leicaefi_led_brightness_set_unlocked: a battery LED is left alone when   *)
(* worker_tsk is NULL at the time it is tested.                             *)
Spares(i) == i \in BatteryLeds /\ ~worker

SetOne(i, on, spared, o) ==
    IF spared
    THEN o = "ok" /\ UNCHANGED <<lit, faults>>
    ELSE /\ Count(o)
         /\ lit' = AfterWrite(lit, {i}, [j \in LedIds |-> on], o)

-----------------------------------------------------------------------------
(* Requests of the LED class *)

Available(i) == i \in registered

(* A request takes the lock and tests worker_tsk.  What it does to the LED's *)
(* variables before the test only the holder of the lock can see.           *)
Begin(i) ==
    /\ request = NoRequest /\ Available(i)
    /\ request' = [led |-> i, spared |-> Spares(i)]
    /\ UNCHANGED <<lifeVars, ledVars, lit, faults, disturbed, fresh,
                   remove_fault>>

(* leicaefi_led_brightness_set: off ends blinking, on leaves it running.    *)
BrightnessSet(i, on, o) ==
    /\ request.led = i
    /\ IF on THEN UNCHANGED <<delay_on, delay_off, interval>>
             ELSE /\ delay_on'  = [delay_on  EXCEPT ![i] = 0]
                  /\ delay_off' = [delay_off EXCEPT ![i] = 0]
                  /\ interval'  = [interval  EXCEPT ![i] = 0]
    /\ SetOne(i, on, request.spared, o)
    /\ disturbed' = IF on /\ Blinking(i) THEN disturbed \cup {i}
                                         ELSE disturbed \ {i}
    /\ request' = NoRequest
    /\ fresh' = FALSE
    /\ UNCHANGED <<lifeVars, prev_on, remove_fault>>

(* Faulty variant: neither the cap nor the width of the word.               *)
IntervalsUnbounded(ms) ==
    ((IF ms = 0 THEN Refresh ELSE ms) + Refresh - 1) \div Refresh

(* Faulty variant: no default for a delay of zero.                          *)
IntervalsNoDefault(ms) ==
    LET rounded == ((ms + Refresh - 1) % Word) \div Refresh
    IN  IF rounded > MaxInterval THEN MaxInterval ELSE rounded

(* The rounding of leicaefi_led_blink_set, in unsigned long.                *)
Intervals(ms) ==
    LET wanted  == IF ms = 0 THEN Refresh ELSE ms
        rounded == ((wanted + Refresh - 1) % Word) \div Refresh
    IN  IF rounded > MaxInterval THEN MaxInterval ELSE rounded

(* Faulty variant: prev_state_on survives the new request.                  *)
BlinkSetKeepsState(i, on_ms, off_ms, o) ==
    /\ request.led = i
    /\ delay_on'  = [delay_on  EXCEPT ![i] = Intervals(on_ms)]
    /\ delay_off' = [delay_off EXCEPT ![i] = Intervals(off_ms)]
    /\ interval'  = [interval  EXCEPT ![i] = 0]
    /\ SetOne(i, FALSE, request.spared, o)
    /\ disturbed' = IF o = "ok" /\ ~request.spared
                    THEN disturbed \ {i} ELSE disturbed \cup {i}
    /\ request' = NoRequest
    /\ fresh' = FALSE
    /\ UNCHANGED <<lifeVars, prev_on, remove_fault>>

(* leicaefi_led_blink_set: the worker starts with the on phase.             *)
BlinkSet(i, on_ms, off_ms, o) ==
    /\ request.led = i
    /\ delay_on'  = [delay_on  EXCEPT ![i] = Intervals(on_ms)]
    /\ delay_off' = [delay_off EXCEPT ![i] = Intervals(off_ms)]
    /\ interval'  = [interval  EXCEPT ![i] = 0]
    /\ prev_on'   = [prev_on   EXCEPT ![i] = FALSE]
    /\ SetOne(i, FALSE, request.spared, o)
    /\ disturbed' = IF o = "ok" /\ ~request.spared
                    THEN disturbed \ {i} ELSE disturbed \cup {i}
    /\ request' = NoRequest
    /\ fresh' = FALSE
    /\ UNCHANGED <<lifeVars, remove_fault>>

(* The rest of the request under way.                                       *)
Serve ==
    \E i \in LedIds, o \in Outcomes :
        \/ \E on \in BOOLEAN : BrightnessSet(i, on, o)
        \/ \E on_ms, off_ms \in Delays : BlinkSet(i, on_ms, off_ms, o)

Request == Serve \/ \E i \in LedIds : Begin(i)

-----------------------------------------------------------------------------
(* One round of leicaefi_leds_thread_loop *)

OnPhase(i) == interval[i] < delay_on[i]

(* The odd LED of an icon follows the even one, inverted, when both blink   *)
(* with the same symmetric delays.                                          *)
Paired(i) ==
    /\ i % 2 = 1
    /\ delay_off[i] = delay_on[i]
    /\ delay_off[i] = delay_off[i - 1] /\ delay_on[i] = delay_on[i - 1]

(* Faulty variant: the odd LED goes by its own interval.                    *)
StateOnUnpaired(i) == OnPhase(i)

StateOn(i) == IF Paired(i) THEN ~OnPhase(i - 1) ELSE OnPhase(i)

(* Faulty variant: the cycle ends with the on phase.                        *)
NextIntervalShort(i) ==
    IF ~Blinking(i) THEN interval[i]
    ELSE IF interval[i] + 1 >= delay_on[i] THEN 0
    ELSE interval[i] + 1

NextInterval(i) ==
    IF ~Blinking(i) THEN interval[i]
    ELSE IF interval[i] + 1 >= delay_on[i] + delay_off[i] THEN 0
    ELSE interval[i] + 1

(* leicaefi_led_update_blink_state_unlocked: LEDs whose state changes are   *)
(* written, per register; prev_state_on is set whether that works or not.   *)
Update(o) ==
    LET toggled == {i \in LedIds : Blinking(i) /\ StateOn(i) # prev_on[i]}
        inReg(r) == {i \in toggled : LedRegister[i] = r}
        value == [i \in LedIds |-> StateOn(i)]
        failed == {i \in toggled : o[LedRegister[i]] # "ok"}
    IN  /\ phase = "up" /\ request = NoRequest
        /\ \A r \in Registers : inReg(r) = {} => o[r] = "ok"
        /\ faults' = faults + Cardinality({r \in Registers : o[r] # "ok"})
        /\ faults' <= MaxFaults
        /\ lit' = AfterWrite(AfterWrite(lit, inReg(1), value, o[1]),
                             inReg(2), value, o[2])
        /\ prev_on' = [i \in LedIds |->
                         IF i \in toggled THEN StateOn(i) ELSE prev_on[i]]
        /\ interval' = [i \in LedIds |-> NextInterval(i)]
        /\ disturbed' = (disturbed \ toggled) \cup failed
        /\ fresh' = TRUE
        /\ UNCHANGED <<lifeVars, request, delay_on, delay_off, remove_fault>>

Worker == \E o \in [Registers -> Outcomes] : Update(o)

-----------------------------------------------------------------------------
(* leicaefi_leds_probe and leicaefi_leds_remove *)

All(v) == [i \in LedIds |-> v]

(* The instances are allocated zeroed.                                      *)
Probe ==
    /\ phase \in {"none", "removed"}
    /\ phase' = "register"
    /\ delay_on' = All(0) /\ delay_off' = All(0)
    /\ interval' = All(0) /\ prev_on' = All(FALSE)
    /\ disturbed' = {} /\ fresh' = FALSE /\ remove_fault' = FALSE
    /\ UNCHANGED <<registered, worker, request, lit, faults>>

(* devm_led_classdev_register, LED by LED; requests may come at once.       *)
RegisterLed ==
    /\ phase = "register"
    /\ \/ /\ \E i \in LedIds \ registered :
                /\ \A j \in LedIds \ registered : i <= j
                /\ registered' = registered \cup {i}
          /\ phase' = IF registered' = LedIds THEN "init" ELSE phase
       \/ phase' = "abort" /\ registered' = registered
    /\ UNCHANGED <<worker, request, ledVars, lit, faults, disturbed, fresh,
                   remove_fault>>

(* The initial brightness; delays a user has set meanwhile stay.  At most   *)
(* one of the writes fails, and the return values are ignored.              *)
InitLeds(bad, o) ==
    /\ phase = "init" /\ request = NoRequest
    /\ Count(o)
    /\ lit' = AfterWrite(
                 AfterWrite(lit, (LedIds \ BatteryLeds) \ {bad},
                            [i \in LedIds |-> i = PowerLed], "ok"),
                 {bad} \ BatteryLeds, [i \in LedIds |-> i = PowerLed], o)
    /\ disturbed' = disturbed \cup {i \in LedIds : Blinking(i)}
    /\ fresh' = FALSE
    /\ phase' = "start"
    /\ UNCHANGED <<registered, worker, request, ledVars, remove_fault>>

(* kthread_create, wake_up_process.  An error pointer is in worker_tsk till *)
(* it is recognised as one.                                                 *)
StartWorker ==
    /\ phase = "start"
    /\ worker' = TRUE
    /\ phase' \in {"up", "failed"}
    /\ UNCHANGED <<registered, request, ledVars, lit, faults, disturbed, fresh,
                   remove_fault>>

(* kthread_stop waits for the round in progress.                            *)
StopWorker ==
    /\ phase = "up"
    /\ phase' = "stopped"
    /\ UNCHANGED <<registered, worker, request, ledVars, lit, faults, disturbed,
                   fresh, remove_fault>>

(* worker_tsk = NULL, on both paths.                                        *)
ForgetWorker ==
    /\ \/ phase = "failed"  /\ phase' = "abort"
       \/ phase = "stopped" /\ phase' = "unregister"
    /\ worker' = FALSE
    /\ UNCHANGED <<registered, request, ledVars, lit, faults, disturbed, fresh,
                   remove_fault>>

(* Unregistering a LED switches it off through brightness_set: in order on  *)
(* removal, by devm in reverse order after a failed probe.                  *)
UnregisterLed(i, o) ==
    /\ i \in registered /\ request = NoRequest
    /\ \/ phase = "unregister" /\ \A j \in registered : i <= j
       \/ phase = "abort" /\ \A j \in registered : j <= i
    /\ delay_on'  = [delay_on  EXCEPT ![i] = 0]
    /\ delay_off' = [delay_off EXCEPT ![i] = 0]
    /\ interval'  = [interval  EXCEPT ![i] = 0]
    /\ SetOne(i, FALSE, Spares(i), o)
    /\ disturbed' = disturbed \ {i}
    /\ registered' = registered \ {i}
    /\ fresh' = FALSE
    /\ UNCHANGED <<phase, worker, request, prev_on, remove_fault>>

(* A probe that failed ends here: nothing more is written.                  *)
Aborted ==
    /\ phase = "abort" /\ registered = {}
    /\ phase' = "none"
    /\ UNCHANGED <<registered, worker, request, ledVars, lit, faults, disturbed,
                   fresh, remove_fault>>

(* The three writes that end the removal: the LEDs of each register off but *)
(* for the battery, then the power LED on.  No return value is looked at.   *)
Transfers == {"ok"} \cup (IF faults < MaxFaults THEN {"lost", "applied"} ELSE {})

FinalStep(o) ==
    /\ phase = "unregister" /\ registered = {}
    /\ faults' = faults + Cardinality({t \in 1 .. 3 : o[t] # "ok"})
    /\ faults' <= MaxFaults
    /\ remove_fault' = (faults' # faults)
    /\ phase' = "removed"
    /\ UNCHANGED <<registered, worker, request, ledVars, disturbed, fresh>>

Kept(i, o) == lit[i] /\ o[LedRegister[i]] = "lost"

(* Faulty variant: the power LED stays off.                                 *)
FinalWritesNoPower(o) ==
    /\ FinalStep(o)
    /\ lit' = [i \in LedIds |-> IF i \in BatteryLeds THEN lit[i] ELSE Kept(i, o)]

FinalWrites(o) ==
    /\ FinalStep(o)
    /\ lit' = [i \in LedIds |->
                 IF i \in BatteryLeds THEN lit[i]
                 ELSE Kept(i, o) \/ (i = PowerLed /\ o[3] # "lost")]

Lifecycle ==
    \/ Probe
    \/ RegisterLed
    \/ \E bad \in LedIds, o \in Outcomes : InitLeds(bad, o)
    \/ StartWorker
    \/ StopWorker
    \/ ForgetWorker
    \/ \E i \in LedIds, o \in Outcomes : UnregisterLed(i, o)
    \/ Aborted
    \/ \E o \in [1 .. 3 -> Transfers] : FinalWrites(o)

-----------------------------------------------------------------------------
(* The registers of the chip hold what an earlier owner left.               *)
Init ==
    /\ phase = "none" /\ registered = {} /\ worker = FALSE
    /\ request = NoRequest
    /\ delay_on = All(0) /\ delay_off = All(0)
    /\ interval = All(0) /\ prev_on = All(FALSE)
    /\ lit \in [LedIds -> BOOLEAN]
    /\ faults = 0
    /\ disturbed = {} /\ fresh = FALSE /\ remove_fault = FALSE

Next == Request \/ Worker \/ Lifecycle

Spec == Init /\ [][Next]_vars

(* The worker is a kernel thread that sleeps between its rounds, and a      *)
(* request that holds the lock waits for nothing but its transfers.         *)
FairSpec == Spec /\ WF_vars(Worker) /\ WF_vars(Serve)

-----------------------------------------------------------------------------
(* Properties *)

(* prev_state_on stands for the register of a blinking LED, or the worker   *)
(* skips the write that a toggle needs (leds.c:267); a request that writes  *)
(* past the blink logic, the initial brightness written over a LED that     *)
(* blinks already, and an update that fails are the exceptions.             *)
RegisterFollows ==
    \A i \in LedIds :
        worker /\ Blinking(i) /\ i \notin disturbed => lit[i] = prev_on[i]

SameBlink(i) == i % 2 = 1 /\ Blinking(i) /\ Blinking(i - 1) /\ Paired(i)

(* After a round of the worker, exactly one LED of an icon is lit when both *)
(* blink with the same symmetric delays, whatever order they were started   *)
(* in (leds.c:248-250), unless one of them is disturbed: written past the   *)
(* blink logic by a brightness request above zero or by the initial         *)
(* brightness of the probe, or by an update that failed, and not toggled    *)
(* since.                                                                   *)
IconInverted ==
    \A i \in LedIds :
        worker /\ fresh /\ SameBlink(i) /\ {i - 1, i} \cap disturbed = {}
          => lit[i] # lit[i - 1]

(* What leds.c:248-250 says of two such LEDs: "they should blink in         *)
(* inverted cycle (if same parameters are set) so it will look e.g. like    *)
(* red/green/red/green and not yellow/blank/yellow".                        *)
IconInvertedAlways ==
    \A i \in LedIds : worker /\ fresh /\ SameBlink(i) => lit[i] # lit[i - 1]

(* While worker_tsk is NULL, so from its reset on removal to the next       *)
(* worker, no step changes a battery LED, whether requests, unregistering   *)
(* or the last writes (leds.c:182, 671), but for one: the request that held *)
(* the lock when worker_tsk was reset and had tested it before (leds.c:661, *)
(* 635 reset it without the lock).                                          *)
BatteryKept ==
    [][~worker /\ ~worker' =>
          \A b \in BatteryLeds :
              lit'[b] = lit[b] \/ (request.led = b /\ ~request.spared)]_vars

(* What leds.c:181 says: "do not change battery led status on device        *)
(* removal".                                                                *)
BatteryKeptOnRemoval ==
    [][phase = "unregister" => \A b \in BatteryLeds : lit'[b] = lit[b]]_vars

(* When no transfer of its last three writes fails, removal leaves the      *)
(* power LED on and everything else but the battery off, whatever users     *)
(* requested while the LEDs were being unregistered.                        *)
RemovedState ==
    phase = "removed" /\ ~remove_fault =>
        \A i \in LedIds \ BatteryLeds : lit[i] <=> i = PowerLed

(* The delays that do not overflow unsigned long when rounded.              *)
Accepted == {ms \in Delays : ms <= Word - Refresh}

(* A blink request makes the LED blink, defaults and cap included, unless   *)
(* rounding overflows unsigned long (leds.c:323-344).                       *)
BlinkAccepted ==
    [][\A i \in LedIds :
          (~Blinking(i))' =>
              \A on_ms, off_ms \in Accepted, o \in Outcomes :
                  ~BlinkSet(i, on_ms, off_ms, o)]_vars

(* A blinking LED is within its cycle of on and off intervals, although     *)
(* requests change the delays under the worker's feet (leds.c:295, 346).    *)
InCycle ==
    \A i \in LedIds :
        Blinking(i) => interval[i] < delay_on[i] + delay_off[i]

(* The rounds until the phase of a blinking LED turns.                      *)
RoundsLeft(i) ==
    (IF OnPhase(i) THEN delay_on[i] ELSE delay_on[i] + delay_off[i])
        - interval[i]

(* The safety half of Blinks: a round of the worker writes to every         *)
(* blinking LED the state its phase asks for, unless the update failed, and *)
(* brings its next turn one round nearer, never more than the cap away.     *)
RoundsTurn ==
    [][Worker =>
         \A i \in LedIds : Blinking(i) =>
             /\ i \notin disturbed' => lit'[i] = StateOn(i)
             /\ RoundsLeft(i) \in 1 .. MaxInterval
             /\ IF RoundsLeft(i) = 1
                THEN OnPhase(i)' # OnPhase(i)
                ELSE /\ OnPhase(i)' = OnPhase(i)
                     /\ RoundsLeft(i)' = RoundsLeft(i) - 1]_vars

(* Once the requests cease, a blinking LED goes on and off forever.         *)
Blinks ==
    <>[][Worker]_vars =>
        \A i \in LedIds : /\ []<>(phase = "up" /\ Blinking(i) => lit[i])
                          /\ []<>(phase = "up" /\ Blinking(i) => ~lit[i])
-----------------------------------------------------------------------------
(* The inductive invariant behind the safety properties *)

(* Only registered LEDs blink; the worker is forgotten, and everything      *)
(* unregistered, at the phases named.                                       *)
LifeInv ==
    /\ \A i \in LedIds \ registered : ~Blinking(i)
    /\ phase \in {"up", "failed", "stopped"} => worker
    /\ phase \in {"none", "removed"} => registered = {}
    /\ phase = "register" => registered # LedIds
    /\ phase \notin {"start", "up", "failed", "stopped"} => ~worker
    /\ request # NoRequest => request.led \in registered

(* With or without a worker, prev_state_on stands for the register.         *)
FollowInv ==
    \A i \in LedIds : Blinking(i) /\ i \notin disturbed => lit[i] = prev_on[i]

(* The last round left the two LEDs of an icon inverted.                    *)
IconInv ==
    fresh => \A i \in LedIds : SameBlink(i) => prev_on[i] # prev_on[i - 1]

IInv == TypeOK /\ LifeInv /\ FollowInv /\ IconInv /\ RemovedState
=============================================================================

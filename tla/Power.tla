-------------------------------- MODULE Power --------------------------------
(***************************************************************************)
(* The clients of the register and command channel that keep no state of    *)
(* their own: the properties of battery and chargers (power/), and the      *)
(* ioctls for the LED test mode, the active power source and the one-wire   *)
(* ports (chr/).  Any number of tasks call them at any time.                *)
(*                                                                         *)
(* Commands go through CommandChannel, which leicaefi_chip_gencmd           *)
(* implements (Gencmd!ChannelSpec).  The chip executes a battery message    *)
(* only while the battery answers it: without one it "may hang forever"     *)
(* (leicaefi-battery.c:80), and with it the channel.                        *)
(***************************************************************************)
EXTENDS Integers

CONSTANTS
    Clients, NoClient,  \* the tasks; nobody is served
    Calls,              \* the calls the tasks make
    RawValues,          \* what the registers and the battery may answer
    MaxFaults,          \* bound on failing transfers and commands
    MaxSwaps            \* bound on plugging and unplugging the battery

(* Properties by how the battery's answer is converted; calls that are one  *)
(* register read; the two LED calls.                                        *)
Messages == {"time", "micro", "temp", "count"}
Reads    == {"present", "capacity", "voltage", "source", "onewire", "bad_port"}
Ioctls   == {"source", "onewire"}
LedCalls == {"enable", "disable"}

(* 16 bits; 0 is what no battery answers, see AbsentTold.                   *)
Readings == 1 .. 65535

ASSUME PowerAssumption ==
    /\ NoClient \notin Clients
    /\ Calls \subseteq Messages \cup Reads \cup LedCalls
    /\ RawValues \subseteq Readings
    /\ MaxFaults \in Nat /\ MaxSwaps \in Nat

VARIABLES
    op,                 \* what each task calls
    pc,                 \* its progress; "back" once the call has returned ...
    rv, value,          \* ... these
    asking, served, done, result,   \* of CommandChannel
    answer,             \* what the battery answered the served command
    present,            \* the battery is plugged in
    test_mode,          \* the chip's test mode of LEDs 0 and 1
    faults, swaps,      \* how often the bounded events happened
    absent,             \* history: calls that found no battery
    failed,             \* history: calls of which a step failed
    overlap,            \* history: LED calls that met another one
    split,              \* history: the last LED call stopped halfway, met
                        \* another one, or failed and was executed
    unplugged           \* history: the battery went after a call saw it

channelVars == <<asking, served, done, result>>
callVars == <<op, pc, rv, value>>
boundVars == <<faults, swaps>>
histVars == <<absent, failed, overlap, split, unplugged>>
vars == <<callVars, channelVars, answer, present, test_mode, boundVars, histVars>>

Channel == INSTANCE CommandChannel

Codes == {"ok", "EIO", "EINTR", "EGENCMDFAIL", "EINVAL", "ENODEV"}

TypeOK ==
    /\ op \in [Clients -> Calls \cup {"none"}]
    /\ pc \in [Clients -> {"idle", "check", "msg", "led0", "led1", "back"}]
    /\ rv \in [Clients -> Codes \cup {"none"}]
    /\ value \in [Clients -> Int]
    /\ asking \subseteq Clients
    /\ served \in Clients \cup {NoClient}
    /\ done \in Channel!Outcomes
    /\ result \in [Clients -> Codes \cup {"none"}]
    /\ answer \in RawValues \cup {0}
    /\ present \in BOOLEAN
    /\ test_mode \in [{0, 1} -> BOOLEAN]
    /\ faults \in 0 .. MaxFaults /\ swaps \in 0 .. MaxSwaps
    /\ absent \subseteq Clients /\ failed \subseteq Clients
    /\ overlap \subseteq Clients
    /\ split \in BOOLEAN /\ unplugged \in BOOLEAN

Fault == faults < MaxFaults /\ faults' = faults + 1

-----------------------------------------------------------------------------
(* Conversions *)

(* leicaefi_battery_read_time_min, .._read_micro_unit, .._get_temp          *)
Convert(message, raw) ==
    CASE message = "time"  -> raw * 60
      [] message = "micro" -> raw * 1000
      [] message = "temp"  -> raw - 2732
      [] OTHER             -> raw

(* leicaefi_charger_get_voltage: ten bits of 2500 mV behind a divider of    *)
(* 104.7 and 10 kOhm, in microvolts; int divisions, in the code's order.    *)
AdcMax == 1023
VrefComp == (2500 * (104700 + 10000)) \div 10000
Voltage(reg) == (((reg % (AdcMax + 1)) * VrefComp) \div AdcMax) * 1000

(* leicaefi_chr_ioctl_get_active_power_source: the first active source in   *)
(* this order, bits 8 to 11 of PWR_SRC_STATUS; 0 when none is.              *)
Active(reg, n) == (reg \div 2^(7 + n)) % 2 = 1
PowerSource(reg) ==
    IF \E n \in 1 .. 4 : Active(reg, n)
    THEN CHOOSE n \in 1 .. 4 : Active(reg, n) /\ \A m \in 1 .. n - 1 : ~Active(reg, m)
    ELSE 0

(* What a call that is one register read makes of the register.  A supply's *)
(* presence is one bit of it; a one-wire device is an id and a family code, *)
(* here as one number, the code's bytes swapped.                            *)
ReadValue(call, reg) ==
    CASE call = "present" -> reg % 2
      [] call = "voltage" -> Voltage(reg)
      [] call = "source"  -> PowerSource(reg)
      [] call = "onewire" -> (reg % 256) * 256 + reg \div 256
      [] OTHER            -> reg

-----------------------------------------------------------------------------
(* Calls *)

LedRunning(c) == pc[c] \in {"led0", "led1"}

(* A task calls get_property of the battery for a message, ...              *)
BeginMessage(c, call) ==
    /\ pc[c] = "idle"
    /\ op' = [op EXCEPT ![c] = call]
    /\ pc' = [pc EXCEPT ![c] = "check"]
    /\ UNCHANGED <<rv, value, channelVars, answer, present, test_mode, boundVars,
                   histVars>>

(* ... or the LED ioctl, which asks for its first command at once, ...      *)
BeginLed(c, call) ==
    /\ pc[c] = "idle"
    /\ op' = [op EXCEPT ![c] = call]
    /\ pc' = [pc EXCEPT ![c] = "led0"]
    /\ Channel!Ask(c)
    /\ LET others == {d \in Clients : LedRunning(d)}
       IN  overlap' = overlap \cup others \cup (IF others = {} THEN {} ELSE {c})
    /\ UNCHANGED <<rv, value, answer, present, test_mode, boundVars, absent, failed,
                   split, unplugged>>

Return(c, code) ==
    /\ pc' = [pc EXCEPT ![c] = "back"]
    /\ rv' = [rv EXCEPT ![c] = code]

(* ... or something that is one register read.  An ioctl turns its error    *)
(* into -EINVAL, and rejects an unknown port before it reads.               *)
Read(c, call) ==
    /\ pc[c] = "idle"
    /\ op' = [op EXCEPT ![c] = call]
    /\ \/ /\ call # "bad_port"
          /\ \E reg \in RawValues : value' = [value EXCEPT ![c] = ReadValue(call, reg)]
          /\ Return(c, "ok")
          /\ UNCHANGED <<faults, failed>>
       \/ /\ call # "bad_port"
          /\ Fault
          /\ Return(c, IF call \in Ioctls THEN "EINVAL" ELSE "EIO")
          /\ failed' = failed \cup {c}
          /\ value' = value
       \/ /\ call = "bad_port"
          /\ Return(c, "ENODEV")
          /\ failed' = failed \cup {c}
          /\ UNCHANGED <<value, faults>>
    /\ UNCHANGED <<channelVars, answer, present, test_mode, swaps, absent, overlap,
                   split, unplugged>>

(* The caller takes what it was told.                                       *)
Leave(c) ==
    /\ pc[c] = "back"
    /\ op' = [op EXCEPT ![c] = "none"] /\ pc' = [pc EXCEPT ![c] = "idle"]
    /\ rv' = [rv EXCEPT ![c] = "none"] /\ value' = [value EXCEPT ![c] = 0]
    /\ absent' = absent \ {c} /\ failed' = failed \ {c}
    /\ overlap' = overlap \ {c}
    /\ UNCHANGED <<channelVars, answer, present, test_mode, boundVars, split,
                   unplugged>>

(* Faulty variant: the default value is returned as it is.                  *)
CheckAbsentRaw(c) ==
    /\ pc[c] = "check" /\ ~present
    /\ Return(c, "ok")
    /\ value' = [value EXCEPT ![c] = 0]
    /\ absent' = absent \cup {c}
    /\ UNCHANGED <<op, channelVars, answer, present, test_mode, boundVars, failed,
                   overlap, split, unplugged>>

(* leicaefi_battery_read_msg: no command without a battery, but the default *)
(* value, which the caller converts like an answer.                         *)
CheckAbsent(c) ==
    /\ pc[c] = "check" /\ ~present
    /\ Return(c, "ok")
    /\ value' = [value EXCEPT ![c] = Convert(op[c], 0)]
    /\ absent' = absent \cup {c}
    /\ UNCHANGED <<op, channelVars, answer, present, test_mode, boundVars, failed,
                   overlap, split, unplugged>>

(* Faulty variant: the command is sent whether there is a battery or not.   *)
CheckNothing(c) ==
    /\ pc[c] = "check"
    /\ Channel!Ask(c)
    /\ pc' = [pc EXCEPT ![c] = "msg"]
    /\ UNCHANGED <<op, rv, value, answer, present, test_mode, boundVars, histVars>>

CheckPresent(c) ==
    /\ pc[c] = "check" /\ present
    /\ Channel!Ask(c)
    /\ pc' = [pc EXCEPT ![c] = "msg"]
    /\ UNCHANGED <<op, rv, value, answer, present, test_mode, boundVars, histVars>>

CheckFails(c) ==
    /\ pc[c] = "check"
    /\ Fault
    /\ Return(c, "EIO")
    /\ failed' = failed \cup {c}
    /\ UNCHANGED <<op, value, channelVars, answer, present, test_mode, swaps,
                   absent, overlap, split, unplugged>>

(* The channel has told c what became of its command.                       *)
Told(c) == c \notin asking /\ c # served

(* The battery's answer; read with the lock still held, so it is already in *)
(* value.                                                                   *)
MessageReturns(c) ==
    /\ pc[c] = "msg" /\ Told(c)
    /\ Return(c, result[c])
    /\ UNCHANGED <<op, value, channelVars, answer, present, test_mode, boundVars,
                   histVars>>

(* Faulty variant: the result of the first command is not looked at.        *)
SecondLedAnyway(c) ==
    /\ pc[c] = "led0" /\ Told(c)
    /\ Channel!Ask(c)
    /\ pc' = [pc EXCEPT ![c] = "led1"]
    /\ UNCHANGED <<op, rv, value, answer, present, test_mode, boundVars, histVars>>

(* leicaefi_chr_ioctl_led_set_test_mode: LED 1 follows LED 0 ...            *)
SecondLed(c) ==
    /\ pc[c] = "led0" /\ Told(c) /\ result[c] = "ok"
    /\ Channel!Ask(c)
    /\ pc' = [pc EXCEPT ![c] = "led1"]
    /\ UNCHANGED <<op, rv, value, answer, present, test_mode, boundVars, histVars>>

(* Faulty variant: the ioctl may end with its first command.                *)
LedReturnsEarly(c) ==
    /\ LedRunning(c) /\ Told(c)
    /\ Return(c, result[c])
    /\ split' = IF pc[c] = "led0" THEN split
                ELSE result[c] # "ok" \/ c \in overlap
    /\ UNCHANGED <<op, value, channelVars, answer, present, test_mode, boundVars,
                   absent, failed, overlap, unplugged>>

(* ... unless that failed, and the second result is the ioctl's.            *)
LedReturns(c) ==
    /\ LedRunning(c) /\ Told(c)
    /\ pc[c] = "led0" => result[c] # "ok"
    /\ Return(c, result[c])
    /\ split' = IF pc[c] = "led0" THEN split
                ELSE result[c] # "ok" \/ c \in overlap
    /\ UNCHANGED <<op, value, channelVars, answer, present, test_mode, boundVars,
                   absent, failed, overlap, unplugged>>

Task(c) ==
    \/ CheckAbsent(c) \/ CheckPresent(c) \/ CheckFails(c)
    \/ MessageReturns(c)
    \/ SecondLed(c) \/ LedReturns(c)
    \/ Leave(c)

-----------------------------------------------------------------------------
(* The command channel and the chip behind it *)

GiveUp(c) ==
    /\ Channel!GiveUp(c)
    /\ failed' = failed \cup {c}
    /\ UNCHANGED <<callVars, answer, present, test_mode, boundVars, absent, overlap,
                   split, unplugged>>

Serve(c) ==
    /\ Channel!Serve(c)
    /\ UNCHANGED <<callVars, answer, present, test_mode, boundVars, histVars>>

(* What the served command makes of the test mode.                          *)
ModeSet ==
    CASE pc[served] = "led0" -> [test_mode EXCEPT ![0] = (op[served] = "enable")]
      [] pc[served] = "led1" -> [test_mode EXCEPT ![1] = (op[served] = "enable")]
      [] OTHER               -> test_mode

(* The chip executes the command; one it reports as failed had no effect.   *)
Executes ==
    /\ Channel!Execute /\ done' = "ok"
    /\ pc[served] = "msg" => present
    /\ IF pc[served] = "msg" THEN answer' \in RawValues ELSE answer' = answer
    /\ test_mode' = ModeSet
    /\ UNCHANGED <<callVars, present, boundVars, histVars>>

Rejects ==
    /\ Channel!Execute /\ done' = "fail"
    /\ pc[served] = "msg" => present
    /\ Fault
    /\ UNCHANGED <<callVars, answer, present, test_mode, swaps, histVars>>

(* The command's own outcome is reported, with the battery's answer.        *)
Replies ==
    /\ Channel!Reply /\ done # "none" /\ result'[served] # "EIO"
    /\ IF pc[served] = "msg" /\ done = "ok"
       THEN value' = [value EXCEPT ![served] = Convert(op[served], answer)]
       ELSE value' = value
    /\ failed' = IF done = "ok" THEN failed ELSE failed \cup {served}
    /\ answer' = 0
    /\ UNCHANGED <<op, pc, rv, present, test_mode, boundVars, absent, overlap,
                   split, unplugged>>

(* A transfer fails: writing the command, which the chip may have executed  *)
(* nevertheless (chip.c:175-177 gives it up either way), or reading its     *)
(* answer, which the LED commands have none of.                             *)
RepliesEio ==
    /\ Channel!Reply /\ result'[served] = "EIO"
    /\ done = "none" \/ (pc[served] = "msg" /\ done = "ok")
    /\ Fault
    /\ test_mode' \in {test_mode} \cup (IF done = "none" THEN {ModeSet} ELSE {})
    /\ split' = (split \/ test_mode' # test_mode)
    /\ failed' = failed \cup {served}
    /\ answer' = 0
    /\ UNCHANGED <<callVars, present, swaps, absent, overlap, unplugged>>

Chip == Executes \/ Rejects \/ Replies

(* Somebody plugs the battery in or out.                                    *)
Swap ==
    /\ swaps < MaxSwaps /\ swaps' = swaps + 1
    /\ present' = ~present
    /\ unplugged' = (unplugged \/ (present /\ \E c \in Clients : pc[c] = "msg"))
    /\ UNCHANGED <<callVars, channelVars, answer, test_mode, faults, absent, failed,
                   overlap, split>>

-----------------------------------------------------------------------------
Init ==
    /\ op = [c \in Clients |-> "none"]
    /\ pc = [c \in Clients |-> "idle"]
    /\ rv = [c \in Clients |-> "none"]
    /\ value = [c \in Clients |-> 0]
    /\ Channel!Init
    /\ answer = 0
    /\ present \in BOOLEAN
    /\ test_mode = [i \in {0, 1} |-> FALSE]
    /\ faults = 0 /\ swaps = 0
    /\ absent = {} /\ failed = {} /\ overlap = {}
    /\ split = FALSE /\ unplugged = FALSE

Next ==
    \/ \E c \in Clients :
          \/ \E call \in Calls \cap Messages : BeginMessage(c, call)
          \/ \E call \in Calls \cap LedCalls : BeginLed(c, call)
          \/ \E call \in Calls \cap Reads : Read(c, call)
          \/ Task(c) \/ GiveUp(c) \/ Serve(c)
    \/ Chip
    \/ RepliesEio
    \/ Swap

Spec == Init /\ [][Next]_vars

(* Tasks block only for the channel, whose lock is handed to its waiters in *)
(* turn; the chip executes and answers what it can.                         *)
FairSpec ==
    /\ Spec
    /\ WF_vars(Chip)
    /\ \A c \in Clients : WF_vars(Task(c)) /\ SF_vars(Serve(c))

-----------------------------------------------------------------------------
(* Properties *)

(* Every call returns, also one that waits behind another's battery message *)
(* without a timeout, unless the battery went between the presence check of *)
(* leicaefi-battery.c:80 and the command it lets through.                   *)
CallReturns == \A c \in Clients : pc[c] # "idle" ~> pc[c] = "idle" \/ unplugged

(* The two LEDs are in the same mode, unless a call changed one and failed  *)
(* then or by that very command, or two calls met (leicaefi-chr-led.c:21-43 holds no lock over    *)
(* its two commands).  A later call that succeeds alone makes up for both.  *)
LedTestAgrees ==
    ~split /\ (\A c \in Clients : ~LedRunning(c)) => test_mode[0] = test_mode[1]

(* A call is told success exactly when none of its transfers and commands   *)
(* failed and it was not interrupted.                                       *)
SuccessMeansServed ==
    \A c \in Clients : pc[c] = "back" => (rv[c] = "ok" <=> c \notin failed)

(* A temperature tells a missing battery from a cold one: the default of 0  *)
(* is converted like an answer (leicaefi-battery.c:186) and reads as        *)
(* absolute zero, which no battery answers.                                 *)
AbsentTold ==
    \A c \in Clients : pc[c] = "back" /\ op[c] = "temp" /\ rv[c] = "ok" =>
        (value[c] <= -2732 <=> c \in absent)

(* The calls take no step on the channel that its callers do not take: they *)
(* ask again only when told, and what holds of CommandChannel, which        *)
(* leicaefi_chip_gencmd implements, holds here.                             *)
UsesChannel == Channel!Spec

(* A command that the chip cannot execute, and with it everybody who waits  *)
(* for the channel, is blocked only by a battery that went after a call had *)
(* seen it (leicaefi-battery.c:80-97), by whatever calls are on their way.  *)
Blocked ==
    served # NoClient /\ pc[served] = "msg" /\ done = "none" /\ ~present

BlockedOnlyUnplugged == Blocked => unplugged

(* What a call still costs: its own steps and the channel's for its         *)
(* commands.                                                                *)
ChannelSteps(c) ==
    IF c \in asking THEN 3
    ELSE IF c # served THEN 0
    ELSE IF done = "none" THEN 2 ELSE 1

StepsLeft(c) ==
    CASE pc[c] = "idle"  -> 0
      [] pc[c] = "back"  -> 1
      [] pc[c] = "check" -> 6
      [] pc[c] = "led0"  -> 6 + ChannelSteps(c)
      [] OTHER           -> 2 + ChannelSteps(c)

(* A step leaves one call less to do, or begins one of at most nine steps,  *)
(* and costs no other call anything: no call repeats a command that failed, *)
(* was interrupted or met another call, and none is thrown back by others.  *)
RunsDown ==
    [][\/ \E c \in Clients :
             /\ \/ StepsLeft(c)' < StepsLeft(c)
                \/ pc[c] = "idle" /\ StepsLeft(c)' <= 9
             /\ \A d \in Clients \ {c} : StepsLeft(d)' = StepsLeft(d)
       \/ swaps' = swaps + 1 /\ UNCHANGED <<pc, channelVars>>]_vars
=============================================================================

-------------------------------- MODULE Core --------------------------------
(***************************************************************************)
(* The drivers around one EFI chip at work: the nested interrupt controller *)
(* (IrqChip), the command channel (Gencmd) and the key driver (Keys), and   *)
(* the register ioctls of the character device (chr/leicaefi-chr-reg.c),    *)
(* which reach the same registers without any lock.                         *)
(*                                                                         *)
(* Gencmd takes for granted that each interrupt the chip raises reaches its *)
(* handler.  Here the chip latches it in IFG or ERR and the controller's    *)
(* thread has to find it there; the handlers run inside the thread's loop   *)
(* (handle_nested_irq), so the key driver's transfer delays a completion.   *)
(* The model starts where probe ends: all interrupts enabled, none pending. *)
(***************************************************************************)
EXTENDS Integers, FiniteSets

CONSTANTS
    Clients, NoClient,      \* callers of leicaefi_chip_gencmd
    KeyCodes,               \* codes of the keys
    ErrBit, NoIrq,          \* of IrqChip
    MaxFaults,              \* bound on failing I2C transfers
    MaxRaw,                 \* bound on register ioctls with an effect
    MaxDisturbances,        \* bound on both together
    MaxKeys                 \* bound on changes of keys

(* The hwirqs of core/leicaefi-irq.h without those of the flash code, in    *)
(* their order.                                                             *)
KeyIrq      == 0
CompleteIrq == 1
ErrorIrq    == 2
IrqCount    == 3

VARIABLES
    \* of IrqChip
    phase, irq_requested, mask_requested, mask_current, wake_count, owner,
    step, enable_mask, disable_mask, thread, ifg_value, err_value, index,
    ie, ifg, err, edge, wake_on, parent_wake, dirty, read_fault, owed, stale,
    \* of Gencmd
    gencmd_lock, gencmd_state, waiting, pc, wants, got, rc, result, handler,
    signals, running, data, raw, outcome, tainted,
    \* of Keys
    down, key_data, input, key_read, key_fault,
    \* shared: failing transfers of all drivers
    faults,
    keys_changed,   \* how often a key changed
    meddled         \* history: a register ioctl took pending interrupts away
                    \* or changed IE

Irq == INSTANCE IrqChip WITH ErrorIrqs <- {ErrorIrq}, WakeIrqs <- {}
Cmd == INSTANCE Gencmd WITH FaultKinds <- {"lost", "applied"}
Key == INSTANCE Keys WITH Codes <- KeyCodes
R   == INSTANCE Registers

ASSUME CoreAssumption ==
    /\ NoClient \notin Clients
    /\ Key!KeyAssumption
    /\ ErrBit \notin 0 .. IrqCount - 1 /\ NoIrq \notin 0 .. IrqCount - 1
    /\ MaxFaults \in Nat /\ MaxRaw \in Nat
    /\ MaxDisturbances \in Nat /\ MaxKeys \in Nat

settledVars == <<phase, irq_requested, mask_requested, mask_current, wake_count,
                 owner, step, enable_mask, disable_mask, wake_on, parent_wake,
                 dirty, stale>>
chipIrqVars == <<ie, ifg, err, edge, owed>>
threadVars  == <<thread, ifg_value, err_value, index, read_fault>>
irqVars     == <<settledVars, chipIrqVars, threadVars>>
callerVars  == <<gencmd_lock, waiting, pc, wants, got, rc, result>>
unitVars    == <<running, data, outcome, tainted>>
cmdVars     == <<callerVars, gencmd_state, handler, signals, unitVars, raw>>
keyVars     == <<down, key_data, input, key_read, key_fault, keys_changed>>
vars == <<irqVars, cmdVars, keyVars, faults, meddled>>

Outcomes == {"ok", "lost", "applied"}

Transfer(o) ==
    /\ o \in Outcomes
    /\ IF o = "ok" THEN faults' = faults
                   ELSE faults < MaxFaults /\ faults' = faults + 1

-----------------------------------------------------------------------------
(* Callers of leicaefi_chip_gencmd, as in Gencmd.  All of them want the     *)
(* answer (one that does not only skips a transfer), and none is interrupted *)
(* in its wait for the lock (which changes nothing but its own result).     *)

Call(c) == Cmd!Call(c) /\ UNCHANGED <<irqVars, keyVars, meddled>>

Acquire(c) == Cmd!Acquire(c) /\ wants' /\ UNCHANGED <<irqVars, keyVars, meddled>>

Holder == Cmd!Holder /\ UNCHANGED <<irqVars, keyVars, meddled>>

-----------------------------------------------------------------------------
(* The controller's thread and the handlers that run inside its loop *)

HandlersIdle == handler = "idle" /\ ~key_read

ThreadRead ==
    /\ HandlersIdle
    /\ Irq!ThreadStart \/ \E o \in Outcomes : Irq!ReadIfg(o) \/ Irq!ReadErr(o)
    /\ UNCHANGED <<cmdVars, keyVars, meddled>>

(* The two command handlers; the interrupt that is reported is one of those *)
(* the chip raised.                                                         *)
CommandHandler(kind) ==
    /\ gencmd_state' = IF gencmd_state # "PENDING" THEN gencmd_state
                       ELSE IF kind = "complete" THEN "DONE" ELSE "FAILED"
    /\ handler' = "wake"
    /\ LET raised == {s \in signals : s[1] = kind}
       IN  IF raised = {} THEN signals' = signals
                          ELSE \E s \in raised : signals' = signals \ {s}

(* Faulty variant: a handler that runs ends the loop.                       *)
DispatchOnce ==
    /\ HandlersIdle
    /\ thread = "loop"
    /\ LET runs == Irq!Dispatches(index) /\ mask_requested[index]
       IN  /\ owed' = IF runs THEN owed \ {index} ELSE owed
           /\ IF index + 1 < IrqCount /\ ~runs
              THEN index' = index + 1 /\ UNCHANGED <<thread, ifg_value, err_value>>
              ELSE Irq!Return
           /\ key_read' = (runs /\ index = KeyIrq)
           /\ IF runs /\ index # KeyIrq
              THEN CommandHandler(IF index = CompleteIrq THEN "complete" ELSE "error")
              ELSE UNCHANGED <<gencmd_state, handler, signals>>
    /\ UNCHANGED <<settledVars, ie, ifg, err, edge, read_fault, faults, meddled,
                   callerVars, unitVars, raw, down, key_data, input, key_fault,
                   keys_changed>>

(* Faulty variant: the key interrupt runs the completion handler.           *)
DispatchWrong ==
    /\ HandlersIdle
    /\ Irq!Dispatch
    /\ LET runs == Irq!Dispatches(index) /\ mask_requested[index]
       IN  IF runs
           THEN CommandHandler(IF index = ErrorIrq THEN "error" ELSE "complete")
           ELSE UNCHANGED <<gencmd_state, handler, signals>>
    /\ UNCHANGED <<callerVars, unitVars, raw, keyVars, meddled>>

(* Faulty variant: the loop passes over the first hwirq.                    *)
DispatchSkipsFirst ==
    /\ HandlersIdle
    /\ Irq!Dispatch
    /\ LET runs == Irq!Dispatches(index) /\ mask_requested[index]
       IN  IF runs /\ index # KeyIrq
           THEN CommandHandler(IF index = CompleteIrq THEN "complete" ELSE "error")
           ELSE UNCHANGED <<gencmd_state, handler, signals>>
    /\ UNCHANGED <<callerVars, unitVars, raw, keyVars, meddled>>

(* One pass of the loop: handle_nested_irq runs the handler the consumer    *)
(* requested for the hwirq.                                                 *)
Dispatch ==
    /\ HandlersIdle
    /\ Irq!Dispatch
    /\ LET runs == Irq!Dispatches(index) /\ mask_requested[index]
       IN  /\ key_read' = (runs /\ index = KeyIrq)
           /\ IF runs /\ index # KeyIrq
              THEN CommandHandler(IF index = CompleteIrq THEN "complete" ELSE "error")
              ELSE UNCHANGED <<gencmd_state, handler, signals>>
    /\ UNCHANGED <<callerVars, unitVars, raw, down, key_data, input, key_fault,
                   keys_changed, meddled>>

WakeUp == Cmd!WakeUp /\ UNCHANGED <<irqVars, keyVars, meddled>>

KeyHandler(o) ==
    /\ Transfer(o)
    /\ Key!Handler(o)
    /\ UNCHANGED <<irqVars, cmdVars, keys_changed, meddled>>

Thread ==
    \/ ThreadRead
    \/ Dispatch
    \/ WakeUp
    \/ \E o \in Outcomes : KeyHandler(o)

-----------------------------------------------------------------------------
(* The chip *)

(* The command unit ends a command and latches the interrupt that says so.  *)
Finish(t) ==
    /\ t \in running
    /\ running' = running \ {t}
    /\ \/ /\ Irq!Raise(CompleteIrq)
          /\ signals' = signals \cup {<<"complete", t>>}
          /\ data' = <<"answer", t>>
          /\ outcome' = IF t = "cur" THEN "ok" ELSE outcome
       \/ /\ Irq!Raise(ErrorIrq)
          /\ signals' = signals \cup {<<"error", t>>}
          /\ data' = data
          /\ outcome' = IF t = "cur" THEN "fail" ELSE outcome
    /\ UNCHANGED <<callerVars, gencmd_state, handler, tainted, raw, keyVars,
                   meddled>>

KeyChange(c) ==
    /\ keys_changed < MaxKeys /\ keys_changed' = keys_changed + 1
    /\ Key!Toggle(c)
    /\ Irq!Raise(KeyIrq)
    /\ UNCHANGED <<cmdVars, meddled>>

-----------------------------------------------------------------------------
(* The register ioctls.  Whatever the caller is told, these are the ones    *)
(* the chip acted on; one that is refused, or whose transfer does not reach *)
(* the chip, changes nothing.                                               *)

(* Reading clears IFG, ERR and KEY_DATA for everyone.                       *)
RawRead(byte) ==
    /\ R!Reads(byte)
    /\ LET reg == R!RegNo(byte)
       IN  /\ ifg' = IF reg = R!RegIFG THEN {} ELSE ifg
           /\ err' = IF reg = R!RegERR THEN {} ELSE err
           /\ key_data' = IF reg = R!RegKeyData THEN Key!NoEvents ELSE key_data
    /\ key_fault' = IF key_data' # key_data THEN key_fault \cup {"dropped"}
                                            ELSE key_fault
    /\ ie' = ie
    /\ UNCHANGED <<running, data, tainted>>

(* Writing or clearing, which are the same byte, and setting bits of IE; a  *)
(* command or its input written past the driver.                            *)
RawWrite(byte, bits) ==
    /\ ~R!Reads(byte)
    /\ LET reg == R!RegNo(byte)
       IN  /\ ie' = IF reg # R!RegIE THEN ie
                    ELSE IF R!Sets(byte) THEN ie \cup bits ELSE ie \ bits
           /\ running' = IF reg = R!RegCmdCtrl THEN running \cup {"old"} ELSE running
           /\ data' = IF reg = R!RegCmdData THEN <<"input", "old">> ELSE data
           /\ tainted' = (tainted \/ reg \in {R!RegCmdCtrl, R!RegCmdData})
    /\ UNCHANGED <<ifg, err, key_data, key_fault>>

RegIoctl(ioctl, reg_no, bits) ==
    /\ raw < MaxRaw /\ raw' = raw + 1
    /\ R!Accepted(ioctl, reg_no)
    /\ LET byte == R!SentByte(ioctl, reg_no)
       IN  RawRead(byte) \/ RawWrite(byte, bits)
    /\ meddled' = (meddled \/ <<ie, ifg, err>>' # <<ie, ifg, err>>)
    /\ Irq!LatchEdge
    /\ UNCHANGED <<settledVars, threadVars, owed, faults, callerVars,
                   gencmd_state, handler, signals, outcome, down, input,
                   key_read, keys_changed>>

(* The numbers with an effect, with and without bits beyond the mask.       *)
UserNumbers ==
    LET effective == {R!RegIE, R!RegIFG, R!RegERR, R!RegCmdCtrl, R!RegCmdData,
                      R!RegKeyData}
    IN  effective \cup {n + R!SetBit : n \in effective}

-----------------------------------------------------------------------------
(* leicaefi_chip_init and leicaefi_keys_probe have enabled their interrupts *)
Init ==
    /\ phase = "up" /\ irq_requested = TRUE
    /\ mask_requested = [i \in Irq!Irqs |-> TRUE]
    /\ mask_current = [i \in Irq!Irqs |-> TRUE]
    /\ wake_count = 0 /\ wake_on = Irq!NoMask /\ parent_wake = 0
    /\ owner = NoIrq /\ step = "free" /\ enable_mask = {} /\ disable_mask = {}
    /\ thread = "idle" /\ ifg_value = {} /\ err_value = {} /\ index = 0
    /\ ie = Irq!IfgBits /\ ifg = {} /\ err = {} /\ edge = FALSE
    /\ dirty = {} /\ read_fault = {} /\ owed = {} /\ stale = Irq!NoneStale
    /\ Cmd!Init
    /\ Key!Init
    /\ keys_changed = 0 /\ meddled = FALSE

Step ==
    \/ \E c \in Clients : Call(c) \/ Acquire(c)
    \/ Holder
    \/ Thread
    \/ \E t \in Cmd!Tags : Finish(t)
    \/ \E c \in KeyCodes : KeyChange(c)
    \/ \E i \in R!Ioctls, n \in UserNumbers, b \in Irq!IfgBits :
          RegIoctl(i, n, {b})

Next == Step /\ faults' + raw' <= MaxDisturbances

Spec == Init /\ [][Next]_vars

(* As in IrqChip and Gencmd.                                                *)
FairSpec ==
    /\ Spec
    /\ WF_vars(Holder) /\ WF_vars(Thread)
    /\ \A t \in Cmd!Tags : WF_vars(Finish(t))
    /\ \A c \in Clients : SF_vars(Acquire(c))

-----------------------------------------------------------------------------
(* Properties *)

(* Nothing came between the chip and the controller's thread.               *)
Undisturbed == read_fault = {} /\ ~meddled

(* The interrupt i is on its way to its handler, and the line or the thread *)
(* will take it there.                                                      *)
UnderWay(i) ==
    /\ IF i = ErrorIrq THEN Irq!ErrorPending(i) ELSE Irq!PlainPending(i)
    /\ Irq!LineActive(ie, ifg) => edge \/ thread = "ifg"

(* A caller that waits is never forgotten (chip.c:190 has no timeout): the  *)
(* chip still works on its command, or the interrupt that ends the wait is  *)
(* on its way; neither is a key whose event is in KEY_DATA (the driver      *)
(* reads the register for an interrupt only).  Only a failed read of the    *)
(* controller's or the key driver's, or a register ioctl on IFG, ERR or IE, *)
(* can part the two.                                                        *)
CallerRemembered ==
    pc \in {"wait", "asleep"} /\ gencmd_state = "PENDING" /\ Undisturbed =>
        "cur" \in running \/ UnderWay(CompleteIrq) \/ UnderWay(ErrorIrq)

KeyRemembered ==
    key_data # Key!NoEvents /\ Undisturbed /\ key_fault = {} =>
        key_read \/ UnderWay(KeyIrq)

NeverForgotten == CallerRemembered /\ KeyRemembered

(* Once the chip has nothing left to do and the thread sleeps with no edge  *)
(* latched, everything has arrived: no caller waits for an answer, no       *)
(* interrupt is owed to a handler, and the input layer knows every key.     *)
Resting ==
    running = {} /\ ~edge /\ thread = "idle" /\ handler = "idle" /\ ~key_read

AtRest ==
    Resting /\ Undisturbed =>
        /\ ~(pc \in {"wait", "asleep"} /\ gencmd_state = "PENDING")
        /\ pc # "asleep"
        /\ owed = {}
        /\ key_fault = {} =>
              \A c \in KeyCodes \cap Key!Reported : input[c] = down[c]

(* What is left to do before the system rests: for the lock's holder, for a *)
(* command that runs (its interrupt starts a pass of the thread), and for   *)
(* the thread, whose pass may run a handler for each hwirq.                 *)
Count(b) == IF b THEN 1 ELSE 0

StepsOfHolder ==
    CASE pc = "none"   -> 0
      [] pc = "start"  -> 21
      [] pc = "data"   -> 20
      [] pc = "ctrl"   -> 19
      [] pc = "wait"   -> 5
      [] pc = "asleep" -> 4
      [] pc = "read"   -> 2
      [] pc = "unlock" -> 1
      [] OTHER         -> 3

StepsOfThread ==
    CASE thread = "ifg"  -> 11
      [] thread = "err"  -> 10
      [] thread = "loop" -> 3 * (IrqCount - index)
      [] OTHER           -> 0

StepsLeft ==
    StepsOfHolder + StepsOfThread
      + 13 * (Count("cur" \in running) + Count("old" \in running))
      + 12 * Count(edge)
      + 2 * (Count(handler = "wake") + Count(key_read))

(* Every step leaves less to do, but a call, a key and a register ioctl add *)
(* a bounded amount.  So no failure, late interrupt, spurious pass of the   *)
(* thread or wake-up starts anything over, and the drivers come to rest     *)
(* when callers, keys and ioctls pause.                                     *)
RunsDown ==
    [][\/ StepsLeft' < StepsLeft
       \/ /\ StepsLeft' = StepsLeft
          /\ UNCHANGED <<irqVars, pc, gencmd_state, handler, signals, unitVars,
                         keyVars>>
       \/ pc = "none" /\ StepsLeft' = StepsLeft + 21
       \/ keys_changed' = keys_changed + 1 /\ StepsLeft' <= StepsLeft + 12
       \/ raw' = raw + 1 /\ StepsLeft' <= StepsLeft + 13]_vars

(* So every command returns, with a key's transfers, late interrupts of     *)
(* earlier commands and register ioctls in between.                         *)
CallReturns ==
    \A c \in Clients :
        c \in waiting ~> (c \notin waiting /\ gencmd_lock # c) \/ ~Undisturbed

(* What callers, handlers and the chip do is what Gencmd describes, though   *)
(* that module delivers each interrupt by itself: a handler runs for an     *)
(* interrupt of its own kind that the chip raised, once, whatever else the  *)
(* thread's loop finds and whoever clears IFG.  Gencmd does not tell apart  *)
(* two interrupts of commands nobody waits for, so it ends with the first.  *)
CommandSteps ==
    [][tainted \/ Cmd!Next]_<<callerVars, gencmd_state, handler, signals, running,
                              data, outcome>>

(* So what Gencmd promises its callers holds behind the controller, too:    *)
(* their own answers, one command at a time, a free channel that is IDLE.   *)
CommandKept ==
    /\ Cmd!OwnAnswer /\ Cmd!OneCommand /\ Cmd!FreeMeansIdle
    /\ ~tainted => Cmd!NoLostWakeup

(* And callers see the abstract channel (CommandChannel).                   *)
ChannelSteps == Cmd!ChannelSteps

(* What the thread and the chip do to the controller is what IrqChip        *)
(* describes, though its handlers take their time in the loop: until a      *)
(* register ioctl takes a pending interrupt away or changes IE.             *)
ControllerSteps == [][meddled' \/ Irq!Next]_irqVars

(* So what IrqChip promises its consumers holds here.                       *)
ControllerKept ==
    ~meddled => Irq!LineNeverStuck /\ Irq!NoLostEvent /\ Irq!IeMatchesMasks

(* With KEY_DATA empty the input layer knows every key as it is.            *)
KeysFollow == Key!KeysFollow

(* A key event is reported, unless a read failed on the way.                *)
KeysSeen ==
    key_data # Key!NoEvents ~>
        key_data = Key!NoEvents \/ ~Undisturbed \/ key_fault # {}
=============================================================================

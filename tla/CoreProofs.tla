----------------------------- MODULE CoreProofs -----------------------------
(***************************************************************************)
(* Theorems about Core for any number of callers, keys, faults and register *)
(* ioctls.  CoreInv says where the interrupt is that a waiting caller waits *)
(* for, KeyInv what the register and the input layer hold together, and     *)
(* CleanInv that the chip and the thread show each signal of Gencmd in one  *)
(* place, so that every handler runs for a signal that Gencmd knows.        *)
(* The parts' own theorems are used where a step of the whole is a step of  *)
(* a part: IrqP and CmdP are their proof modules on Core's variables.       *)
(***************************************************************************)
EXTENDS Core, FiniteSetTheorems, TLAPS

LEMMA IrqSets ==
    /\ Irq!Irqs = {KeyIrq, CompleteIrq, ErrorIrq}
    /\ Irq!IfgBits = {KeyIrq, CompleteIrq, ErrBit}
    /\ KeyIrq = 0 /\ CompleteIrq = 1 /\ ErrorIrq = 2 /\ IrqCount = 3
    /\ ErrBit \notin {0, 1, 2}
<1>1. 0 .. 3 - 1 = {0, 1, 2}
  BY SMT
<1> QED
  BY <1>1, CoreAssumption DEF Irq!Irqs, Irq!IfgBits, Irq!PlainIrqs, IrqCount,
     KeyIrq, CompleteIrq, ErrorIrq

(* Probe enabled every interrupt and nothing disables one.                  *)
Settled ==
    /\ phase = "up" /\ irq_requested = TRUE
    /\ \A i \in Irq!Irqs : mask_requested[i] /\ mask_current[i]

ThreadInv ==
    /\ ifg \cup ifg_value \subseteq Irq!IfgBits
    /\ err \cup err_value \subseteq {ErrorIrq}
    /\ thread \in {"idle", "ifg", "err", "loop"}
    /\ index \in {0, 1, 2}
    /\ thread # "loop" => index = 0 /\ err_value = {}

(* Whatever an enabled bit of IFG stands for, the thread will come for it.  *)
LineInv ==
    /\ ~meddled => ie = Irq!IfgBits
    /\ Undisturbed /\ Irq!LineActive(ie, ifg) => edge \/ thread = "ifg"

CoreInv == Settled /\ ThreadInv /\ LineInv /\ CallerRemembered

LEMMA InitCoreInv == Init => CoreInv
BY IrqSets DEF Init, CoreInv, Settled, ThreadInv, LineInv, CallerRemembered,
   Undisturbed, Irq!LineActive, Cmd!Init, Irq!NoMask

(* The caller waits and has not been told the end of its command.           *)
Told == pc \in {"wait", "asleep"} /\ gencmd_state = "PENDING"

(* A step that leaves the controller alone keeps its part of the invariant. *)
LEMMA QuietStep ==
    ASSUME CoreInv, UNCHANGED irqVars, UNCHANGED meddled,
           Told' => "cur" \in running' \/ (Told /\ ("cur" \in running => "cur" \in running'))
    PROVE  CoreInv'
<1>1. Settled' /\ ThreadInv' /\ LineInv'
  BY DEF CoreInv, Settled, ThreadInv, LineInv, Undisturbed, Irq!LineActive,
     irqVars, settledVars, chipIrqVars, threadVars
<1>2. Undisturbed' = Undisturbed /\ UnderWay(CompleteIrq)' = UnderWay(CompleteIrq)
      /\ UnderWay(ErrorIrq)' = UnderWay(ErrorIrq)
  BY IrqSets DEF UnderWay, Irq!PlainPending, Irq!ErrorPending, Undisturbed,
     Irq!LineActive, irqVars, settledVars, chipIrqVars, threadVars
<1>3. CallerRemembered'
  BY <1>2 DEF CoreInv, CallerRemembered, Told
<1> QED  BY <1>1, <1>3 DEF CoreInv

(* The caller's own steps: it waits only once its command runs.             *)
LEMMA CallerStep ==
    ASSUME CoreInv, NEW c, Call(c) \/ Acquire(c) \/ Holder
    PROVE  CoreInv'
<1>1. UNCHANGED irqVars /\ UNCHANGED meddled
  BY DEF Call, Acquire, Holder
<1>2. Told' => "cur" \in running' \/ (Told /\ ("cur" \in running => "cur" \in running'))
  <2>1. CASE Call(c)
    BY <2>1 DEF Call, Cmd!Call, Cmd!chipVars, Told
  <2>2. CASE Acquire(c)
    BY <2>2 DEF Acquire, Cmd!Acquire, Told
  <2>3. CASE Cmd!Start \/ Cmd!ReqFail \/ Cmd!Done \/ Cmd!Fail
    BY <2>3 DEF Cmd!Start, Cmd!ReqFail, Cmd!Done, Cmd!Fail, Cmd!SetState, Told
  <2>4. ASSUME NEW o, Cmd!WriteData(o) \/ Cmd!WriteCtrl(o) \/ Cmd!ReadAnswer(o)
        PROVE  Told' => "cur" \in running'
    BY <2>4 DEF Cmd!WriteData, Cmd!WriteCtrl, Cmd!ReadAnswer, Cmd!Acts, Told
  <2>5. CASE Cmd!Wait
    BY <2>5 DEF Cmd!Wait, Cmd!chipVars, Told
  <2>6. CASE Cmd!Unlock
    BY <2>6 DEF Cmd!Unlock, Told
  <2> QED
    BY <2>1, <2>2, <2>3, <2>4, <2>5, <2>6 DEF Holder, Cmd!Holder
<1> QED  BY <1>1, <1>2, QuietStep

(* The handlers: they end a wait or leave it as it is.                      *)
LEMMA HandlerStep ==
    ASSUME CoreInv, NEW o, WakeUp \/ KeyHandler(o)
    PROVE  CoreInv'
<1>1. UNCHANGED irqVars /\ UNCHANGED meddled
  BY DEF WakeUp, KeyHandler
<1>2. running' = running /\ (Told' => Told)
  BY DEF WakeUp, Cmd!WakeUp, Cmd!chipVars, KeyHandler, cmdVars, callerVars,
     unitVars, Told
<1> QED  BY <1>1, <1>2, QuietStep

(* An interrupt that is raised pulls the line or finds it low already.      *)
LEMMA RaiseStep ==
    ASSUME CoreInv, NEW i \in Irq!Irqs, Irq!Raise(i), UNCHANGED meddled
    PROVE  /\ Settled' /\ ThreadInv' /\ LineInv'
           /\ Undisturbed' => Undisturbed /\ UnderWay(i)'
           /\ \A j \in Irq!Irqs : Undisturbed' /\ UnderWay(j) => UnderWay(j)'
<1> USE IrqSets DEF Irq!Raise, Irq!chipVars, Irq!maskVars, Irq!threadVars
<1>1. Settled' /\ ThreadInv' /\ UNCHANGED <<ie, read_fault, meddled, threadVars>>
  BY DEF CoreInv, Settled, ThreadInv, threadVars
<1>2. Undisturbed' = Undisturbed
  BY <1>1 DEF Undisturbed
<1>3. irq_requested = TRUE /\ LineInv
  BY DEF CoreInv, Settled
<1>4. LineInv'
  BY <1>1, <1>2, <1>3 DEF LineInv, Irq!LatchEdge, Irq!LineActive, threadVars
<1>5. ASSUME Undisturbed
      PROVE  UnderWay(i)'
  BY <1>1, <1>2, <1>3, <1>4, <1>5 DEF LineInv, UnderWay, Irq!PlainPending,
     Irq!ErrorPending, Undisturbed, threadVars
<1>6. ASSUME Undisturbed, NEW j \in Irq!Irqs, UnderWay(j)
      PROVE  UnderWay(j)'
  BY <1>1, <1>2, <1>3, <1>4, <1>6 DEF LineInv, UnderWay, Irq!PlainPending,
     Irq!ErrorPending, Undisturbed, threadVars
<1> QED  BY <1>1, <1>2, <1>4, <1>5, <1>6

LEMMA KeyChangeStep ==
    ASSUME CoreInv, NEW c \in KeyCodes, KeyChange(c)
    PROVE  CoreInv'
<1>1. KeyIrq \in Irq!Irqs /\ Irq!Raise(KeyIrq) /\ UNCHANGED meddled
  BY IrqSets DEF KeyChange
<1>2. running' = running /\ (Told' => Told)
  BY DEF KeyChange, cmdVars, callerVars, unitVars, Told
<1>3. CallerRemembered'
  BY <1>1, <1>2, RaiseStep, IrqSets DEF CoreInv, CallerRemembered, Told
<1> QED  BY <1>1, <1>3, RaiseStep DEF CoreInv

LEMMA FinishStep ==
    ASSUME CoreInv, NEW t \in Cmd!Tags, Finish(t)
    PROVE  CoreInv'
<1>1. PICK i \in {CompleteIrq, ErrorIrq} : Irq!Raise(i)
  BY DEF Finish
<1>2. i \in Irq!Irqs /\ UNCHANGED meddled /\ (Told' => Told)
  BY <1>1, IrqSets DEF Finish, callerVars, Told
<1>3. Settled' /\ ThreadInv' /\ LineInv' /\ (Undisturbed' => UnderWay(i)')
  BY <1>1, <1>2, RaiseStep
<1>4. CallerRemembered'
  BY <1>1, <1>3 DEF CallerRemembered
<1> QED  BY <1>3, <1>4 DEF CoreInv

(* The interrupts that are under way stay so, or the model says otherwise.  *)
StillUnderWay ==
    /\ Undisturbed
    /\ \A i \in Irq!Irqs : UnderWay(i) => UnderWay(i)'

(* The thread takes over what it reads, and clears only what it takes over. *)
LEMMA ReadMoves ==
    ASSUME CoreInv, ThreadRead
    PROVE  /\ Settled' /\ ThreadInv' /\ LineInv'
           /\ Undisturbed' => StillUnderWay
<1> USE IrqSets DEF StillUnderWay
<1> DEFINE Goal == /\ Settled' /\ ThreadInv' /\ LineInv'
                   /\ Undisturbed' => StillUnderWay
<1>1. UNCHANGED <<pc, gencmd_state, running, meddled>>
  BY DEF ThreadRead, cmdVars, callerVars, unitVars
<1>2. ASSUME Irq!ThreadStart
      PROVE  Goal
  <2>1. Settled' /\ ThreadInv' /\ LineInv'
    BY <1>1, <1>2 DEF CoreInv, Settled, ThreadInv, LineInv, Undisturbed,
       Irq!LineActive,
       Irq!ThreadStart, Irq!chipVars, Irq!maskVars, Irq!histVars
  <2>2. Undisturbed' = Undisturbed
    BY <1>1, <1>2 DEF Undisturbed, Irq!ThreadStart, Irq!histVars
  <2>3. \A i \in Irq!Irqs : UnderWay(i) => UnderWay(i)'
    BY <1>2 DEF CoreInv, ThreadInv, UnderWay, Irq!PlainPending, Irq!ErrorPending,
       Undisturbed, Irq!ThreadStart
  <2> QED  BY <2>1, <2>2, <2>3
<1>3. ASSUME NEW o \in Outcomes, Irq!ReadIfg(o)
      PROVE  Goal
  <2> USE DEF Irq!ReadIfg, Irq!chipVars, Irq!maskVars, Irq!Return
  <2>1. Settled' /\ ThreadInv'
    BY <1>3 DEF CoreInv, Settled, ThreadInv
  <2>2. CASE o # "ok"
    <3>1. ~Undisturbed'
      BY <1>3, <2>2 DEF Undisturbed
    <3>2. ie' = ie /\ meddled' = meddled
      BY <1>1, <1>3
    <3> QED  BY <2>1, <3>1, <3>2 DEF CoreInv, LineInv
  <2>3. CASE o = "ok"
    <3>1. /\ ifg' = {} /\ ie' = ie /\ err' = err /\ ifg_value' = ifg /\ err_value' = err_value
          /\ index' = index /\ read_fault' = read_fault /\ thread = "ifg"
          /\ thread' = IF ErrBit \in ifg THEN "err" ELSE "loop"
      BY <1>3, <2>3 DEF Irq!Acts
    <3>2. ~Irq!LineActive(ie, ifg)'  /\ LineInv'
      BY <1>1, <3>1 DEF CoreInv, LineInv, Undisturbed, Irq!LineActive
    <3>3. index = 0
      BY <3>1 DEF CoreInv, ThreadInv
    <3>4. \A i \in Irq!Irqs : UnderWay(i) => UnderWay(i)'
      BY <3>1, <3>2, <3>3 DEF UnderWay, Irq!PlainPending, Irq!ErrorPending,
         Undisturbed
    <3> QED  BY <1>1, <2>1, <3>1, <3>2, <3>4 DEF Undisturbed
  <2> QED  BY <2>2, <2>3
<1>4. ASSUME NEW o \in Outcomes, Irq!ReadErr(o)
      PROVE  Goal
  <2> USE DEF Irq!ReadErr, Irq!chipVars, Irq!maskVars, Irq!Return
  <2>1. Settled' /\ ThreadInv'
    BY <1>4 DEF CoreInv, Settled, ThreadInv
  <2>2. LineInv'
    BY <1>1, <1>4 DEF CoreInv, LineInv, Undisturbed, Irq!LineActive
  <2>3. CASE o # "ok"
    <3>1. ~Undisturbed'
      BY <1>4, <2>3 DEF Undisturbed
    <3> QED  BY <2>1, <2>2, <3>1
  <2>4. CASE o = "ok"
    <3>1. /\ ifg' = ifg /\ ie' = ie /\ err' = {} /\ ifg_value' = ifg_value /\ err_value' = err
          /\ index' = index /\ read_fault' = read_fault /\ thread = "err"
          /\ thread' = "loop" /\ edge' = edge
      BY <1>4, <2>4 DEF Irq!Acts
    <3>2. index = 0
      BY <3>1 DEF CoreInv, ThreadInv
    <3>3. \A i \in Irq!Irqs : UnderWay(i) => UnderWay(i)'
      BY <3>1, <3>2 DEF UnderWay, Irq!PlainPending, Irq!ErrorPending, Undisturbed,
         Irq!LineActive
    <3> QED  BY <1>1, <2>1, <2>2, <3>1, <3>3 DEF Undisturbed
  <2> QED  BY <2>3, <2>4
<1> QED  BY <1>2, <1>3, <1>4 DEF ThreadRead

LEMMA ReadStep ==
    ASSUME CoreInv, ThreadRead
    PROVE  CoreInv'
<1>1. UNCHANGED <<pc, gencmd_state, running>>
  BY DEF ThreadRead, cmdVars, callerVars, unitVars
<1>2. CallerRemembered'
  BY <1>1, ReadMoves, IrqSets DEF CoreInv, CallerRemembered, StillUnderWay
<1> QED  BY <1>2, ReadMoves DEF CoreInv

(* The loop passes an interrupt only by running its handler.                *)
LEMMA DispatchMoves ==
    ASSUME CoreInv, Dispatch
    PROVE  /\ Settled' /\ ThreadInv' /\ LineInv'
           /\ Undisturbed' = Undisturbed
           /\ \A i \in Irq!Irqs : UnderWay(i) =>
                 \/ UnderWay(i)'
                 \/ i = index /\ Irq!Dispatches(index) /\ mask_requested[index]
<1> USE IrqSets
<1>1. /\ thread = "loop" /\ index \in {0, 1, 2}
      /\ UNCHANGED <<phase, irq_requested, mask_requested, mask_current,
                     wake_count, owner, step, enable_mask, disable_mask,
                     wake_on, parent_wake, dirty, ie, ifg, err, edge,
                     read_fault, meddled>>
  BY DEF CoreInv, ThreadInv, Dispatch, Irq!Dispatch, Irq!chipVars, Irq!maskVars,
     Irq!wakeVars, Irq!busVars, settledVars
<1>2. \/ /\ index < 2 /\ index' = index + 1 /\ thread' = "loop"
         /\ UNCHANGED <<ifg_value, err_value>>
      \/ index = 2 /\ index' = 0 /\ thread' = "idle" /\ ifg_value' = {} /\ err_value' = {}
  BY <1>1 DEF Dispatch, Irq!Dispatch, Irq!Return
<1>3. Settled' /\ ThreadInv' /\ LineInv'
  BY <1>1, <1>2 DEF CoreInv, Settled, ThreadInv, LineInv, Undisturbed,
     Irq!LineActive,
     settledVars
<1>4. Undisturbed' = Undisturbed
  BY <1>1 DEF Undisturbed
<1>5. ASSUME NEW i \in Irq!Irqs, UnderWay(i)
      PROVE  \/ UnderWay(i)'
             \/ i = index /\ Irq!Dispatches(index) /\ mask_requested[index]
  <2>1. CASE i = index /\ i \in ifg_value \cup err_value
    BY <2>1 DEF CoreInv, Settled, Irq!Dispatches
  <2>2. CASE ~(i = index /\ i \in ifg_value \cup err_value)
    BY <1>1, <1>2, <1>5, <2>2 DEF UnderWay, Irq!PlainPending, Irq!ErrorPending,
       Undisturbed, Irq!LineActive
  <2> QED  BY <2>1, <2>2
<1> QED  BY <1>3, <1>4, <1>5

(* A handler of the command channel ends the wait.                          *)
LEMMA DispatchStep ==
    ASSUME CoreInv, Dispatch
    PROVE  CoreInv'
<1> USE IrqSets
<1>1. UNCHANGED <<pc, running>> /\ (gencmd_state' = "PENDING" => gencmd_state = "PENDING")
  BY DEF Dispatch, CommandHandler, callerVars, unitVars
<1>2. CASE /\ index \in {CompleteIrq, ErrorIrq}
           /\ Irq!Dispatches(index) /\ mask_requested[index]
  <2>1. gencmd_state' # "PENDING"
    BY <1>2 DEF Dispatch, CommandHandler
  <2> QED  BY <2>1, DispatchMoves DEF CoreInv, CallerRemembered
<1>3. CASE ~(/\ index \in {CompleteIrq, ErrorIrq}
             /\ Irq!Dispatches(index) /\ mask_requested[index])
  <2>1. \A i \in {CompleteIrq, ErrorIrq} : UnderWay(i) => UnderWay(i)'
    BY <1>3, DispatchMoves
  <2>2. CallerRemembered'
    BY <1>1, <2>1, DispatchMoves DEF CoreInv, CallerRemembered
  <2> QED  BY <2>2, DispatchMoves DEF CoreInv
<1> QED  BY <1>2, <1>3

(* A register ioctl that touches none of IE, IFG and ERR is harmless.       *)
LEMMA IoctlMoves ==
    ASSUME CoreInv, NEW ioctl, NEW reg_no, NEW bits, RegIoctl(ioctl, reg_no, bits)
    PROVE  /\ Settled' /\ ThreadInv' /\ LineInv'
           /\ Undisturbed' => StillUnderWay
<1> USE DEF StillUnderWay
<1>1. /\ UNCHANGED <<settledVars, threadVars>>
      /\ meddled' = (meddled \/ <<ie, ifg, err>>' # <<ie, ifg, err>>)
  BY DEF RegIoctl
<1>2. Settled' /\ ThreadInv'
  <2>1. ifg' \in {ifg, {}} /\ err' \in {err, {}}
    BY DEF RegIoctl, RawRead, RawWrite
  <2> QED
    BY <1>1, <2>1 DEF CoreInv, Settled, ThreadInv, settledVars, threadVars
<1>3. CASE meddled'
  BY <1>2, <1>3 DEF CoreInv, LineInv, Undisturbed
<1>4. CASE ~meddled'
  <2>1. ~meddled /\ ie' = ie /\ ifg' = ifg /\ err' = err
    BY <1>1, <1>4
  <2>2. edge' = edge
    BY <2>1 DEF RegIoctl, Irq!LatchEdge, Irq!LineActive
  <2>3. Undisturbed' = Undisturbed /\ LineInv'
    BY <1>1, <2>1, <2>2, <1>4 DEF CoreInv, LineInv, Undisturbed, Irq!LineActive,
       threadVars
  <2>4. \A i \in Irq!Irqs : UnderWay(i) => UnderWay(i)'
    BY <1>1, <2>1, <2>2 DEF UnderWay, Irq!PlainPending, Irq!ErrorPending,
       Undisturbed, Irq!LineActive, threadVars
  <2> QED  BY <1>2, <2>3, <2>4
<1> QED  BY <1>3, <1>4

LEMMA IoctlStep ==
    ASSUME CoreInv, NEW ioctl, NEW reg_no, NEW bits, RegIoctl(ioctl, reg_no, bits)
    PROVE  CoreInv'
<1>1. UNCHANGED <<pc, gencmd_state>> /\ ("cur" \in running => "cur" \in running')
  BY DEF RegIoctl, RawRead, RawWrite, callerVars
<1>2. CallerRemembered'
  BY <1>1, IoctlMoves, IrqSets DEF CoreInv, CallerRemembered, StillUnderWay
<1> QED  BY <1>2, IoctlMoves DEF CoreInv

LEMMA CoreKeeps == CoreInv /\ [Next]_vars => CoreInv'
<1> SUFFICES ASSUME CoreInv, [Next]_vars  PROVE CoreInv'
  OBVIOUS
<1>1. CASE UNCHANGED vars
  <2>1. UNCHANGED irqVars /\ UNCHANGED meddled /\ Told' = Told /\ running' = running
    BY <1>1 DEF vars, cmdVars, callerVars, unitVars, Told
  <2> QED  BY <2>1, QuietStep
<1>2. CASE Step
  <2>1. ASSUME NEW c \in Clients, Call(c) \/ Acquire(c)
        PROVE  CoreInv'
    BY <2>1, CallerStep
  <2>2. CASE Holder
    BY <2>2, CallerStep
  <2>3. CASE Thread
    BY <2>3, ReadStep, DispatchStep, HandlerStep DEF Thread
  <2>4. ASSUME NEW t \in Cmd!Tags, Finish(t)
        PROVE  CoreInv'
    BY <2>4, FinishStep
  <2>5. ASSUME NEW c \in KeyCodes, KeyChange(c)
        PROVE  CoreInv'
    BY <2>5, KeyChangeStep
  <2>6. ASSUME NEW i, NEW n, NEW b, RegIoctl(i, n, {b})
        PROVE  CoreInv'
    BY <2>6, IoctlStep
  <2> QED  BY <1>2, <2>1, <2>2, <2>3, <2>4, <2>5, <2>6 DEF Step
<1> QED  BY <1>1, <1>2 DEF Next

(* The invariant holds in every reachable state.                            *)
THEOREM Inductive == Spec => []CoreInv
BY InitCoreInv, CoreKeeps, PTL DEF Spec

-----------------------------------------------------------------------------
(* Keys *)

LEMMA ByteFacts ==
    /\ \A c \in 1 .. 127 : c % 128 = c /\ (c + 128) % 128 = c
    /\ \A c \in 1 .. 127 : c < 128 /\ ~(c + 128 < 128) /\ c # 0 /\ c + 128 # 0
    /\ 0 % 128 = 0 /\ 0 \notin {1, 2}
BY SMT

(* What processing one event does to the state of the keys.                 *)
LEMMA EventEffect ==
    ASSUME NEW c \in KeyCodes, NEW p \in BOOLEAN, NEW state \in [Key!Reported -> BOOLEAN]
    PROVE  /\ Key!EventByte(c, p) # 0
           /\ Key!ProcessEvent(Key!EventByte(c, p), state) \in [Key!Reported -> BOOLEAN]
           /\ \A d \in Key!Reported :
                Key!ProcessEvent(Key!EventByte(c, p), state)[d] =
                    IF d = c THEN p ELSE state[d]
<1>1. c \in 1 .. 127
  BY CoreAssumption DEF Key!KeyAssumption
<1>2. /\ Key!KeyCode(Key!EventByte(c, p)) = c
      /\ Key!EventByte(c, p) # 0
      /\ Key!Pressed(Key!EventByte(c, p)) = p
  <2>1. CASE p = TRUE
    BY <1>1, <2>1, ByteFacts DEF Key!KeyCode, Key!EventByte, Key!Pressed
  <2>2. CASE p = FALSE
    BY <1>1, <2>2, ByteFacts DEF Key!KeyCode, Key!EventByte, Key!Pressed
  <2> QED  BY <2>1, <2>2
<1> DEFINE byte == Key!EventByte(c, p)
<1> HIDE DEF byte
<1>3. Key!ProcessEvent(byte, state) =
        IF c \in Key!Reported THEN [state EXCEPT ![c] = p] ELSE state
  BY <1>2 DEF Key!ProcessEvent, byte
<1>4. byte = Key!EventByte(c, p)
  BY DEF byte
<1> QED  BY <1>2, <1>3, <1>4

LEMMA NoEffect ==
    ASSUME NEW state
    PROVE  Key!ProcessEvent(0, state) = state
BY ByteFacts DEF Key!ProcessEvent, Key!KeyCode, Key!Reported

Events == {Key!EventByte(c, p) : c \in KeyCodes, p \in BOOLEAN}

(* Processing keeps the type, and what is processed first is overwritten.   *)
LEMMA ProcessType ==
    ASSUME NEW byte \in {0} \cup Events, NEW state \in [Key!Reported -> BOOLEAN]
    PROVE  Key!ProcessEvent(byte, state) \in [Key!Reported -> BOOLEAN]
BY EventEffect, NoEffect DEF Events

KeyInv ==
    /\ key_data = <<key_data[1], key_data[2]>>
    /\ key_data[1] \in {0} \cup Events /\ key_data[2] \in {0} \cup Events
    /\ down \in [KeyCodes -> BOOLEAN]
    /\ input \in [Key!Reported -> BOOLEAN]
    /\ "dropped" \notin key_fault =>
          \A c \in KeyCodes \cap Key!Reported : Key!Report[c] = down[c]

LEMMA InitKeyInv == Init => KeyInv
<1> SUFFICES ASSUME Init  PROVE KeyInv
  OBVIOUS
<1>1. Key!Report = input
  BY NoEffect DEF Init, Key!Init, Key!Report, Key!NoEvents
<1> QED  BY <1>1 DEF Init, Key!Init, KeyInv, Key!NoEvents

(* A key changes: processing the register now ends with the new event.      *)
LEMMA ToggleStep ==
    ASSUME KeyInv, NEW c \in KeyCodes, Key!Toggle(c)
    PROVE  KeyInv'
<1> DEFINE pressed == ~down[c]
           event == Key!EventByte(c, pressed)
<1>0. pressed \in BOOLEAN
  OBVIOUS
<1> HIDE DEF pressed
<1>1. event \in Events /\ event # 0
  <2>1. event \in Events
    BY <1>0 DEF Events
  <2>2. [k \in Key!Reported |-> TRUE] \in [Key!Reported -> BOOLEAN]
    OBVIOUS
  <2>3. event # 0
    BY <1>0, <2>2, EventEffect
  <2> QED  BY <2>1, <2>3
<1>2. Key!Report \in [Key!Reported -> BOOLEAN]
  BY ProcessType DEF KeyInv, Key!Report
<1>3. \A d \in Key!Reported : Key!ProcessEvent(event, Key!Report)[d] =
                                 IF d = c THEN pressed ELSE Key!Report[d]
  BY <1>0, <1>2, EventEffect
<1> HIDE DEF event
<1>4. /\ down' = [down EXCEPT ![c] = ~@] /\ input' = input
      /\ \/ key_data = <<0, 0>> /\ key_data' \in {<<event, 0>>, <<0, event>>}
         \/ key_data[1] # 0 /\ key_data[2] = 0 /\ key_data' = <<key_data[1], event>>
         \/ key_data[1] = 0 /\ key_data[2] # 0 /\ key_data' = <<key_data[2], event>>
         \/ key_data' = key_data /\ "dropped" \in key_fault'
  BY DEF Key!Toggle, event, pressed, Key!NoEvents
<1>5. "dropped" \notin key_fault' => "dropped" \notin key_fault
  BY DEF Key!Toggle
<1>6. CASE key_data' = key_data /\ "dropped" \in key_fault'
  BY <1>4, <1>6 DEF KeyInv
<1>7. CASE ~(key_data' = key_data /\ "dropped" \in key_fault')
  <2>1. /\ key_data' = <<key_data'[1], key_data'[2]>>
        /\ key_data'[1] \in {0} \cup Events /\ key_data'[2] \in {0} \cup Events
    BY <1>1, <1>4, <1>7 DEF KeyInv
  <2>2. Key!Report' = Key!ProcessEvent(event, Key!Report)
    BY <1>4, <1>7, NoEffect DEF Key!Report
  <2>3. down' \in [KeyCodes -> BOOLEAN]
    BY <1>4 DEF KeyInv
  <2>4. \A d \in KeyCodes : down'[d] = IF d = c THEN pressed ELSE down[d]
    BY <1>4 DEF KeyInv, pressed
  <2>5. "dropped" \notin key_fault' =>
           \A d \in KeyCodes \cap Key!Reported : Key!Report'[d] = down'[d]
    BY <1>3, <1>5, <2>2, <2>4 DEF KeyInv
  <2> QED  BY <1>4, <2>1, <2>3, <2>5 DEF KeyInv
<1> QED  BY <1>6, <1>7

(* The handler hands the register's content over, keeps it or drops it.     *)
LEMMA ReportStep ==
    ASSUME KeyInv, NEW o \in Outcomes, Key!Handler(o)
    PROVE  KeyInv'
<1>1. Key!Report \in [Key!Reported -> BOOLEAN]
  BY ProcessType DEF KeyInv, Key!Report
<1>2. CASE o = "ok"
  <2>1. key_data' = <<0, 0>> /\ input' = Key!Report /\ down' = down /\ key_fault' = key_fault
    BY <1>2 DEF Key!Handler, Key!Empty, Key!NoEvents
  <2>2. Key!Report' = input'
    BY <2>1, NoEffect DEF Key!Report
  <2> QED  BY <1>1, <2>1, <2>2 DEF KeyInv
<1>3. CASE o = "lost"
  <2>1. UNCHANGED <<key_data, input, down>> /\ key_fault' = key_fault \cup {"kept"}
    BY <1>3 DEF Key!Handler
  <2>2. Key!Report' = Key!Report
    BY <2>1 DEF Key!Report
  <2> QED  BY <2>1, <2>2 DEF KeyInv
<1>4. CASE o = "applied"
  <2>1. key_data' = <<0, 0>> /\ UNCHANGED <<input, down>> /\ "dropped" \in key_fault'
    BY <1>4 DEF Key!Handler, Key!Empty, Key!NoEvents
  <2> QED  BY <2>1 DEF KeyInv
<1> QED  BY <1>2, <1>3, <1>4 DEF Outcomes

LEMMA KeysKeep == KeyInv /\ [Next]_vars => KeyInv'
<1> SUFFICES ASSUME KeyInv, [Next]_vars  PROVE KeyInv'
  OBVIOUS
<1>1. ASSUME UNCHANGED <<key_data, input, down, key_fault>>
      PROVE  KeyInv'
  <2>1. Key!Report' = Key!Report
    BY <1>1 DEF Key!Report
  <2> QED  BY <1>1, <2>1 DEF KeyInv
<1>2. ASSUME NEW c \in KeyCodes, KeyChange(c)
      PROVE  KeyInv'
  BY <1>2, ToggleStep DEF KeyChange
<1>3. ASSUME NEW o \in Outcomes, KeyHandler(o)
      PROVE  KeyInv'
  BY <1>3, ReportStep DEF KeyHandler
<1>4. ASSUME NEW i, NEW n, NEW b, RegIoctl(i, n, b)
      PROVE  KeyInv'
  <2>1. \/ UNCHANGED <<key_data, input, down, key_fault>>
        \/ key_data' = <<0, 0>> /\ "dropped" \in key_fault' /\ UNCHANGED <<input, down>>
    BY <1>4 DEF RegIoctl, RawRead, RawWrite, Key!NoEvents
  <2>2. CASE key_data' = <<0, 0>> /\ "dropped" \in key_fault' /\ UNCHANGED <<input, down>>
    BY <2>2 DEF KeyInv
  <2> QED  BY <1>1, <2>1, <2>2
<1>5. CASE \/ \E c \in Clients : Call(c) \/ Acquire(c)
           \/ Holder \/ ThreadRead \/ Dispatch \/ WakeUp
           \/ \E t \in Cmd!Tags : Finish(t)
           \/ UNCHANGED vars
  BY <1>1, <1>5 DEF Call, Acquire, Holder, ThreadRead, Dispatch, WakeUp, Finish,
     vars, keyVars
<1> QED  BY <1>2, <1>3, <1>4, <1>5 DEF Next, Step, Thread

(* With KEY_DATA empty the input layer knows every key as it is, for any    *)
(* keys, pressed and released in any order, however late the thread comes   *)
(* for them, unless a read lost events or the register overflowed.          *)
THEOREM KeysFollowAlways == Spec => []KeysFollow
<1>1. KeyInv => KeysFollow
  <2> SUFFICES ASSUME KeyInv, key_data = Key!NoEvents
               PROVE  Key!Report = input
    BY DEF KeyInv, KeysFollow, Key!KeysFollow
  <2> QED  BY NoEffect DEF Key!Report, Key!NoEvents
<1> QED  BY <1>1, InitKeyInv, KeysKeep, PTL DEF Spec

(* A key's event stays on its way, through the controller and the handler.  *)
LEMMA KeyStays ==
    ASSUME CoreInv, KeyRemembered, [Next]_vars
    PROVE  KeyRemembered'
<1> USE IrqSets DEF KeyRemembered
<1>1. ASSUME UNCHANGED irqVars, UNCHANGED keyVars, UNCHANGED meddled
      PROVE  KeyRemembered'
  BY <1>1 DEF irqVars, settledVars, chipIrqVars, threadVars, keyVars,
     Undisturbed, UnderWay, Irq!PlainPending, Irq!ErrorPending, Irq!LineActive
<1>2. CASE ThreadRead
  <2>1. UNCHANGED keyVars
    BY <1>2 DEF ThreadRead
  <2> QED  BY <1>2, <2>1, ReadMoves DEF StillUnderWay, keyVars
<1>3. CASE Dispatch
  <2>1. /\ UNCHANGED <<key_data, key_fault>> /\ ~key_read
        /\ key_read' = (/\ Irq!Dispatches(index) /\ mask_requested[index]
                        /\ index = KeyIrq)
    BY <1>3 DEF Dispatch, HandlersIdle
  <2> QED  BY <1>3, <2>1, DispatchMoves
<1>4. ASSUME NEW o \in Outcomes, KeyHandler(o)
      PROVE  KeyRemembered'
  BY <1>4 DEF KeyHandler, Key!Handler, Key!Empty, Outcomes
<1>5. ASSUME NEW c \in KeyCodes, KeyChange(c)
      PROVE  KeyRemembered'
  <2>1. KeyIrq \in Irq!Irqs /\ Irq!Raise(KeyIrq) /\ UNCHANGED meddled
    BY <1>5 DEF KeyChange
  <2> QED  BY <2>1, RaiseStep
<1>6. ASSUME NEW t \in Cmd!Tags, Finish(t)
      PROVE  KeyRemembered'
  <2>1. PICK i \in {CompleteIrq, ErrorIrq} : Irq!Raise(i)
    BY <1>6 DEF Finish
  <2>2. UNCHANGED keyVars /\ UNCHANGED meddled
    BY <1>6 DEF Finish
  <2>3. \A j \in Irq!Irqs : Undisturbed' /\ UnderWay(j) => UnderWay(j)'
    BY <2>1, <2>2, RaiseStep
  <2>4. Undisturbed' => Undisturbed
    BY <2>1, <2>2, RaiseStep
  <2> QED  BY <2>2, <2>3, <2>4 DEF keyVars
<1>7. ASSUME NEW i, NEW n, NEW b, RegIoctl(i, n, {b})
      PROVE  KeyRemembered'
  <2>1. \/ UNCHANGED <<key_data, key_fault>>
        \/ "dropped" \in key_fault'
    BY <1>7 DEF RegIoctl, RawRead, RawWrite
  <2>2. UNCHANGED key_read
    BY <1>7 DEF RegIoctl
  <2> QED  BY <1>7, <2>1, <2>2, IoctlMoves DEF StillUnderWay
<1>8. CASE \/ \E c \in Clients : Call(c) \/ Acquire(c)
           \/ Holder \/ WakeUp \/ UNCHANGED vars
  BY <1>1, <1>8 DEF Call, Acquire, Holder, WakeUp, vars
<1> QED  BY <1>2, <1>3, <1>4, <1>5, <1>6, <1>7, <1>8 DEF Next, Step, Thread

(* Nobody is forgotten: a caller that waits has its command running, or the *)
(* interrupt that ends the wait on its way (the wait of chip.c:190 has no   *)
(* timeout, so nothing else would ever end it), and a key's event is in the *)
(* register only while the interrupt that has it read is on its way.        *)
THEOREM NeverForgottenAlways == Spec => []NeverForgotten
<1>1. Init => KeyRemembered
  BY DEF Init, Key!Init, KeyRemembered
<1>2. CoreInv /\ KeyRemembered /\ [Next]_vars => KeyRemembered'
  BY KeyStays
<1>3. CoreInv => CallerRemembered
  BY DEF CoreInv
<1> QED  BY <1>1, <1>2, <1>3, Inductive, PTL DEF Spec, NeverForgotten

-----------------------------------------------------------------------------
(* The composition takes only Gencmd's steps *)

Nothing == running = {} /\ signals = {}

(* Where an interrupt can be found, and the signal that it stands for.      *)
Latched(i) == IF i = ErrorIrq THEN i \in err ELSE i \in ifg
Copied(i) ==
    IF i = ErrorIrq
    THEN i \in err_value /\ thread = "loop" /\ index <= i
    ELSE i \in ifg_value /\ thread \in {"err", "loop"} /\ index <= i
SignalOf(i) == <<IF i = ErrorIrq THEN "error" ELSE "complete", "cur">>

(* One thing is under way at a time, for the caller that waits, and the     *)
(* chip and the thread show it in one place.                                *)
OneThing ==
    /\ running \subseteq {"cur"}
    /\ signals \subseteq {SignalOf(CompleteIrq), SignalOf(ErrorIrq)}
    /\ \A s, t \in signals : s = t
    /\ running = {} \/ signals = {}
    /\ pc \notin {"wait", "asleep"} => Nothing
    /\ gencmd_state # "PENDING" => Nothing
    /\ pc \in {"data", "ctrl"} => gencmd_state = "PENDING"
    /\ gencmd_lock = NoClient => pc = "none"

OnePlace ==
    \A i \in {CompleteIrq, ErrorIrq} :
        /\ Latched(i) \/ Copied(i) => SignalOf(i) \in signals
        /\ ~(Latched(i) /\ Copied(i))

CleanInv == ~tainted => OneThing /\ OnePlace

LEMMA InitCleanInv == Init => CleanInv
BY IrqSets DEF Init, Cmd!Init, CleanInv, OneThing, OnePlace, Nothing, Latched,
   Copied

watched == <<callerVars, gencmd_state, handler, signals, running, data, outcome>>

(* A step of a caller: the interrupts stay where they are.                  *)
LEMMA CallerClean ==
    ASSUME CleanInv, NEW c, ~tainted,
           Holder \/ (c \in Clients /\ (Call(c) \/ Acquire(c)))
    PROVE  CleanInv' /\ Cmd!Next
<1>1. UNCHANGED irqVars
  BY DEF Call, Acquire, Holder
<1>2. \A i \in {CompleteIrq, ErrorIrq} : Latched(i)' = Latched(i) /\ Copied(i)' = Copied(i)
  BY <1>1 DEF Latched, Copied, irqVars, chipIrqVars, threadVars
<1>3. Cmd!Next
  BY DEF Call, Acquire, Holder, Cmd!Next
<1>4. ~tainted' => OneThing' /\ signals' = signals
  <2> USE DEF CleanInv, OneThing, Nothing
  <2>1. CASE Call(c)
    BY <2>1 DEF Call, Cmd!Call, Cmd!chipVars
  <2>2. CASE c \in Clients /\ Acquire(c)
    BY <2>2, CoreAssumption DEF Acquire, Cmd!Acquire, Cmd!chipVars
  <2>3. CASE Cmd!Start \/ Cmd!ReqFail \/ Cmd!Done \/ Cmd!Fail
    <3>1. CASE Cmd!Start
      BY <3>1 DEF Cmd!Start, Cmd!SetState, Cmd!chipVars
    <3>2. CASE Cmd!ReqFail
      BY <3>2 DEF Cmd!ReqFail, Cmd!SetState, Cmd!chipVars
    <3>3. CASE Cmd!Done
      BY <3>3 DEF Cmd!Done, Cmd!SetState, Cmd!chipVars
    <3>4. CASE Cmd!Fail
      BY <3>4 DEF Cmd!Fail, Cmd!SetState, Cmd!chipVars
    <3> QED  BY <2>3, <3>1, <3>2, <3>3, <3>4
  <2>4. ASSUME NEW o, Cmd!WriteData(o) \/ Cmd!ReadAnswer(o)
        PROVE  OneThing' /\ signals' = signals
    BY <2>4 DEF Cmd!WriteData, Cmd!ReadAnswer, Cmd!chipVars
  <2>5. ASSUME NEW o \in Outcomes, Cmd!WriteCtrl(o), ~tainted'
        PROVE  OneThing' /\ signals' = signals
    BY <2>5 DEF Cmd!WriteCtrl, Cmd!Acts, Outcomes
  <2>6. CASE Cmd!Wait
    BY <2>6 DEF Cmd!Wait, Cmd!chipVars
  <2>7. CASE Cmd!Unlock
    BY <2>7 DEF Cmd!Unlock
  <2>8. {"ok"} \cup {"lost", "applied"} = Outcomes
    BY DEF Outcomes
  <2> QED
    BY <2>1, <2>2, <2>3, <2>4, <2>5, <2>6, <2>7, <2>8 DEF Holder, Cmd!Holder
<1>5. ~tainted' => OnePlace'
  BY <1>2, <1>4 DEF CleanInv, OnePlace, SignalOf
<1> QED  BY <1>3, <1>4, <1>5 DEF CleanInv

(* A step that touches nothing Gencmd knows, and moves interrupts on.       *)
LEMMA MoveClean ==
    ASSUME CleanInv, ~tainted, UNCHANGED watched,
           \A i \in {CompleteIrq, ErrorIrq} :
              /\ Latched(i)' \/ Copied(i)' => Latched(i) \/ Copied(i)
              /\ ~(Latched(i)' /\ Copied(i)')
    PROVE  CleanInv'
<1>1. OneThing'
  BY DEF watched, callerVars, CleanInv, OneThing, Nothing
<1>2. OnePlace'
  BY DEF watched, CleanInv, OnePlace
<1> QED  BY <1>1, <1>2 DEF CleanInv

LEMMA ReadClean ==
    ASSUME CoreInv, CleanInv, ~tainted, ThreadRead
    PROVE  CleanInv' /\ UNCHANGED watched
<1> USE IrqSets
<1>1. UNCHANGED watched
  BY DEF ThreadRead, watched, cmdVars, unitVars
<1>2. thread # "loop" => index = 0 /\ err_value = {}
  BY DEF CoreInv, ThreadInv
<1> DEFINE Moved(i) == /\ Latched(i)' \/ Copied(i)' => Latched(i) \/ Copied(i)
                       /\ ~(Latched(i)' /\ Copied(i)')
<1>3. ASSUME NEW i \in {CompleteIrq, ErrorIrq}
      PROVE  ~(Latched(i) /\ Copied(i))
  BY <1>3 DEF CleanInv, OnePlace
<1>4. ASSUME Irq!ThreadStart, NEW i \in {CompleteIrq, ErrorIrq}
      PROVE  Moved(i)
  BY <1>3, <1>4 DEF Irq!ThreadStart, Latched, Copied
<1>5. ASSUME NEW o \in Outcomes, Irq!ReadIfg(o), NEW i \in {CompleteIrq, ErrorIrq}
      PROVE  Moved(i)
  BY <1>2, <1>3, <1>5 DEF Irq!ReadIfg, Irq!Return, Irq!Acts, Latched, Copied
<1>6. ASSUME NEW o \in Outcomes, Irq!ReadErr(o), NEW i \in {CompleteIrq, ErrorIrq}
      PROVE  Moved(i)
  BY <1>2, <1>3, <1>6 DEF Irq!ReadErr, Irq!Return, Irq!Acts, Latched, Copied
<1>7. \A i \in {CompleteIrq, ErrorIrq} : Moved(i)
  BY <1>4, <1>5, <1>6 DEF ThreadRead
<1> QED  BY <1>1, <1>7, MoveClean

(* The loop runs a command handler only for a signal of its kind.           *)
LEMMA DispatchClean ==
    ASSUME CoreInv, CleanInv, ~tainted, Dispatch
    PROVE  CleanInv' /\ (Cmd!Next \/ UNCHANGED watched)
<1> USE IrqSets
<1>1. /\ thread = "loop" /\ index \in {0, 1, 2} /\ handler = "idle"
      /\ UNCHANGED <<ifg, err, callerVars, unitVars, raw, faults>>
  BY DEF CoreInv, ThreadInv, Dispatch, HandlersIdle, Irq!Dispatch
<1>2. \/ /\ index < 2 /\ index' = index + 1 /\ thread' = "loop"
         /\ UNCHANGED <<ifg_value, err_value>>
      \/ index = 2 /\ index' = 0 /\ thread' = "idle" /\ ifg_value' = {} /\ err_value' = {}
  BY <1>1 DEF Dispatch, Irq!Dispatch, Irq!Return
<1>3. \A i \in {CompleteIrq, ErrorIrq} :
         /\ Latched(i)' = Latched(i)
         /\ Copied(i)' => Copied(i) /\ i # index
  BY <1>1, <1>2 DEF Latched, Copied
<1>4. /\ tainted' = tainted
      /\ UNCHANGED <<gencmd_lock, waiting, pc, wants, got, rc, result, running, data, outcome>>
  BY <1>1 DEF unitVars, callerVars
<1> DEFINE runs == Irq!Dispatches(index) /\ mask_requested[index]
<1>5. CASE runs /\ index # KeyIrq
  <2>1. index \in {CompleteIrq, ErrorIrq}
    BY <1>1, <1>5
  <2> DEFINE s == SignalOf(index)
             kind == IF index = CompleteIrq THEN "complete" ELSE "error"
  <2>2. CommandHandler(kind)
    BY <1>5 DEF Dispatch
  <2>3. CASE ~Copied(index)
    <3>1. FALSE
      BY <1>1, <1>5, <2>1, <2>3 DEF CoreInv, ThreadInv, Copied, Irq!Dispatches
    <3> QED  BY <3>1
  <2>4. CASE Copied(index)
    <3>1. signals = {s} /\ running = {} /\ ~Latched(index)
      BY <2>1, <2>4 DEF CleanInv, OneThing, OnePlace
    <3>2. s[1] = kind /\ s = <<kind, "cur">>
      BY <2>1 DEF SignalOf
    <3> HIDE DEF s, kind
    <3>3. {r \in signals : r[1] = kind} = {s}
      BY <3>1, <3>2
    <3>4. signals' = {} /\ signals' = signals \ {s} /\ handler' = "wake"
      BY <2>2, <3>1, <3>3 DEF CommandHandler
    <3>5. gencmd_state' = IF gencmd_state # "PENDING" THEN gencmd_state
                          ELSE IF s[1] = "complete" THEN "DONE" ELSE "FAILED"
      BY <2>2, <3>2 DEF CommandHandler
    <3>6. s \in Cmd!Signals /\ Cmd!Handle(s)
      <4>1. s \in Cmd!Signals
        BY <2>1, <3>2 DEF kind, Cmd!Signals, Cmd!Tags
      <4>2. UNCHANGED <<Cmd!callerVars, Cmd!boundVars>>
        BY <1>1, <1>4 DEF Cmd!callerVars, Cmd!boundVars
      <4> QED
        BY <1>1, <1>4, <3>1, <3>4, <3>5, <4>1, <4>2 DEF Cmd!Handle
    <3>7. Cmd!Next
      BY <3>6 DEF Cmd!Next, Cmd!Handler
    <3>8. \A i \in {CompleteIrq, ErrorIrq} : ~Latched(i)' /\ ~Copied(i)'
      <4>1. \A i \in {CompleteIrq, ErrorIrq} : Latched(i) \/ Copied(i) => i = index
        BY <2>1, <3>1 DEF s, CleanInv, OnePlace, SignalOf
      <4> QED  BY <1>3, <3>1, <4>1
    <3>9. OneThing'
      BY <1>4, <3>1, <3>4, <2>1, <2>2 DEF CleanInv, OneThing, Nothing,
         CommandHandler, s
    <3> QED  BY <3>7, <3>8, <3>9 DEF CleanInv, OnePlace
  <2> QED  BY <2>3, <2>4
<1>6. CASE ~(runs /\ index # KeyIrq)
  <2>1. UNCHANGED watched
    BY <1>1, <1>6 DEF Dispatch, watched, unitVars
  <2>2. \A i \in {CompleteIrq, ErrorIrq} :
           /\ Latched(i)' \/ Copied(i)' => Latched(i) \/ Copied(i)
           /\ ~(Latched(i)' /\ Copied(i)')
    BY <1>3 DEF CleanInv, OnePlace
  <2> QED  BY <1>4, <2>1, <2>2, MoveClean
<1> QED  BY <1>5, <1>6

LEMMA FinishClean ==
    ASSUME CoreInv, CleanInv, ~tainted, NEW u \in Cmd!Tags, Finish(u)
    PROVE  CleanInv' /\ Cmd!Next
<1> USE IrqSets
<1>1. u = "cur" /\ running = {"cur"} /\ signals = {}
      /\ gencmd_state = "PENDING" /\ pc \in {"wait", "asleep"}
  BY DEF Finish, CleanInv, OneThing, Nothing
<1>2. \A i \in {CompleteIrq, ErrorIrq} : ~Latched(i) /\ ~Copied(i)
  BY <1>1 DEF CleanInv, OnePlace
<1>3. PICK j \in {CompleteIrq, ErrorIrq} : Irq!Raise(j) /\ signals' = signals \cup {SignalOf(j)}
  BY <1>1 DEF Finish, SignalOf
<1>4. running' = {} /\ signals' = {SignalOf(j)} /\ UNCHANGED <<pc, gencmd_state, gencmd_lock>>
  BY <1>1, <1>3 DEF Finish, callerVars
<1>5. OneThing'
  BY <1>1, <1>4 DEF CleanInv, OneThing, Nothing
<1>6. ErrBit \notin {CompleteIrq, ErrorIrq} /\ UNCHANGED <<thread, ifg_value, err_value, index>>
  BY <1>3 DEF Irq!Raise, Irq!threadVars
<1>7. \A i \in {CompleteIrq, ErrorIrq} : (Latched(i)' => i = j) /\ ~Copied(i)'
  BY <1>2, <1>3, <1>6 DEF Irq!Raise, Latched, Copied
<1>8. OnePlace'
  BY <1>4, <1>7 DEF OnePlace
<1>9. UNCHANGED <<faults, raw, tainted, gencmd_state, handler, callerVars>>
  BY <1>3 DEF Finish, Irq!Raise
<1>10. Cmd!Finish(u)
  BY <1>1, <1>9 DEF Finish, Cmd!Finish, Cmd!callerVars, Cmd!boundVars, callerVars
<1> QED  BY <1>5, <1>8, <1>10 DEF CleanInv, Cmd!Next

LEMMA KeyClean ==
    ASSUME CoreInv, CleanInv, ~tainted, NEW k, KeyChange(k)
    PROVE  CleanInv' /\ UNCHANGED watched
<1> USE IrqSets
<1>1. UNCHANGED watched
  BY DEF KeyChange, watched, cmdVars, unitVars
<1>2. \A i \in {CompleteIrq, ErrorIrq} : Latched(i)' = Latched(i) /\ Copied(i)' = Copied(i)
  BY DEF KeyChange, Irq!Raise, Irq!threadVars, Latched, Copied
<1>3. \A i \in {CompleteIrq, ErrorIrq} : ~(Latched(i) /\ Copied(i))
  BY DEF CleanInv, OnePlace
<1> QED  BY <1>1, <1>2, <1>3, MoveClean

LEMMA HandlerClean ==
    ASSUME CleanInv, ~tainted, NEW o, WakeUp \/ KeyHandler(o)
    PROVE  CleanInv' /\ (Cmd!Next \/ UNCHANGED watched)
<1>1. \A i \in {CompleteIrq, ErrorIrq} : Latched(i)' = Latched(i) /\ Copied(i)' = Copied(i)
  BY DEF WakeUp, KeyHandler, Latched, Copied, irqVars, chipIrqVars, threadVars
<1>2. CASE WakeUp
  <2>1. Cmd!Next
    BY <1>2 DEF WakeUp, Cmd!Next, Cmd!Handler
  <2>2. OneThing' /\ signals' = signals
    BY <1>2 DEF WakeUp, Cmd!WakeUp, Cmd!chipVars, CleanInv, OneThing, Nothing
  <2>3. OnePlace'
    BY <1>1, <2>2 DEF CleanInv, OnePlace, SignalOf
  <2> QED  BY <2>1, <2>2, <2>3 DEF CleanInv
<1>3. CASE KeyHandler(o)
  <2>1. UNCHANGED watched
    BY <1>3 DEF KeyHandler, watched, cmdVars, unitVars
  <2>2. \A i \in {CompleteIrq, ErrorIrq} : ~(Latched(i) /\ Copied(i))
    BY DEF CleanInv, OnePlace
  <2> QED  BY <1>1, <2>1, <2>2, MoveClean
<1> QED  BY <1>2, <1>3

LEMMA IoctlClean ==
    ASSUME CleanInv, ~tainted, NEW ioctl, NEW reg_no, NEW bits, RegIoctl(ioctl, reg_no, bits)
    PROVE  CleanInv' /\ (Cmd!Next \/ UNCHANGED watched)
<1>1. UNCHANGED <<callerVars, gencmd_state, handler, signals, outcome, faults>>
      /\ raw < MaxRaw /\ raw' = raw + 1
  BY DEF RegIoctl
<1>2. PICK byte : RawRead(byte) \/ RawWrite(byte, bits)
  BY DEF RegIoctl
<1>3. CASE RawWrite(byte, bits) /\ R!RegNo(byte) \in {R!RegCmdCtrl, R!RegCmdData}
  <2>1. R!RegCmdCtrl # R!RegCmdData
    BY DEF R!RegCmdCtrl, R!RegCmdData
  <2>2. \/ running' = running \cup {"old"} /\ data' = data
        \/ data' = <<"input", "old">> /\ running' = running
    BY <1>3, <2>1 DEF RawWrite
  <2>3. tainted' = TRUE
    BY <1>3 DEF RawWrite
  <2>4. Cmd!RawWrite
    BY <1>1, <2>2, <2>3 DEF Cmd!RawWrite, Cmd!callerVars, callerVars
  <2> QED  BY <2>3, <2>4 DEF CleanInv, Cmd!Next
<1>4. CASE ~(RawWrite(byte, bits) /\ R!RegNo(byte) \in {R!RegCmdCtrl, R!RegCmdData})
  <2>1. UNCHANGED <<running, data>>
    BY <1>2, <1>4 DEF RawRead, RawWrite
  <2>2. UNCHANGED watched
    BY <1>1, <2>1 DEF watched
  <2>3. \A i \in {CompleteIrq, ErrorIrq} :
           (Latched(i)' => Latched(i)) /\ Copied(i)' = Copied(i) /\ ~(Latched(i) /\ Copied(i))
    BY DEF RegIoctl, RawRead, RawWrite, threadVars, Latched, Copied, CleanInv,
       OnePlace
  <2> QED  BY <2>2, <2>3, MoveClean
<1> QED  BY <1>3, <1>4

LEMMA CleanKeeps ==
    ASSUME CoreInv, CleanInv, [Next]_vars, ~tainted
    PROVE  CleanInv' /\ (Cmd!Next \/ UNCHANGED watched)
<1>1. CASE UNCHANGED vars
  <2>1. UNCHANGED watched
    BY <1>1 DEF vars, cmdVars, unitVars, watched
  <2>2. \A i \in {CompleteIrq, ErrorIrq} :
           Latched(i)' = Latched(i) /\ Copied(i)' = Copied(i) /\ ~(Latched(i) /\ Copied(i))
    BY <1>1 DEF vars, irqVars, chipIrqVars, threadVars, Latched, Copied, CleanInv,
       OnePlace
  <2> QED  BY <2>1, <2>2, MoveClean
<1>2. CASE Step
  <2>1. ASSUME NEW c \in Clients, Call(c) \/ Acquire(c)
        PROVE  CleanInv' /\ Cmd!Next
    BY <2>1, CallerClean
  <2>2. CASE Holder
    BY <2>2, CallerClean
  <2>3. CASE Thread
    BY <2>3, ReadClean, DispatchClean, HandlerClean DEF Thread
  <2>4. ASSUME NEW u \in Cmd!Tags, Finish(u)
        PROVE  CleanInv' /\ Cmd!Next
    BY <2>4, FinishClean
  <2>5. ASSUME NEW k \in KeyCodes, KeyChange(k)
        PROVE  CleanInv' /\ UNCHANGED watched
    BY <2>5, KeyClean
  <2>6. ASSUME NEW i, NEW n, NEW b, RegIoctl(i, n, {b})
        PROVE  CleanInv' /\ (Cmd!Next \/ UNCHANGED watched)
    BY <2>6, IoctlClean
  <2> QED  BY <1>2, <2>1, <2>2, <2>3, <2>4, <2>5, <2>6 DEF Step
<1> QED  BY <1>1, <1>2 DEF Next

LEMMA TaintStays == tainted /\ [Next]_vars => tainted'
<1> SUFFICES ASSUME tainted, [Next]_vars  PROVE tainted'
  OBVIOUS
<1> USE DEF unitVars, cmdVars, Cmd!chipVars, Cmd!boundVars
<1>1. ASSUME NEW c, Call(c) \/ Acquire(c)
      PROVE  tainted'
  BY <1>1 DEF Call, Cmd!Call, Acquire, Cmd!Acquire
<1>2. CASE Holder
  BY <1>2 DEF Holder, Cmd!Holder, Cmd!Start, Cmd!WriteData, Cmd!WriteCtrl,
     Cmd!ReqFail,
     Cmd!Wait, Cmd!Done, Cmd!ReadAnswer, Cmd!Fail, Cmd!Unlock
<1>3. CASE Thread
  BY <1>3 DEF Thread, ThreadRead, Dispatch, WakeUp, Cmd!WakeUp, KeyHandler
<1>4. ASSUME NEW u, Finish(u)
      PROVE  tainted'
  BY <1>4 DEF Finish
<1>5. ASSUME NEW k, KeyChange(k)
      PROVE  tainted'
  BY <1>5 DEF KeyChange
<1>6. ASSUME NEW i, NEW n, NEW b, RegIoctl(i, n, b)
      PROVE  tainted'
  BY <1>6 DEF RegIoctl, RawRead, RawWrite
<1>7. CASE UNCHANGED vars
  BY <1>7 DEF vars
<1> QED  BY <1>1, <1>2, <1>3, <1>4, <1>5, <1>6, <1>7 DEF Next, Step

(* What callers, handlers and the chip do are steps of Gencmd as long as no *)
(* command was started past the driver, for any number of callers, faults,  *)
(* keys and register ioctls; so Gencmd's own theorems are about the driver  *)
(* behind the interrupt controller, too.                                    *)
THEOREM CommandStepsAlways == Spec => CommandSteps
<1>1. CoreInv /\ CleanInv /\ [Next]_vars => CleanInv'
  <2>1. tainted /\ [Next]_vars => tainted'
    BY TaintStays
  <2> QED  BY <2>1, CleanKeeps DEF CleanInv
<1>2. CoreInv /\ CleanInv /\ [Next]_vars => [tainted \/ Cmd!Next]_watched
  BY CleanKeeps
<1>3. Spec => []CleanInv
  BY <1>1, InitCleanInv, Inductive, PTL DEF Spec
<1>4. Spec => [][tainted \/ Cmd!Next]_watched
  BY <1>2, <1>3, Inductive, PTL DEF Spec
<1> QED  BY <1>4 DEF CommandSteps, watched

-----------------------------------------------------------------------------
(* What holds of the controller and of the command channel by themselves    *)
(* holds of them here: their proofs are used as they are.                   *)

IrqP == INSTANCE IrqChipProofs WITH ErrorIrqs <- {ErrorIrq}, WakeIrqs <- {}
CmdP == INSTANCE GencmdProofs WITH FaultKinds <- {"lost", "applied"}

LEMMA PartsAssumptions == IrqP!IrqAssumption /\ CmdP!GencmdAssumption
BY IrqSets, CoreAssumption DEF IrqP!IrqAssumption, IrqP!Irqs, Irq!Irqs,
   CmdP!GencmdAssumption

Bounded == faults \in 0 .. MaxFaults /\ raw \in 0 .. MaxRaw

LEMMA BoundStep == Bounded /\ [Next]_vars => Bounded'
<1> SUFFICES ASSUME Bounded, [Next]_vars  PROVE Bounded'
  OBVIOUS
<1> USE CoreAssumption DEF Bounded
<1>1. ASSUME NEW c, Call(c) \/ Acquire(c)
      PROVE  Bounded'
  BY <1>1 DEF Call, Cmd!Call, Acquire, Cmd!Acquire, Cmd!boundVars
<1>2. CASE Holder
  BY <1>2 DEF Holder, Cmd!Holder, Cmd!Start, Cmd!WriteData, Cmd!WriteCtrl,
     Cmd!ReqFail, Cmd!Wait, Cmd!Done, Cmd!ReadAnswer, Cmd!Fail, Cmd!Unlock,
     Cmd!boundVars, Cmd!Transfer
<1>3. CASE Thread
  <2>1. CASE ThreadRead
    BY <2>1 DEF ThreadRead, cmdVars, Irq!ThreadStart, Irq!ReadIfg, Irq!ReadErr,
       Irq!Transfer
  <2>2. CASE Dispatch \/ WakeUp
    BY <2>2 DEF Dispatch, Irq!Dispatch, WakeUp, Cmd!WakeUp, Cmd!boundVars
  <2>3. ASSUME NEW o, KeyHandler(o)
        PROVE  Bounded'
    BY <2>3 DEF KeyHandler, Transfer, cmdVars
  <2> QED  BY <1>3, <2>1, <2>2, <2>3 DEF Thread
<1>4. ASSUME NEW u, Finish(u)
      PROVE  Bounded'
  BY <1>4 DEF Finish, Irq!Raise
<1>5. ASSUME NEW k, KeyChange(k)
      PROVE  Bounded'
  BY <1>5 DEF KeyChange, Irq!Raise, cmdVars
<1>6. ASSUME NEW i, NEW n, NEW b, RegIoctl(i, n, b)
      PROVE  Bounded'
  BY <1>6 DEF RegIoctl
<1>7. CASE UNCHANGED vars
  BY <1>7 DEF vars, cmdVars
<1> QED  BY <1>1, <1>2, <1>3, <1>4, <1>5, <1>6, <1>7 DEF Next, Step

LEMMA BoundedAlways == Spec => []Bounded
<1>1. Init => Bounded
  BY CoreAssumption DEF Init, Cmd!Init, Bounded
<1> QED  BY <1>1, BoundStep, PTL DEF Spec

LEMMA MeddledStays == meddled /\ [Next]_vars => meddled'
BY DEF Next, Step, Call, Acquire, Holder, Thread, ThreadRead, Dispatch, WakeUp,
   KeyHandler, Finish, KeyChange, RegIoctl, vars

(* Every step is one of the controller's, or leaves it alone, or meddles.   *)
ControllerMoves == Irq!Thread \/ \E i \in Irq!Irqs : Irq!Raise(i)

LEMMA ControllerStep ==
    ASSUME [Next]_vars, ~meddled'
    PROVE  ControllerMoves \/ UNCHANGED irqVars
<1> USE IrqSets DEF ControllerMoves
<1>1. CASE \/ \E c \in Clients : Call(c) \/ Acquire(c)
           \/ Holder \/ WakeUp \/ (\E o \in Outcomes : KeyHandler(o))
           \/ UNCHANGED vars
  BY <1>1 DEF Call, Acquire, Holder, WakeUp, KeyHandler, vars
<1>2. CASE ThreadRead \/ Dispatch
  BY <1>2 DEF ThreadRead, Dispatch, Irq!Thread, Irq!Outcomes, Outcomes
<1>3. ASSUME NEW u \in Cmd!Tags, Finish(u)
      PROVE  ControllerMoves
  BY <1>3 DEF Finish
<1>4. ASSUME NEW k \in KeyCodes, KeyChange(k)
      PROVE  ControllerMoves
  BY <1>4 DEF KeyChange
<1>5. ASSUME NEW i, NEW n, NEW b, RegIoctl(i, n, {b})
      PROVE  UNCHANGED irqVars
  <2>1. ie' = ie /\ ifg' = ifg /\ err' = err
    BY <1>5 DEF RegIoctl
  <2>2. edge' = edge
    BY <1>5, <2>1 DEF RegIoctl, Irq!LatchEdge, Irq!LineActive
  <2> QED  BY <1>5, <2>1, <2>2 DEF RegIoctl, irqVars, chipIrqVars
<1> QED  BY <1>1, <1>2, <1>3, <1>4, <1>5 DEF Next, Step, Thread

(* Until a register ioctl meddles with it, all that happens to the          *)
(* controller is what IrqChip describes, for any number of callers, keys,   *)
(* faults and harmless ioctls; so IrqChip's theorems are about it.          *)
THEOREM ControllerStepsAlways == Spec => ControllerSteps
<1>1. [Next]_vars => [meddled' \/ Irq!Next]_irqVars
  BY ControllerStep DEF ControllerMoves, Irq!Next
<1> QED  BY <1>1, PTL DEF Spec, ControllerSteps

LEMMA SameMoves == ControllerMoves => IrqP!Next
<1> USE DEF Irq!chipVars, IrqP!chipVars, Irq!maskVars, IrqP!maskVars,
        Irq!wakeVars, IrqP!wakeVars, Irq!busVars, IrqP!busVars,
        Irq!threadVars, IrqP!threadVars, Irq!histVars, IrqP!histVars,
        Irq!Irqs, IrqP!Irqs, Irq!PlainIrqs, IrqP!PlainIrqs,
        Irq!Outcomes, IrqP!Outcomes, Irq!Transfer, IrqP!Transfer,
        Irq!Acts, IrqP!Acts, Irq!LineActive, IrqP!LineActive,
        Irq!LatchEdge, IrqP!LatchEdge, Irq!Return, IrqP!Return
<1>1. Irq!ThreadStart => IrqP!ThreadStart
  BY DEF Irq!ThreadStart, IrqP!ThreadStart
<1>2. \A o \in Irq!Outcomes : Irq!ReadIfg(o) => IrqP!ReadIfg(o)
  BY DEF Irq!ReadIfg, IrqP!ReadIfg
<1>3. \A o \in Irq!Outcomes : Irq!ReadErr(o) => IrqP!ReadErr(o)
  BY DEF Irq!ReadErr, IrqP!ReadErr
<1>4. Irq!Dispatch => IrqP!Dispatch
  BY DEF Irq!Dispatch, IrqP!Dispatch, Irq!Dispatches, IrqP!Dispatches
<1>5. \A i \in Irq!Irqs : Irq!Raise(i) => IrqP!Raise(i)
  BY DEF Irq!Raise, IrqP!Raise
<1> QED
  BY <1>1, <1>2, <1>3, <1>4, <1>5
     DEF ControllerMoves, Irq!Thread, IrqP!Next, IrqP!Thread

LEMMA ControllerQuiet ==
    ASSUME IrqP!IInv, UNCHANGED irqVars, faults' \in 0 .. MaxFaults
    PROVE  IrqP!IInv'
<1> USE DEF irqVars, settledVars, chipIrqVars, threadVars
<1>1. IrqP!TypeOK'
  BY DEF IrqP!IInv, IrqP!TypeOK
<1>2. IrqP!BusInv' /\ IrqP!IeInv' /\ IrqP!StaleInv' /\ IrqP!WakeInv'
  BY DEF IrqP!IInv, IrqP!BusInv, IrqP!IeInv, IrqP!StaleInv, IrqP!WakeInv
<1>3. IrqP!LineInv'
  BY DEF IrqP!IInv, IrqP!LineInv, IrqP!LineNeverStuck, IrqP!LineActive
<1>4. IrqP!OwedInv'
  BY DEF IrqP!IInv, IrqP!OwedInv, IrqP!PlainPending, IrqP!ErrorPending
<1> QED  BY <1>1, <1>2, <1>3, <1>4 DEF IrqP!IInv

LEMMA InitController == Init => IrqP!IInv
<1> SUFFICES ASSUME Init  PROVE IrqP!IInv
  OBVIOUS
<1> USE IrqSets DEF Init, IrqP!Irqs, Irq!Irqs, IrqP!PlainIrqs, Irq!PlainIrqs,
        IrqP!IfgBits, Irq!IfgBits
<1>1. IrqP!TypeOK
  <2>1. faults \in 0 .. MaxFaults
    BY CoreAssumption DEF Cmd!Init
  <2>2. /\ mask_requested \in [IrqP!Irqs -> BOOLEAN]
        /\ mask_current \in [IrqP!Irqs -> BOOLEAN]
        /\ wake_on \in [IrqP!Irqs -> BOOLEAN]
    BY DEF Irq!NoMask
  <2>3. phase \in IrqP!Phases /\ step \in IrqP!Steps
    BY DEF IrqP!Phases, IrqP!Steps
  <2>4. /\ ie \subseteq IrqP!IfgBits
        /\ wake_count \in Int /\ parent_wake \in Int
        /\ owner = NoIrq /\ thread = "idle"
        /\ enable_mask = {} /\ disable_mask = {} /\ ifg_value = {}
        /\ err_value = {} /\ ifg = {} /\ err = {} /\ dirty = {}
        /\ read_fault = {} /\ owed = {} /\ stale = IrqP!NoneStale
    BY DEF IrqP!NoneStale, Irq!NoneStale
  <2>5. index \in IrqP!Irqs
    <3>1. IrqP!Irqs = {0, 1, 2}
      <4> HIDE DEF Init
      <4> QED  OBVIOUS
    <3> QED  BY <3>1
  <2>6. irq_requested \in BOOLEAN /\ edge \in BOOLEAN
    OBVIOUS
  <2> HIDE DEF Init, IrqP!Irqs, IrqP!PlainIrqs, IrqP!IfgBits
  <2> QED
    BY <2>1, <2>2, <2>3, <2>4, <2>5, <2>6 DEF IrqP!TypeOK, IrqP!NoneStale
<1>2. IrqP!BusInv /\ IrqP!IeInv /\ IrqP!StaleInv
  BY DEF IrqP!BusInv, IrqP!IeInv, IrqP!StaleInv, IrqP!Running, Irq!NoneStale
<1>3. IrqP!LineInv /\ IrqP!OwedInv
  BY DEF IrqP!LineInv, IrqP!LineNeverStuck, IrqP!LineActive, IrqP!OwedInv
<1>4. IrqP!WakeInv
  <2>1. {i \in IrqP!Irqs : wake_on[i]} = {}
    BY DEF Irq!NoMask
  <2>2. wake_count = 0 /\ parent_wake = 0
    OBVIOUS
  <2> QED
    <3>1. IrqP!Cardinality({}) = 0
      <4> HIDE DEF Init
      <4> QED
        BY PartsAssumptions, IrqP!FS_EmptySet DEF IrqP!IrqAssumption
    <3>2. parent_wake + wake_count = 0
      BY <2>2
    <3> HIDE DEF Init
    <3> QED  BY <2>1, <2>2, <3>1, <3>2 DEF IrqP!WakeInv
<1> QED  BY <1>1, <1>2, <1>3, <1>4 DEF IrqP!IInv

ControllerInv == ~meddled => IrqP!IInv

LEMMA ControllerAlways == Spec => []ControllerInv
<1>1. Init => ControllerInv
  BY InitController DEF ControllerInv
<1>2. ControllerInv /\ Bounded' /\ [Next]_vars => ControllerInv'
  <2> SUFFICES ASSUME ControllerInv, Bounded', [Next]_vars, ~meddled'
               PROVE  IrqP!IInv'
    BY DEF ControllerInv
  <2>1. IrqP!IInv
    <3>1. ~meddled
      BY MeddledStays
    <3> QED  BY <3>1 DEF ControllerInv
  <2>2. CASE ControllerMoves
    <3>1. IrqP!Next
      BY <2>2, SameMoves
    <3> QED
      BY <2>1, <3>1, PartsAssumptions, IrqP!TypeStep, IrqP!BusStep, IrqP!IeStep,
         IrqP!LineStep, IrqP!OwedStep, IrqP!StaleStep, IrqP!WakeStep
         DEF IrqP!IInv
  <2>3. CASE UNCHANGED irqVars
    BY <2>1, <2>3, ControllerQuiet DEF Bounded
  <2> QED  BY <2>2, <2>3, ControllerStep
<1> QED  BY <1>1, <1>2, BoundedAlways, PTL DEF Spec

(* The line is never stuck, no event of an enabled interrupt is lost and IE *)
(* says what the drivers asked for, with the handlers running in the loop.  *)
THEOREM ControllerKeptAlways == Spec => []ControllerKept
<1>1. ControllerInv => ControllerKept
  <2> SUFFICES ASSUME IrqP!IInv
               PROVE  Irq!LineNeverStuck /\ Irq!NoLostEvent /\ Irq!IeMatchesMasks
    BY DEF ControllerInv, ControllerKept
  <2> USE DEF Irq!Irqs, IrqP!Irqs, Irq!PlainIrqs, IrqP!PlainIrqs,
          Irq!LineActive, IrqP!LineActive
  <2>1. Irq!LineNeverStuck
    BY DEF IrqP!IInv, IrqP!LineInv, IrqP!LineNeverStuck, Irq!LineNeverStuck
  <2>2. Irq!IeMatchesMasks
    BY DEF IrqP!IInv, IrqP!BusInv, IrqP!IeInv, Irq!IeMatchesMasks
  <2>3. Irq!NoLostEvent
    <3> SUFFICES ASSUME thread = "idle", ~edge, read_fault = {}, NEW i \in owed
                 PROVE  FALSE
      BY DEF Irq!NoLostEvent
    <3>1. i \in IrqP!Irqs /\ phase = "up" /\ ErrBit \in ie
      BY DEF IrqP!IInv, IrqP!TypeOK, IrqP!OwedInv, IrqP!IeInv
    <3>2. IrqP!LineActive(ie, ifg)
      BY <3>1 DEF IrqP!IInv, IrqP!OwedInv, IrqP!PlainPending, IrqP!ErrorPending
    <3> QED
      BY <3>1, <3>2 DEF IrqP!IInv, IrqP!LineInv, IrqP!LineNeverStuck
  <2> QED  BY <2>1, <2>2, <2>3
<1> QED  BY <1>1, ControllerAlways, PTL

-----------------------------------------------------------------------------
(* The command channel behind the controller *)

LEMMA SameCommands == Cmd!Next => CmdP!Next
<1> USE DEF Cmd!callerVars, CmdP!callerVars, Cmd!chipVars, CmdP!chipVars,
        Cmd!boundVars, CmdP!boundVars, Cmd!Transfer, CmdP!Transfer,
        Cmd!Acts, CmdP!Acts, Cmd!SetState, CmdP!SetState
<1>1. ASSUME NEW c \in Clients, Cmd!Call(c) \/ Cmd!Acquire(c) \/ Cmd!Interrupted(c)
      PROVE  CmdP!Call(c) \/ CmdP!Acquire(c) \/ CmdP!Interrupted(c)
  BY <1>1 DEF Cmd!Call, CmdP!Call, Cmd!Acquire, CmdP!Acquire, Cmd!Interrupted,
     CmdP!Interrupted
<1>2. CASE Cmd!Holder
  <2>1. CASE Cmd!Start \/ Cmd!ReqFail \/ Cmd!Done \/ Cmd!Fail
    BY <2>1 DEF Cmd!Start, CmdP!Start, Cmd!ReqFail, CmdP!ReqFail, Cmd!Done,
       CmdP!Done, Cmd!Fail, CmdP!Fail, CmdP!Next, CmdP!Holder
  <2>2. ASSUME NEW o \in {"ok"} \cup {"lost", "applied"},
               Cmd!WriteData(o) \/ Cmd!WriteCtrl(o) \/ Cmd!ReadAnswer(o)
        PROVE  CmdP!WriteData(o) \/ CmdP!WriteCtrl(o) \/ CmdP!ReadAnswer(o)
    BY <2>2 DEF Cmd!WriteData, CmdP!WriteData, Cmd!WriteCtrl, CmdP!WriteCtrl,
       Cmd!ReadAnswer, CmdP!ReadAnswer
  <2>3. CASE Cmd!Wait \/ Cmd!Unlock
    BY <2>3 DEF Cmd!Wait, CmdP!Wait, Cmd!Unlock, CmdP!Unlock, CmdP!Next,
       CmdP!Holder
  <2> QED
    BY <1>2, <2>1, <2>2, <2>3 DEF Cmd!Holder, CmdP!Holder, CmdP!Next
<1>3. CASE Cmd!Handler
  BY <1>3 DEF Cmd!Handler, CmdP!Handler, Cmd!Signals, CmdP!Signals, Cmd!Tags,
     CmdP!Tags, Cmd!WakeUp, CmdP!WakeUp, Cmd!Handle, CmdP!Handle, CmdP!Next
<1>4. ASSUME NEW u \in Cmd!Tags, Cmd!Finish(u)
      PROVE  CmdP!Next
  BY <1>4 DEF Cmd!Tags, CmdP!Tags, Cmd!Finish, CmdP!Finish, CmdP!Next
<1>5. CASE Cmd!RawWrite
  BY <1>5 DEF Cmd!RawWrite, CmdP!RawWrite, CmdP!Next
<1> QED  BY <1>1, <1>2, <1>3, <1>4, <1>5 DEF Cmd!Next, CmdP!Next

LEMMA CommandQuiet ==
    ASSUME CmdP!IInv, UNCHANGED watched, tainted' = tainted, Bounded'
    PROVE  CmdP!IInv'
<1> USE DEF watched, callerVars
<1>1. CmdP!TypeOK'
  BY DEF CmdP!IInv, CmdP!TypeOK, Bounded
<1>2. CmdP!LockInv' /\ CmdP!StateInv' /\ CmdP!TaintInv'
  BY DEF CmdP!IInv, CmdP!LockInv, CmdP!StateInv, CmdP!TaintInv
<1>3. CmdP!NoLostWakeup' /\ CmdP!AwaitInv'
  BY DEF CmdP!IInv, CmdP!NoLostWakeup, CmdP!AwaitInv, CmdP!EndInSight
<1>4. CmdP!CleanInv'
  BY DEF CmdP!IInv, CmdP!CleanInv, CmdP!Executing, CmdP!Signalled,
     CmdP!Answered, CmdP!Nothing
<1> QED  BY <1>1, <1>2, <1>3, <1>4 DEF CmdP!IInv

CommandInv == ~tainted => CmdP!IInv

LEMMA CommandAlways == Spec => [](CleanInv /\ CommandInv)
<1>1. Init => CommandInv
  <2>1. Cmd!Init => CmdP!Init
    BY DEF Cmd!Init, CmdP!Init
  <2>2. CmdP!Init => CmdP!IInv
    BY CmdP!InitIInv, PartsAssumptions DEF CmdP!GencmdAssumption
  <2> QED  BY <2>1, <2>2 DEF Init, CommandInv
<1>2. CoreInv /\ CleanInv /\ CommandInv /\ Bounded' /\ [Next]_vars => CommandInv'
  <2> SUFFICES ASSUME CoreInv, CleanInv, CommandInv, Bounded', [Next]_vars, ~tainted'
               PROVE  CmdP!IInv'
    BY DEF CommandInv
  <2>1. ~tainted /\ CmdP!IInv
    BY TaintStays DEF CommandInv
  <2>2. CASE Cmd!Next
    <3>1. [CmdP!Next]_(CmdP!vars)
      BY <2>2, SameCommands
    <3> QED
      BY <2>1, <3>1, PartsAssumptions, CmdP!TypeStep, CmdP!StateStep,
         CmdP!AwaitStep, CmdP!CleanStep DEF CmdP!IInv, CmdP!GencmdAssumption
  <2>3. CASE UNCHANGED watched
    <3>1. tainted = FALSE /\ tainted' = FALSE
      BY <2>1
    <3> QED  BY <2>1, <2>3, <3>1, CommandQuiet
  <2> QED  BY <2>1, <2>2, <2>3, CleanKeeps
<1>3. CoreInv /\ CleanInv /\ [Next]_vars => CleanInv'
  BY CleanKeeps, TaintStays DEF CleanInv
<1> QED  BY <1>1, <1>2, <1>3, InitCleanInv, Inductive, BoundedAlways, PTL DEF Spec

(* A caller behind the controller gets its own answer, the chip is never    *)
(* given a command while it executes another one, a free channel is IDLE    *)
(* and no sleeping caller misses its wake-up, as long as no command was     *)
(* started past the driver.                                                 *)
THEOREM CommandKeptAlways == Spec => []CommandKept
<1>1. CommandInv => CommandKept
  <2>1. CASE tainted
    BY <2>1 DEF CommandKept, Cmd!OwnAnswer, Cmd!OneCommand, Cmd!FreeMeansIdle
  <2>2. ASSUME CmdP!IInv, ~tainted
        PROVE  CommandKept
    <3>1. Cmd!OwnAnswer /\ Cmd!FreeMeansIdle
      BY <2>2 DEF CmdP!IInv, CmdP!CleanInv, CmdP!LockInv, Cmd!OwnAnswer,
         Cmd!FreeMeansIdle
    <3>2. Cmd!NoLostWakeup
      BY <2>2 DEF CmdP!IInv, CmdP!NoLostWakeup, CmdP!EndInSight,
         Cmd!NoLostWakeup, Cmd!EndInSight
    <3>3. Cmd!OneCommand
      <4>1. \/ CmdP!Nothing \/ CmdP!Executing \/ CmdP!Signalled
        BY <2>2 DEF CmdP!IInv, CmdP!TypeOK, CmdP!CleanInv, CmdP!Answered
      <4> QED
        BY <4>1 DEF Cmd!OneCommand, CmdP!Nothing, CmdP!Executing, CmdP!Signalled
    <3> QED  BY <3>1, <3>2, <3>3 DEF CommandKept
  <2> QED  BY <2>1, <2>2 DEF CommandInv
<1> QED  BY <1>1, CommandAlways, PTL

(* And what the callers see is the abstract channel, with the controller,   *)
(* the keys and register ioctls in between.                                 *)
THEOREM ChannelStepsAlways == Spec => ChannelSteps
<1>1. ASSUME CoreInv, CleanInv, CommandInv, [Next]_vars, ~tainted
      PROVE  [Cmd!Channel!Next]_(Cmd!Channel!vars)
  <2>1. CASE UNCHANGED watched
    BY <2>1 DEF watched, callerVars, Cmd!Channel!vars
  <2>2. CASE Cmd!Next
    <3>1. CmdP!IInv /\ [CmdP!Next]_(CmdP!vars)
      BY <1>1, <2>2, SameCommands DEF CommandInv
    <3>2. [CmdP!Channel!Next]_(CmdP!Channel!vars)
      BY <1>1, <3>1, PartsAssumptions, CmdP!ChannelStep DEF CmdP!GencmdAssumption
    <3> QED
      BY <3>2 DEF Cmd!Channel!Next, CmdP!Channel!Next, Cmd!Channel!vars,
         CmdP!Channel!vars, Cmd!Channel!Ask, CmdP!Channel!Ask,
         Cmd!Channel!GiveUp, CmdP!Channel!GiveUp, Cmd!Channel!Serve,
         CmdP!Channel!Serve, Cmd!Channel!Execute, CmdP!Channel!Execute,
         Cmd!Channel!Reply, CmdP!Channel!Reply, Cmd!Channel!Replies,
         CmdP!Channel!Replies
  <2> QED  BY <1>1, <2>1, <2>2, CleanKeeps
<1>2. CoreInv /\ CleanInv /\ CommandInv /\ [Next]_vars
        => [tainted \/ Cmd!Channel!Next]_(Cmd!Channel!vars)
  BY <1>1
<1> QED
  BY <1>2, CommandAlways, Inductive, PTL DEF Spec, ChannelSteps, Cmd!ChannelSteps

-----------------------------------------------------------------------------
(* Coming to rest *)

(* A caller that sleeps on with its command ended is about to be woken up.  *)
WakeUpInv == pc = "asleep" /\ gencmd_state # "PENDING" => handler = "wake"

LEMMA WakeUpStep == WakeUpInv /\ [Next]_vars => WakeUpInv'
<1> SUFFICES ASSUME WakeUpInv, [Next]_vars  PROVE WakeUpInv'
  OBVIOUS
<1> USE DEF WakeUpInv, callerVars
<1>1. ASSUME NEW c, Call(c) \/ Acquire(c)
      PROVE  WakeUpInv'
  BY <1>1 DEF Call, Cmd!Call, Acquire, Cmd!Acquire
<1>2. CASE Holder
  BY <1>2 DEF Holder, Cmd!Holder, Cmd!Start, Cmd!WriteData, Cmd!WriteCtrl,
     Cmd!ReqFail, Cmd!Wait, Cmd!Done, Cmd!ReadAnswer, Cmd!Fail, Cmd!Unlock,
     Cmd!SetState
<1>3. CASE Dispatch
  BY <1>3 DEF Dispatch, CommandHandler
<1>4. CASE WakeUp
  BY <1>4 DEF WakeUp, Cmd!WakeUp
<1>5. ASSUME UNCHANGED <<pc, gencmd_state, handler>>
      PROVE  WakeUpInv'
  BY <1>5
<1>6. ASSUME \/ ThreadRead \/ (\E o \in Outcomes : KeyHandler(o))
             \/ (\E u \in Cmd!Tags : Finish(u)) \/ (\E k \in KeyCodes : KeyChange(k))
             \/ (\E i, n, b : RegIoctl(i, n, b)) \/ UNCHANGED vars
      PROVE  UNCHANGED <<pc, gencmd_state, handler>>
  BY <1>6 DEF ThreadRead, KeyHandler, Finish, KeyChange, RegIoctl, vars, cmdVars
<1> QED  BY <1>1, <1>2, <1>3, <1>4, <1>5, <1>6 DEF Next, Step, Thread

(* The system never rests on something unfinished: when the chip is done    *)
(* and the thread sleeps, no caller waits, no handler is owed an interrupt  *)
(* and every key is known.                                                  *)
THEOREM AtRestAlways == Spec => []AtRest
<1>1. Init => WakeUpInv
  BY DEF Init, Cmd!Init, WakeUpInv
<1>2. CoreInv /\ WakeUpInv /\ NeverForgotten /\ KeysFollow /\ ControllerKept => AtRest
  <2> SUFFICES ASSUME CoreInv, WakeUpInv, NeverForgotten, KeysFollow, ControllerKept,
                      Resting, Undisturbed
               PROVE  /\ ~(pc \in {"wait", "asleep"} /\ gencmd_state = "PENDING")
                      /\ pc # "asleep"
                      /\ owed = {}
                      /\ key_fault = {} =>
                            \A c \in KeyCodes \cap Key!Reported : input[c] = down[c]
    BY DEF AtRest
  <2>1. \A i \in Irq!Irqs : ~UnderWay(i)
    BY IrqSets DEF Resting, CoreInv, LineInv, Undisturbed, UnderWay,
       Irq!PlainPending, Irq!ErrorPending, Irq!LineActive
  <2>2. ~(pc \in {"wait", "asleep"} /\ gencmd_state = "PENDING")
    BY <2>1, IrqSets DEF NeverForgotten, CallerRemembered, Resting
  <2>3. pc # "asleep"
    BY <2>2 DEF WakeUpInv, Resting
  <2>4. owed = {}
    BY DEF ControllerKept, Irq!NoLostEvent, Resting, Undisturbed
  <2>5. ASSUME key_fault = {}
        PROVE  \A c \in KeyCodes \cap Key!Reported : input[c] = down[c]
    <3>1. key_data = Key!NoEvents
      BY <2>1, <2>5, IrqSets DEF NeverForgotten, KeyRemembered, Resting
    <3> QED  BY <2>5, <3>1 DEF KeysFollow, Key!KeysFollow
  <2> QED  BY <2>2, <2>3, <2>4, <2>5
<1> QED
  BY <1>1, <1>2, WakeUpStep, Inductive, NeverForgottenAlways, KeysFollowAlways,
     ControllerKeptAlways, PTL DEF Spec

(* What the rank counts with, whatever ran past the driver.                 *)
HoldInv ==
    /\ gencmd_lock = NoClient => pc = "none"
    /\ running \subseteq {"cur", "old"}

LEMMA HoldStep == HoldInv /\ [Next]_vars => HoldInv'
<1> SUFFICES ASSUME HoldInv, [Next]_vars  PROVE HoldInv'
  OBVIOUS
<1> USE CoreAssumption DEF HoldInv, callerVars, unitVars, Cmd!chipVars
<1>1. ASSUME NEW c \in Clients, Call(c) \/ Acquire(c)
      PROVE  HoldInv'
  BY <1>1 DEF Call, Cmd!Call, Acquire, Cmd!Acquire
<1>2. CASE Holder
  BY <1>2 DEF Holder, Cmd!Holder, Cmd!Start, Cmd!WriteData, Cmd!WriteCtrl,
     Cmd!ReqFail, Cmd!Wait, Cmd!Done, Cmd!ReadAnswer, Cmd!Fail, Cmd!Unlock,
     Cmd!SetState
<1>3. CASE Dispatch
  BY <1>3 DEF Dispatch
<1>4. CASE WakeUp
  BY <1>4 DEF WakeUp, Cmd!WakeUp
<1>5. ASSUME NEW u, Finish(u)
      PROVE  HoldInv'
  BY <1>5 DEF Finish
<1>6. ASSUME NEW i, NEW n, NEW b, RegIoctl(i, n, b)
      PROVE  HoldInv'
  BY <1>6 DEF RegIoctl, RawRead, RawWrite
<1>7. CASE \/ ThreadRead \/ (\E o \in Outcomes : KeyHandler(o))
           \/ (\E k \in KeyCodes : KeyChange(k)) \/ UNCHANGED vars
  BY <1>7 DEF ThreadRead, KeyHandler, KeyChange, vars, cmdVars
<1> QED  BY <1>1, <1>2, <1>3, <1>4, <1>5, <1>6, <1>7 DEF Next, Step, Thread

(* The parts of the rank a step leaves alone.                               *)
LEMMA ThreadAlone ==
    ASSUME UNCHANGED irqVars
    PROVE  StepsOfThread' = StepsOfThread /\ edge' = edge
BY DEF StepsOfThread, irqVars, chipIrqVars, threadVars, IrqCount

LEMMA StepsTypes ==
    ASSUME CoreInv
    PROVE  /\ StepsOfHolder \in Nat /\ StepsOfThread \in Nat
           /\ \A b : Count(b) \in {0, 1}
BY IrqSets DEF CoreInv, ThreadInv, StepsOfHolder, StepsOfThread, Count

LEMMA StepsRunDown ==
    ASSUME CoreInv, HoldInv, [Next]_vars
    PROVE  \/ StepsLeft' < StepsLeft
           \/ /\ StepsLeft' = StepsLeft
              /\ UNCHANGED <<irqVars, pc, gencmd_state, handler, signals, unitVars,
                             keyVars>>
           \/ pc = "none" /\ StepsLeft' = StepsLeft + 21
           \/ keys_changed' = keys_changed + 1 /\ StepsLeft' <= StepsLeft + 12
           \/ raw' = raw + 1 /\ StepsLeft' <= StepsLeft + 13
<1> DEFINE Less == StepsLeft' < StepsLeft
           Same == /\ StepsLeft' = StepsLeft
                   /\ UNCHANGED <<irqVars, pc, gencmd_state, handler, signals,
                                  unitVars, keyVars>>
           Taken == pc = "none" /\ StepsLeft' = StepsLeft + 21
           Changed == keys_changed' = keys_changed + 1 /\ StepsLeft' <= StepsLeft + 12
           Written == raw' = raw + 1 /\ StepsLeft' <= StepsLeft + 13
<1> SUFFICES Less \/ Same \/ Taken \/ Changed \/ Written
  OBVIOUS
<1> USE IrqSets DEF StepsLeft, Count
<1>0. /\ StepsOfHolder \in Nat /\ StepsOfThread \in Nat
      /\ index \in {0, 1, 2}
  BY StepsTypes DEF CoreInv, ThreadInv
<1>1. ASSUME NEW c \in Clients, Call(c)
      PROVE  Same
  <2>1. UNCHANGED <<irqVars, pc, gencmd_state, handler, signals, unitVars, keyVars>>
    BY <1>1 DEF Call, Cmd!Call, Cmd!chipVars, Cmd!boundVars, unitVars
  <2>2. StepsOfHolder' = StepsOfHolder
    BY <2>1 DEF StepsOfHolder
  <2> QED  BY <2>1, <2>2, ThreadAlone DEF unitVars, keyVars
<1>2. ASSUME NEW c \in Clients, Acquire(c)
      PROVE  Taken
  <2>1. StepsOfThread' = StepsOfThread /\ edge' = edge
    BY <1>2, ThreadAlone DEF Acquire
  <2> QED
    BY <1>0, <1>2, <2>1 DEF Acquire, Cmd!Acquire, Cmd!chipVars, HoldInv, keyVars,
       StepsOfHolder
<1>3. ASSUME Holder
      PROVE  Less
  <2>1. /\ StepsOfThread' = StepsOfThread /\ edge' = edge
        /\ key_read' = key_read
    BY <1>3, ThreadAlone DEF Holder, keyVars
  <2> USE DEF StepsOfHolder, Cmd!chipVars
  <2>2. ASSUME Cmd!Start \/ Cmd!ReqFail \/ Cmd!Wait \/ Cmd!Done \/ Cmd!Fail
        PROVE  Less
    BY <1>0, <2>1, <2>2 DEF Cmd!Start, Cmd!ReqFail, Cmd!Wait, Cmd!Done, Cmd!Fail,
       Cmd!SetState
  <2>3. ASSUME NEW o, Cmd!WriteData(o) \/ Cmd!ReadAnswer(o)
        PROVE  Less
    BY <1>0, <2>1, <2>3 DEF Cmd!WriteData, Cmd!ReadAnswer
  <2>4. ASSUME NEW o, Cmd!WriteCtrl(o)
        PROVE  Less
    BY <1>0, <2>1, <2>4 DEF Cmd!WriteCtrl
  <2>5. ASSUME Cmd!Unlock
        PROVE  Less
    <3>1. "cur" \notin running' /\ ("old" \in running' => running # {})
      BY <2>5 DEF Cmd!Unlock
    <3>2. running # {} => "cur" \in running \/ "old" \in running
      BY DEF HoldInv
    <3>3. pc = "unlock" /\ pc' = "none" /\ handler' = handler
      BY <2>5 DEF Cmd!Unlock
    <3> QED  BY <1>0, <2>1, <3>1, <3>2, <3>3
  <2> HIDE DEF Less
  <2> QED
    BY <1>3, <2>2, <2>3, <2>4, <2>5 DEF Holder, Cmd!Holder
<1>4. ASSUME ThreadRead
      PROVE  Less
  <2>1. StepsOfHolder' = StepsOfHolder /\ UNCHANGED <<running, handler, key_read>>
    BY <1>4 DEF ThreadRead, cmdVars, callerVars, unitVars, keyVars, StepsOfHolder
  <2>2. ASSUME Irq!ThreadStart
        PROVE  Less
    BY <1>0, <2>1, <2>2 DEF Irq!ThreadStart, StepsOfThread
  <2>3. ASSUME NEW o, Irq!ReadIfg(o)
        PROVE  Less
    <3>1. edge' = edge
      BY <2>3 DEF Irq!ReadIfg, Irq!LatchEdge, Irq!LineActive
    <3> QED
      BY <1>0, <2>1, <2>3, <3>1 DEF Irq!ReadIfg, Irq!Return, StepsOfThread, CoreInv,
         ThreadInv
  <2>4. ASSUME NEW o, Irq!ReadErr(o)
        PROVE  Less
    BY <1>0, <2>1, <2>4 DEF Irq!ReadErr, Irq!Return, StepsOfThread, CoreInv,
       ThreadInv
  <2> QED  BY <1>4, <2>2, <2>3, <2>4 DEF ThreadRead
<1>5. ASSUME Dispatch
      PROVE  Less
  <2>1. /\ StepsOfHolder' = StepsOfHolder /\ UNCHANGED <<running, edge>>
        /\ handler = "idle" /\ ~key_read
    BY <1>5 DEF Dispatch, HandlersIdle, Irq!Dispatch, callerVars, unitVars,
       StepsOfHolder
  <2>2. ~(handler' = "wake" /\ key_read')
    BY <1>5 DEF Dispatch, HandlersIdle, CommandHandler
  <2>3. StepsOfThread' = StepsOfThread - 3
    BY <1>0, <1>5 DEF Dispatch, Irq!Dispatch, Irq!Return, StepsOfThread
  <2> QED  BY <1>0, <2>1, <2>2, <2>3
<1>6. ASSUME WakeUp
      PROVE  Less
  <2>1. /\ StepsOfThread' = StepsOfThread /\ edge' = edge
        /\ key_read' = key_read /\ running' = running
    BY <1>6, ThreadAlone DEF WakeUp, Cmd!WakeUp, Cmd!chipVars, keyVars
  <2> QED  BY <1>0, <1>6, <2>1 DEF WakeUp, Cmd!WakeUp, StepsOfHolder
<1>7. ASSUME NEW o, KeyHandler(o)
      PROVE  Less
  <2>1. StepsOfThread' = StepsOfThread /\ edge' = edge
    BY <1>7, ThreadAlone DEF KeyHandler
  <2>2. StepsOfHolder' = StepsOfHolder /\ UNCHANGED <<running, handler>>
    BY <1>7 DEF KeyHandler, cmdVars, callerVars, unitVars, StepsOfHolder
  <2>3. key_read /\ ~key_read'
    BY <1>7 DEF KeyHandler, Key!Handler
  <2> QED  BY <1>0, <2>1, <2>2, <2>3
<1>8. ASSUME NEW u \in Cmd!Tags, Finish(u)
      PROVE  Less
  <2>1. PICK i : Irq!Raise(i)
    BY <1>8 DEF Finish
  <2>2. StepsOfThread' = StepsOfThread
    BY <2>1 DEF Irq!Raise, Irq!threadVars, StepsOfThread
  <2>3. StepsOfHolder' = StepsOfHolder /\ UNCHANGED <<handler, key_read>>
    BY <1>8 DEF Finish, callerVars, keyVars, StepsOfHolder
  <2>4. u \in {"cur", "old"} /\ u \in running /\ running' = running \ {u}
    BY <1>8 DEF Finish, Cmd!Tags
  <2> QED  BY <1>0, <2>2, <2>3, <2>4
<1>9. ASSUME NEW k \in KeyCodes, KeyChange(k)
      PROVE  Changed
  <2>1. StepsOfThread' = StepsOfThread
    BY <1>9 DEF KeyChange, Irq!Raise, Irq!threadVars, StepsOfThread
  <2>2. StepsOfHolder' = StepsOfHolder /\ UNCHANGED <<running, handler, key_read>>
    BY <1>9 DEF KeyChange, Key!Toggle, cmdVars, callerVars, unitVars, StepsOfHolder
  <2>3. keys_changed' = keys_changed + 1
    BY <1>9 DEF KeyChange
  <2> QED  BY <1>0, <2>1, <2>2, <2>3
<1>10. ASSUME NEW i, NEW n, NEW b, RegIoctl(i, n, b)
       PROVE  Written
  <2>1. StepsOfThread' = StepsOfThread
    BY <1>10 DEF RegIoctl, threadVars, StepsOfThread
  <2>2. StepsOfHolder' = StepsOfHolder /\ UNCHANGED <<handler, key_read>>
    BY <1>10 DEF RegIoctl, callerVars, StepsOfHolder
  <2>3. raw' = raw + 1
    BY <1>10 DEF RegIoctl
  <2>4. \/ running' = running
        \/ running' = running \cup {"old"} /\ ie' = ie /\ ifg' = ifg
    BY <1>10 DEF RegIoctl, RawRead, RawWrite, R!RegCmdCtrl, R!RegIE
  <2>5. ie' = ie /\ ifg' = ifg => edge' = edge
    BY <1>10 DEF RegIoctl, Irq!LatchEdge, Irq!LineActive
  <2> QED  BY <1>0, <2>1, <2>2, <2>3, <2>4, <2>5
<1>11. ASSUME UNCHANGED vars
       PROVE  Same
  <2>1. StepsOfHolder' = StepsOfHolder
    BY <1>11 DEF vars, cmdVars, callerVars, StepsOfHolder
  <2>2. StepsOfThread' = StepsOfThread /\ edge' = edge
    BY <1>11, ThreadAlone DEF vars
  <2> QED
    BY <1>11, <2>1, <2>2 DEF vars, cmdVars, callerVars, unitVars, keyVars
<1> HIDE DEF Less, Same, Taken, Changed, Written
<1> QED
  BY <1>1, <1>2, <1>3, <1>4, <1>5, <1>6, <1>7, <1>8, <1>9, <1>10, <1>11
     DEF Next, Step, Thread

(* The drivers come to rest when callers, keys and register ioctls pause,   *)
(* whatever fails and however the interrupts coalesce.                      *)
THEOREM RunsDownAlways == Spec => RunsDown
<1>1. Init => HoldInv
  BY DEF Init, Cmd!Init, HoldInv
<1>2. Spec => []HoldInv
  BY <1>1, HoldStep, PTL DEF Spec
<1>3. CoreInv /\ HoldInv /\ [Next]_vars =>
        [\/ StepsLeft' < StepsLeft
         \/ /\ StepsLeft' = StepsLeft
            /\ UNCHANGED <<irqVars, pc, gencmd_state, handler, signals, unitVars,
                           keyVars>>
         \/ pc = "none" /\ StepsLeft' = StepsLeft + 21
         \/ keys_changed' = keys_changed + 1 /\ StepsLeft' <= StepsLeft + 12
         \/ raw' = raw + 1 /\ StepsLeft' <= StepsLeft + 13]_vars
  BY StepsRunDown
<1> QED  BY <1>2, <1>3, Inductive, PTL DEF Spec, RunsDown

=============================================================================

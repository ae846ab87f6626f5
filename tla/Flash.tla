-------------------------------- MODULE Flash --------------------------------
(***************************************************************************)
(* The flash and mode ioctls of the character device, chr/leicaefi-chr-     *)
(* flash.c, with the register ioctls of chr-reg.c that write past them.     *)
(*                                                                         *)
(* Every ioctl runs under op_lock.  Reading sets an address register and    *)
(* reads a data register; writing, erasing, checking and switching the mode *)
(* start an operation of the chip and sleep until one of two interrupt      *)
(* handlers moves op_state on from PENDING.  Only the holder is inside the  *)
(* lock, so one program counter serves for all callers.                     *)
(*                                                                         *)
(* The chip is external: it executes what the holder started, or says that  *)
(* it could not, and raises an interrupt that is delivered some time later. *)
(* Operations and interrupts are tagged "cur" when they belong to the lock  *)
(* holder's request and "old" when they do not.  An address stands for a    *)
(* word that is a segment of its own.                                       *)
(***************************************************************************)
EXTENDS Integers, FiniteSets

CONSTANTS
    Clients,            \* processes with the character device open
    NoClient,           \* nobody holds op_lock
    Addresses,          \* flash addresses (the information flash has as many)
    Firmware, Loader,   \* the two modes, and the two flash partitions
    NoArg,              \* the argument of a request that has none
    FaultKinds,         \* how transfers fail: before ("lost") or after the
                        \* chip acted on them ("applied")
    MaxFaults,          \* bound on failing I2C transfers
    MaxRaw              \* bound on register writes past this code

ASSUME FlashAssumption ==
    /\ NoClient \notin Clients
    /\ Firmware # Loader
    /\ FaultKinds \subseteq {"lost", "applied"}
    /\ MaxFaults \in Nat /\ MaxRaw \in Nat

VARIABLES
    op_lock,        \* the caller holding the mutex
    op_state,       \* the atomic state word
    waiting,        \* callers in mutex_lock_interruptible
    pc,             \* the holder's progress through its request
    op,             \* the holder's request
    rc,             \* its return value
    got,            \* the value copied back to its caller
    handler,        \* progress of the interrupt handlers (one thread)
    signals,        \* raised interrupts not yet delivered
    running,        \* operations the chip executes
    addr_reg,       \* FLASH_ADDR and IFLASH_ADDR
    store,          \* content of the flash memory
    mode,           \* mode bit of MOD_ID
    wren,           \* WREN bit of FLASH_CTRL
    faults, raw,    \* how often the bounded events happened
    outcome,        \* history: what the chip made of the holder's operation
    tainted         \* history: the chip was given work nobody waits for, or
                    \* a register was written past this code

callerVars == <<op_lock, waiting, pc, op, rc, got>>
regVars    == <<addr_reg, wren>>
memVars    == <<store, mode>>
unitVars   == <<signals, running, outcome>>
boundVars  == <<faults, raw, tainted>>
vars == <<callerVars, op_state, handler, regVars, memVars, unitVars, boundVars>>

Modes  == {Firmware, Loader}
Tags   == {"cur", "old"}
States == {"IDLE", "PENDING", "DONE", "FAILED"}
Other(m) == IF m = Firmware THEN Loader ELSE Firmware

(* The ioctls by what they do: the two read ioctls, flash write and erase,  *)
(* check_checksum, set_mode, get_mode, write_enable on and off, and one for *)
(* every call refused because of its mode or information flash register.    *)
Requests ==
    [kind : {"read", "iread", "write", "erase"}, arg : Addresses]
    \cup [kind : {"check", "set_mode"}, arg : Modes]
    \cup [kind : {"get_mode", "enable", "disable", "invalid"}, arg : {NoArg}]

NoRequest == [kind |-> "none", arg |-> NoArg]

(* What the chip can be started on.                                         *)
Jobs == [kind : {"write", "erase"}, arg : Addresses]
        \cup [kind : {"check", "set_mode"}, arg : Modes]

Bank == IF op.kind = "iread" THEN "iflash" ELSE "flash"

TypeOK ==
    /\ op_lock \in Clients \cup {NoClient}
    /\ op_state \in States
    /\ waiting \subseteq Clients
    /\ pc \in {"none", "start", "mode", "begin", "addr", "go", "wren", "read",
               "reqfail", "wait", "asleep", "done", "fail", "unlock"}
    /\ op \in Requests \cup {NoRequest}
    /\ rc \in {"none", "ok", "EIO", "EINVAL", "EBADMODE", "EOPFAIL",
               "EFLASHACCESS", "EINTERNAL"}
    /\ got \in {"none", "blank", "data", "intact", "broken"} \cup Modes
               \cup Addresses
    /\ handler \in {"idle", "wake"}
    /\ signals \subseteq {"complete", "error"} \X Tags
    /\ running \subseteq Jobs \X Tags
    /\ addr_reg \in [{"flash", "iflash"} -> Addresses]
    /\ store \in [Addresses -> {"blank", "data"}]
    /\ mode \in Modes
    /\ wren \in BOOLEAN
    /\ faults \in 0 .. MaxFaults
    /\ raw \in 0 .. MaxRaw
    /\ outcome \in {"none", "ok", "fail"}
    /\ tainted \in BOOLEAN

-----------------------------------------------------------------------------
(* I2C transfers, the state word and the lock *)

Outcomes == {"ok"} \cup FaultKinds

Transfer(o) ==
    /\ o \in Outcomes
    /\ IF o = "ok" THEN faults' = faults
                   ELSE faults < MaxFaults /\ faults' = faults + 1
    /\ raw' = raw

Acts(o) == o # "lost"

Return(code, value) == pc' = "unlock" /\ rc' = code /\ got' = value
Goto(next)          == pc' = next /\ UNCHANGED <<rc, got>>

(* leicaefi_chr_flash_set_op_state, and the return when it finds another    *)
(* state than it expects.                                                   *)
Exchange(expected, next) == op_state = expected /\ op_state' = next
Unexpected(expected) ==
    /\ op_state # expected
    /\ op_state' = op_state
    /\ Return("EINTERNAL", "none")

(* The ioctl copies its argument and waits in mutex_lock_interruptible ...  *)
Call(c) ==
    /\ c \notin waiting /\ op_lock # c
    /\ waiting' = waiting \cup {c}
    /\ UNCHANGED <<op_lock, pc, op, rc, got, op_state, handler, regVars,
                   memVars, unitVars, boundVars>>

(* ... for the lock ...                                                     *)
Acquire(c) ==
    /\ op_lock = NoClient /\ c \in waiting
    /\ op_lock' = c
    /\ waiting' = waiting \ {c}
    /\ op' \in Requests
    /\ pc' = "start"
    /\ UNCHANGED <<rc, got, op_state, handler, regVars, memVars, unitVars,
                   boundVars>>

(* ... or a signal, while the lock is contended.                            *)
Interrupted(c) ==
    /\ op_lock # NoClient /\ c \in waiting
    /\ waiting' = waiting \ {c}
    /\ UNCHANGED <<op_lock, pc, op, rc, got, op_state, handler, regVars,
                   memVars, unitVars, boundVars>>

(* The lock is released.  What the chip still does for the request is old   *)
(* from now on.                                                             *)
Unlock ==
    /\ pc = "unlock"
    /\ op_lock' = NoClient /\ op' = NoRequest
    /\ pc' = "none" /\ rc' = "none" /\ got' = "none"
    /\ signals' = {<<s[1], "old">> : s \in signals}
    /\ running' = {<<j[1], "old">> : j \in running}
    /\ outcome' = "none"
    /\ UNCHANGED <<waiting, op_state, handler, regVars, memVars, boundVars>>

-----------------------------------------------------------------------------
(* The steps of the requests *)

holderKeeps == <<op_lock, waiting, op, handler>>

(* Where a request starts; an invalid mode or register number is refused.   *)
Start ==
    /\ pc = "start"
    /\ CASE op.kind = "invalid" -> Return("EINVAL", "none")
         [] op.kind \in {"read", "iread"} -> Goto("addr")
         [] op.kind \in {"write", "erase"} -> Goto("begin")
         [] op.kind \in {"enable", "disable"} -> Goto("wren")
         [] OTHER -> Goto("mode")
    /\ UNCHANGED <<holderKeeps, op_state, regVars, memVars, unitVars, boundVars>>

(* Faulty variant: a checksum is checked in any mode.                       *)
ReadModeAnyMode(o) ==
    /\ pc = "mode"
    /\ Transfer(o)
    /\ CASE o # "ok" -> Return("EIO", "none")
         [] o = "ok" /\ op.kind = "get_mode" -> Return("ok", mode)
         [] o = "ok" /\ op.kind = "set_mode" /\ mode = op.arg ->
               Return("ok", "none")
         [] OTHER -> Goto("begin")
    /\ UNCHANGED <<holderKeeps, op_state, regVars, memVars, unitVars, tainted>>

(* Reading MOD_ID: get_mode returns it, set_mode has nothing to do when the *)
(* mode is the requested one, and only the partition the chip does not run  *)
(* from can be checked.                                                     *)
ReadMode(o) ==
    /\ pc = "mode"
    /\ Transfer(o)
    /\ CASE o # "ok" -> Return("EIO", "none")
         [] o = "ok" /\ op.kind = "get_mode" -> Return("ok", mode)
         [] o = "ok" /\ op.kind = "set_mode" /\ mode = op.arg ->
               Return("ok", "none")
         [] o = "ok" /\ op.kind = "check" /\ mode = op.arg ->
               Return("EBADMODE", "none")
         [] OTHER -> Goto("begin")
    /\ UNCHANGED <<holderKeeps, op_state, regVars, memVars, unitVars, tainted>>

Begin ==
    /\ pc = "begin"
    /\ \/ /\ Exchange("IDLE", "PENDING")
          /\ Goto(IF op.kind \in {"write", "erase"} THEN "addr" ELSE "go")
       \/ Unexpected("IDLE")
    /\ UNCHANGED <<holderKeeps, regVars, memVars, unitVars, boundVars>>

(* Faulty variant: a failed write of the address register is ignored.       *)
WriteAddrUnchecked(o) ==
    /\ pc = "addr"
    /\ Transfer(o)
    /\ addr_reg' = IF Acts(o) THEN [addr_reg EXCEPT ![Bank] = op.arg]
                              ELSE addr_reg
    /\ Goto(IF op.kind \in {"read", "iread"} THEN "read" ELSE "go")
    /\ UNCHANGED <<holderKeeps, op_state, wren, memVars, unitVars, tainted>>

(* Writing FLASH_ADDR or IFLASH_ADDR.                                       *)
WriteAddr(o) ==
    /\ pc = "addr"
    /\ Transfer(o)
    /\ addr_reg' = IF Acts(o) THEN [addr_reg EXCEPT ![Bank] = op.arg]
                              ELSE addr_reg
    /\ IF op.kind \in {"read", "iread"}
       THEN IF o = "ok" THEN Goto("read") ELSE Return("EIO", "none")
       ELSE Goto(IF o = "ok" THEN "go" ELSE "reqfail")
    /\ UNCHANGED <<holderKeeps, op_state, wren, memVars, unitVars, tainted>>

(* Reading FLASH_DATA or IFLASH_DATA: the word at the address register.     *)
ReadData(o) ==
    /\ pc = "read"
    /\ Transfer(o)
    /\ IF o = "ok"
       THEN Return("ok", IF op.kind = "read" THEN store[addr_reg["flash"]]
                                             ELSE addr_reg["iflash"])
       ELSE Return("EIO", "none")
    /\ UNCHANGED <<holderKeeps, op_state, regVars, memVars, unitVars, tainted>>

(* leicaefi_chr_flash_request_write_enable                                  *)
SetWren(o) ==
    /\ pc = "wren"
    /\ Transfer(o)
    /\ wren' = IF Acts(o) THEN op.kind = "enable" ELSE wren
    /\ Return(IF o = "ok" THEN "ok" ELSE "EIO", "none")
    /\ UNCHANGED <<holderKeeps, op_state, addr_reg, memVars, unitVars, tainted>>

(* What a write of FLASH_DATA or of ESEC, FWCHK, LDRCHK, SWITCH starts.     *)
Job == IF op.kind \in {"write", "erase"}
       THEN [kind |-> op.kind, arg |-> addr_reg["flash"]]
       ELSE [kind |-> op.kind, arg |-> op.arg]

(* The write that starts the chip, even when the driver is then told that   *)
(* it failed.                                                               *)
Go(o) ==
    /\ pc = "go"
    /\ Transfer(o)
    /\ running' = IF Acts(o) THEN running \cup {<<Job, "cur">>} ELSE running
    /\ tainted' = IF o = "applied" THEN TRUE ELSE tainted
    /\ Goto(IF o = "ok" THEN "wait" ELSE "reqfail")
    /\ UNCHANGED <<holderKeeps, op_state, regVars, memVars, signals, outcome>>

(* Faulty variant: a request that could not be written leaves PENDING.      *)
ReqFailKeepsPending ==
    /\ pc = "reqfail"
    /\ op_state' = op_state /\ Return("EIO", "none")
    /\ UNCHANGED <<holderKeeps, regVars, memVars, unitVars, boundVars>>

ReqFail ==
    /\ pc = "reqfail"
    /\ \/ Exchange("PENDING", "IDLE") /\ Return("EIO", "none")
       \/ Unexpected("PENDING")
    /\ UNCHANGED <<holderKeeps, regVars, memVars, unitVars, boundVars>>

(* Faulty variant: the sleep ends without the chip's answer.                *)
WaitTimesOut ==
    /\ pc = "wait"
    /\ \/ /\ op_state = "PENDING" /\ op_state' = "IDLE"
          /\ Return("EOPFAIL", "none")
       \/ /\ Goto(CASE op_state = "PENDING" -> "asleep"
                    [] op_state = "FAILED"  -> "fail"
                    [] OTHER                -> "done")
          /\ op_state' = op_state
    /\ UNCHANGED <<holderKeeps, regVars, memVars, unitVars, boundVars>>

(* wait_event: enqueue and test the condition; no wake-up can fall between. *)
(* Only the holder changes a state other than PENDING, so the value it      *)
(* loads afterwards is the one that ended the wait, and never IDLE.         *)
Wait ==
    /\ pc = "wait"
    /\ Goto(CASE op_state = "PENDING" -> "asleep"
              [] op_state = "FAILED"  -> "fail"
              [] OTHER                -> "done")
    /\ UNCHANGED <<holderKeeps, op_state, regVars, memVars, unitVars, boundVars>>

Done ==
    /\ pc = "done"
    /\ \/ /\ Exchange("DONE", "IDLE")
          /\ Return("ok", IF op.kind = "check" THEN "intact" ELSE "none")
       \/ Unexpected("DONE")
    /\ UNCHANGED <<holderKeeps, regVars, memVars, unitVars, boundVars>>

(* A failed check is a successful call.                                     *)
Fail ==
    /\ pc = "fail"
    /\ \/ /\ Exchange("FAILED", "IDLE")
          /\ CASE op.kind = "check"    -> Return("ok", "broken")
               [] op.kind = "set_mode" -> Return("EOPFAIL", "none")
               [] OTHER                -> Return("EFLASHACCESS", "none")
       \/ Unexpected("FAILED")
    /\ UNCHANGED <<holderKeeps, regVars, memVars, unitVars, boundVars>>

Holder ==
    \/ Start
    \/ \E o \in Outcomes : ReadMode(o) \/ WriteAddr(o) \/ ReadData(o)
    \/ \E o \in Outcomes : SetWren(o) \/ Go(o)
    \/ Begin
    \/ ReqFail
    \/ Wait
    \/ Done
    \/ Fail
    \/ Unlock

-----------------------------------------------------------------------------
(* The interrupt handlers, both run by the chip's interrupt thread *)

Woken == pc' = IF pc = "asleep" THEN "wait" ELSE pc

(* Faulty variant: nobody is woken.                                         *)
HandleSilently(s) ==
    /\ handler = "idle" /\ s \in signals
    /\ signals' = signals \ {s}
    /\ op_state' = IF op_state # "PENDING" THEN op_state
                   ELSE IF s[1] = "complete" THEN "DONE" ELSE "FAILED"
    /\ UNCHANGED <<callerVars, handler, regVars, memVars, running, outcome,
                   boundVars>>

(* leicaefi_chr_handle_flash_complete_irq, .._flash_error_irq: the result   *)
(* of the compare and exchange is not looked at ...                         *)
Handle(s) ==
    /\ handler = "idle" /\ s \in signals
    /\ signals' = signals \ {s}
    /\ op_state' = IF op_state # "PENDING" THEN op_state
                   ELSE IF s[1] = "complete" THEN "DONE" ELSE "FAILED"
    /\ handler' = "wake"
    /\ UNCHANGED <<callerVars, regVars, memVars, running, outcome, boundVars>>

(* ... and whoever sleeps is woken.                                         *)
WakeUp ==
    /\ handler = "wake"
    /\ handler' = "idle"
    /\ Woken
    /\ UNCHANGED <<op_lock, waiting, op, rc, got, op_state, regVars, memVars,
                   unitVars, boundVars>>

Handler == WakeUp \/ \E s \in {"complete", "error"} \X Tags : Handle(s)

-----------------------------------------------------------------------------
(* The chip, and register writes that bypass this code *)

Effect(job) ==
    CASE job.kind = "write" ->
            store' = [store EXCEPT ![job.arg] = "data"] /\ mode' = mode
      [] job.kind = "erase" ->
            store' = [store EXCEPT ![job.arg] = "blank"] /\ mode' = mode
      [] job.kind = "set_mode" -> mode' = Other(mode) /\ store' = store
      [] OTHER -> UNCHANGED memVars

Finish(j) ==
    /\ j \in running
    /\ running' = running \ {j}
    /\ \/ /\ Effect(j[1])
          /\ signals' = signals \cup {<<"complete", j[2]>>}
          /\ outcome' = IF j[2] = "cur" THEN "ok" ELSE outcome
       \/ /\ UNCHANGED memVars
          /\ signals' = signals \cup {<<"error", j[2]>>}
          /\ outcome' = IF j[2] = "cur" THEN "fail" ELSE outcome
    /\ UNCHANGED <<callerVars, op_state, handler, regVars, boundVars>>

Chip == \E j \in Jobs \X Tags : Finish(j)

(* leicaefi_chr_ioctl_write, .._write_raw, .._bits_set and .._bits_clear on *)
(* the flash registers: no lock is taken.                                   *)
RawWrite ==
    /\ raw < MaxRaw /\ raw' = raw + 1
    /\ tainted' = TRUE
    /\ \/ /\ \E b \in {"flash", "iflash"}, a \in Addresses :
                addr_reg' = [addr_reg EXCEPT ![b] = a]
          /\ UNCHANGED <<wren, running>>
       \/ wren' \in BOOLEAN /\ UNCHANGED <<addr_reg, running>>
       \/ /\ \E job \in Jobs : running' = running \cup {<<job, "old">>}
          /\ UNCHANGED <<addr_reg, wren>>
    /\ UNCHANGED <<callerVars, op_state, handler, memVars, signals, outcome,
                   faults>>

-----------------------------------------------------------------------------
(* leicaefi_chr_flash_init, with any content of the chip.                   *)
Init ==
    /\ op_lock = NoClient /\ op_state = "IDLE" /\ waiting = {}
    /\ pc = "none" /\ op = NoRequest /\ rc = "none" /\ got = "none"
    /\ handler = "idle" /\ signals = {} /\ running = {}
    /\ addr_reg \in [{"flash", "iflash"} -> Addresses]
    /\ store \in [Addresses -> {"blank", "data"}]
    /\ mode \in Modes
    /\ wren \in BOOLEAN
    /\ faults = 0 /\ raw = 0 /\ outcome = "none" /\ tainted = FALSE

Next ==
    \/ \E c \in Clients : Call(c) \/ Acquire(c) \/ Interrupted(c)
    \/ Holder
    \/ Handler
    \/ Chip
    \/ RawWrite

Spec == Init /\ [][Next]_vars

(* The holder and the interrupt thread are kernel threads that block only   *)
(* on I2C; the chip finishes what it started; a mutex that is released is   *)
(* handed to its waiters in turn.                                           *)
FairSpec ==
    /\ Spec
    /\ WF_vars(Holder) /\ WF_vars(Handler)
    /\ \A j \in Jobs \X Tags : WF_vars(Finish(j))
    /\ \A c \in Clients : SF_vars(Acquire(c))

-----------------------------------------------------------------------------
(* Properties *)

(* While nobody holds the lock the state word is IDLE, whichever of the     *)
(* four operations ended and however (chr-flash.c repeats the handshake for *)
(* each); otherwise every later operation would be refused.                 *)
UnlockedIsIdle == op_lock = NoClient /\ ~tainted => op_state = "IDLE"

(* Not even a register write past this code, or an operation started by a   *)
(* transfer that was reported failed, leaves an unlocked device PENDING.    *)
NeverLeftPending == op_lock = NoClient => op_state # "PENDING"

(* A holder that sleeps has the end of its own operation in sight, whatever *)
(* earlier ones still cause, or its wake-up is still to be made: the sleep  *)
(* has no timeout and no signal (chr-flash.c:225, wait_event, and its likes).*)
EndInSight ==
    (\E j \in running : j[2] = "cur") \/ (\E s \in signals : s[2] = "cur")

NoLostWakeup ==
    pc = "asleep" => handler = "wake" \/ (op_state = "PENDING" /\ EndInSight)

(* A checksum is only ever checked of the partition the chip does not run   *)
(* from, from the start of the check to its end (chr-flash.c:187: "only     *)
(* 'opposite' partition could be checked").  The mode is read in a transfer *)
(* of its own, before the check is started.                                 *)
OppositeChecked ==
    ~tainted => \A j \in running : j[1].kind = "check" => mode # j[1].arg

(* A request is answered by what the chip made of it: a success of write    *)
(* and erase is in the memory at the address the caller named, a success of *)
(* set_mode is the running mode, a checksum verdict is the chip's.          *)
AnswerIsTrue ==
    pc = "unlock" /\ ~tainted =>
        /\ rc = "ok" /\ op.kind = "write" => store[op.arg] = "data"
        /\ rc = "ok" /\ op.kind = "erase" => store[op.arg] = "blank"
        /\ rc = "ok" /\ op.kind = "read"  => got = store[op.arg]
        /\ rc = "ok" /\ op.kind = "set_mode" => mode = op.arg
        /\ rc = "ok" /\ op.kind = "get_mode" => got = mode
        /\ rc = "ok" /\ op.kind = "check" =>
              <<outcome, got>> \in {<<"ok", "intact">>, <<"fail", "broken">>}
        /\ rc # "EINTERNAL"

(* Every ioctl returns, for a chip that finishes every operation it was     *)
(* started on and an interrupt controller that delivers every event.        *)
IoctlReturns ==
    \A c \in Clients : c \in waiting ~> c \notin waiting /\ op_lock # c

Device == INSTANCE FlashDevice WITH
    asking <- waiting, served <- op_lock, request <- op, done <- outcome,
    answer <- IF pc = "unlock" THEN <<rc, got>> ELSE <<"none", "none">>

(* Callers see the abstract device, as long as a transfer that is reported  *)
(* failed had no effect on the chip.                                        *)
DeviceSpec == Device!Spec

(* With any faults and register writes, what callers see is a step of the   *)
(* abstract device as long as the chip was given no work nobody waits for:  *)
(* of all ambiguous transfers only the one that starts the chip does harm.  *)
DeviceSteps == [][tainted' \/ Device!Next]_(Device!vars)

-----------------------------------------------------------------------------
(* The inductive invariant behind the safety properties *)

Reads    == {"read", "iread"}
Accesses == {"write", "erase"}
Switches == {"check", "set_mode"}
Started  == {"go", "reqfail", "wait", "asleep", "done", "fail"}

(* The address register is written before the state word is taken by reads, *)
(* after it by write and erase.                                             *)
Pending ==
    \/ pc \in {"go", "reqfail", "wait", "asleep"}
    \/ pc = "addr" /\ op.kind \in Accesses

LockInv ==
    /\ op_lock = NoClient <=> pc = "none"
    /\ op_lock \notin waiting
    /\ pc = "none" => op = NoRequest
    /\ pc # "none" => op \in Requests
    /\ pc = "mode" => op.kind \in Switches \cup {"get_mode"}
    /\ pc = "addr" => op.kind \in Reads \cup Accesses
    /\ pc = "read" => op.kind \in Reads
    /\ pc = "wren" => op.kind \in {"enable", "disable"}
    /\ pc \in Started \cup {"begin"} => op.kind \in Accesses \cup Switches

(* The state word at each step of the holder, whatever arrives late.        *)
StateInv ==
    /\ IF Pending THEN op_state # "IDLE"
                  ELSE pc \in {"done", "fail"} \/ op_state # "PENDING"
    /\ pc = "done" => op_state = "DONE"
    /\ pc = "fail" => op_state = "FAILED"

(* Whatever earlier operations still cause, the end of the holder's comes.  *)
AwaitInv == pc \in {"wait", "asleep"} /\ op_state = "PENDING" => EndInSight

(* The address register is the caller's word when it is used, and what is   *)
(* checked or switched to is not what the chip runs from.                   *)
AddrInv ==
    /\ pc = "read" => addr_reg[Bank] = op.arg
    /\ pc = "go" /\ op.kind \in Accesses => addr_reg["flash"] = op.arg

(* The one thing that is under way on behalf of the request.                *)
Nothing == running = {} /\ signals = {}

Fresh == outcome = "none" /\ (op.kind \in Switches => mode # op.arg)

Executing ==
    /\ op_state = "PENDING" /\ Fresh /\ signals = {}
    /\ running = {<<[kind |-> op.kind, arg |-> op.arg], "cur">>}

Executed ==
    /\ outcome = "ok"
    /\ op.kind = "write"    => store[op.arg] = "data"
    /\ op.kind = "erase"    => store[op.arg] = "blank"
    /\ op.kind = "set_mode" => mode = op.arg

Signalled ==
    /\ op_state = "PENDING" /\ running = {}
    /\ \/ signals = {<<"complete", "cur">>} /\ Executed
       \/ signals = {<<"error", "cur">>} /\ outcome = "fail"

Answered ==
    /\ Nothing
    /\ \/ op_state = "DONE" /\ Executed
       \/ op_state = "FAILED" /\ outcome = "fail"

CleanInv ==
    ~tainted =>
        /\ ~Pending /\ pc \notin {"done", "fail"} => Nothing /\ op_state = "IDLE"
        /\ ~Pending /\ pc \notin {"done", "fail", "unlock"} => outcome = "none"
        /\ Pending /\ pc \notin {"wait", "asleep"} =>
              Nothing /\ op_state = "PENDING" /\ outcome = "none"
        /\ pc \in {"begin", "go"} => Fresh
        /\ pc \in {"wait", "asleep"} => Executing \/ Signalled \/ Answered
        /\ pc \in {"done", "fail"} => Answered
        /\ pc = "unlock" => AnswerIsTrue
        /\ AddrInv

ReplyInv == pc = "unlock" <=> rc # "none"

TaintInv == MaxRaw = 0 /\ "applied" \notin FaultKinds => ~tainted

IInv ==
    /\ TypeOK /\ LockInv /\ StateInv /\ NoLostWakeup /\ AwaitInv
    /\ CleanInv /\ ReplyInv /\ TaintInv /\ IsFiniteSet(running)

-----------------------------------------------------------------------------
(* Progress and the end of it *)

(* What is left to do for the holder: its own steps, and for each operation *)
(* that runs and each interrupt that is raised the steps they still cause.  *)
Count(b) == IF b THEN 1 ELSE 0

StepsOfHolder ==
    CASE pc = "none"   -> 0
      [] pc = "start"  -> 16
      [] pc = "mode"   -> 15
      [] pc = "begin"  -> 14
      [] pc = "addr"   -> 13
      [] pc = "go"     -> 12
      [] pc = "wait"   -> 7
      [] pc = "asleep" -> 6
      [] pc = "unlock" -> 3
      [] OTHER         -> 5

StepsLeft ==
    StepsOfHolder
      + 4 * Cardinality(running)
      + 3 * (Count(<<"complete", "cur">> \in signals)
             + Count(<<"complete", "old">> \in signals)
             + Count(<<"error", "cur">> \in signals)
             + Count(<<"error", "old">> \in signals))
      + 2 * Count(handler = "wake")

(* Each of the eight ioctls runs down: a step of the holder, of a handler   *)
(* or of the chip leaves less to do, waiting callers change nothing, and    *)
(* only taking the lock and a register write add a bounded amount.  So no   *)
(* error path of the four handshakes goes back to an earlier step.          *)
RunsDown ==
    [][\/ StepsLeft' < StepsLeft
       \/ StepsLeft' = StepsLeft /\ UNCHANGED <<pc, op_state, running, signals>>
       \/ pc = "none" /\ StepsLeft' = StepsLeft + 16
       \/ raw' = raw + 1 /\ StepsLeft' <= StepsLeft + 4]_vars

(* A state word that was left DONE or FAILED by an interrupt of an          *)
(* operation nobody waited for stays so: write, erase, checksum and mode    *)
(* switch are refused from then on (chr-flash.c:83-88), for nothing in the  *)
(* driver resets it.                                                        *)
Refusing ==
    /\ op_state \in {"DONE", "FAILED"}
    /\ ~Pending /\ pc \notin {"done", "fail"}

RefusesForGood == [](Refusing => []Refusing)
=============================================================================

------------------------------- MODULE Gencmd -------------------------------
(***************************************************************************)
(* Generic commands of the EFI chip, core/leicaefi-chip.c.                  *)
(*                                                                         *)
(* Callers (battery, charger and power drivers, ioctls of the character     *)
(* device) serialise on gencmd_lock.  The holder writes CMD_DATA and        *)
(* CMD_CTRL and sleeps until one of the two interrupt handlers moves        *)
(* gencmd_state on from PENDING.  Only the holder leaves the lock's scope,  *)
(* so one program counter serves for all callers.                           *)
(*                                                                         *)
(* The chip's command unit is external: it executes what CMD_CTRL starts,   *)
(* leaves the answer in CMD_DATA and raises the completion or the error     *)
(* interrupt, delivered some time later.  Executions, signals and register  *)
(* contents are tagged "cur" when they belong to the request of the lock's  *)
(* holder and "old" when they do not.                                       *)
(***************************************************************************)
EXTENDS Integers, FiniteSets

CONSTANTS
    Clients,        \* callers of leicaefi_chip_gencmd
    NoClient,       \* nobody holds gencmd_lock
    FaultKinds,     \* how transfers fail: before ("lost") or after the chip
                    \* acted on them ("applied")
    MaxFaults,      \* bound on failing I2C transfers
    MaxRaw          \* bound on register writes past this driver (chr-reg.c)

ASSUME GencmdAssumption ==
    /\ NoClient \notin Clients
    /\ FaultKinds \subseteq {"lost", "applied"}
    /\ MaxFaults \in Nat /\ MaxRaw \in Nat

VARIABLES
    gencmd_lock,    \* the caller holding the mutex
    gencmd_state,   \* the atomic state word
    waiting,        \* callers in mutex_lock_interruptible
    pc,             \* the holder's progress through leicaefi_chip_gencmd
    wants,          \* the holder passed an output_data_ptr
    got,            \* what the holder read from CMD_DATA
    rc,             \* the holder's return value
    result,         \* what each caller was last told
    handler,        \* progress of the interrupt handlers (one thread)
    signals,        \* raised interrupts not yet delivered
    running,        \* commands the chip executes
    data,           \* content of CMD_DATA
    faults, raw,    \* how often the bounded events happened
    outcome,        \* history: what the chip made of the holder's command
    tainted         \* history: the chip started a command nobody waits for

callerVars == <<gencmd_lock, waiting, pc, wants, got, rc, result>>
chipVars   == <<signals, running, data, outcome>>
boundVars  == <<faults, raw, tainted>>
vars == <<callerVars, gencmd_state, handler, chipVars, boundVars>>

Tags == {"cur", "old"}
States == {"IDLE", "PENDING", "DONE", "FAILED"}
Codes == {"none", "ok", "EIO", "EGENCMDFAIL", "EINTERNAL", "EINTR"}
Contents == {"input", "answer"} \X Tags
Signals == {"complete", "error"} \X Tags

TypeOK ==
    /\ gencmd_lock \in Clients \cup {NoClient}
    /\ gencmd_state \in States
    /\ waiting \subseteq Clients
    /\ pc \in {"none", "start", "data", "ctrl", "reqfail", "wait", "asleep",
               "done", "fail", "read", "unlock"}
    /\ wants \in BOOLEAN
    /\ got \in Contents \cup {<<"nothing", "cur">>}
    /\ rc \in Codes
    /\ result \in [Clients -> Codes]
    /\ handler \in {"idle", "wake"}
    /\ signals \subseteq Signals
    /\ running \subseteq Tags
    /\ data \in Contents
    /\ faults \in 0 .. MaxFaults
    /\ raw \in 0 .. MaxRaw
    /\ outcome \in {"none", "ok", "fail"}
    /\ tainted \in BOOLEAN

-----------------------------------------------------------------------------
(* I2C transfers and the state word *)

Transfer(o) ==
    /\ o \in {"ok"} \cup FaultKinds
    /\ IF o = "ok" THEN faults' = faults
                   ELSE faults < MaxFaults /\ faults' = faults + 1

Acts(o) == o # "lost"

(* leicaefi_chip_set_gencmd_state: compare and exchange.  The state moves   *)
(* on, and the holder with it, or the holder returns the internal error.    *)
SetState(expected, next, target, code) ==
    IF gencmd_state = expected
    THEN gencmd_state' = next /\ pc' = target /\ rc' = code
    ELSE gencmd_state' = gencmd_state /\ pc' = "unlock" /\ rc' = "EINTERNAL"

-----------------------------------------------------------------------------
(* leicaefi_chip_gencmd: the callers *)

Call(c) ==
    /\ c \notin waiting /\ gencmd_lock # c
    /\ waiting' = waiting \cup {c}
    /\ result' = [result EXCEPT ![c] = "none"]
    /\ UNCHANGED <<gencmd_lock, pc, wants, got, rc, gencmd_state, handler,
                   chipVars, boundVars>>

(* mutex_lock_interruptible: the lock is taken ...                          *)
Acquire(c) ==
    /\ gencmd_lock = NoClient /\ c \in waiting
    /\ gencmd_lock' = c
    /\ waiting' = waiting \ {c}
    /\ pc' = "start"
    /\ wants' \in BOOLEAN
    /\ UNCHANGED <<got, rc, result, gencmd_state, handler, chipVars, boundVars>>

(* ... or a signal ends the wait for a contended one.                       *)
Interrupted(c) ==
    /\ gencmd_lock # NoClient /\ c \in waiting
    /\ waiting' = waiting \ {c}
    /\ result' = [result EXCEPT ![c] = "EINTR"]
    /\ UNCHANGED <<gencmd_lock, pc, wants, got, rc, gencmd_state, handler,
                   chipVars, boundVars>>

(* leicaefi_chip_gencmd_exclusive_unlock and the return to the caller.      *)
(* What the chip still does on behalf of this request is old from now on.   *)
Unlock ==
    /\ pc = "unlock"
    /\ gencmd_lock' = NoClient
    /\ result' = [result EXCEPT ![gencmd_lock] = rc]
    /\ pc' = "none" /\ rc' = "none" /\ got' = <<"nothing", "cur">>
    /\ wants' = FALSE
    /\ signals' = {<<s[1], "old">> : s \in signals}
    /\ running' = {"old" : t \in running}
    /\ data' = <<data[1], "old">>
    /\ outcome' = "none"
    /\ UNCHANGED <<waiting, gencmd_state, handler, boundVars>>

-----------------------------------------------------------------------------
(* leicaefi_chip_gencmd_request: the lock's holder *)

Start ==
    /\ pc = "start"
    /\ SetState("IDLE", "PENDING", "data", rc)
    /\ UNCHANGED <<gencmd_lock, waiting, wants, got, result, handler, chipVars,
                   boundVars>>

(* Writing CMD_DATA.                                                        *)
WriteData(o) ==
    /\ pc = "data"
    /\ Transfer(o)
    /\ data' = IF Acts(o) THEN <<"input", "cur">> ELSE data
    /\ pc' = IF o = "ok" THEN "ctrl" ELSE "reqfail"
    /\ UNCHANGED <<gencmd_lock, waiting, wants, got, rc, result, gencmd_state,
                   handler, signals, running, outcome, raw, tainted>>

(* Writing CMD_CTRL starts the command, even when the driver is then told   *)
(* that the write failed.                                                   *)
WriteCtrl(o) ==
    /\ pc = "ctrl"
    /\ Transfer(o)
    /\ running' = IF Acts(o) THEN running \cup {"cur"} ELSE running
    /\ tainted' = (tainted \/ o = "applied")
    /\ pc' = IF o = "ok" THEN "wait" ELSE "reqfail"
    /\ UNCHANGED <<gencmd_lock, waiting, wants, got, rc, result, gencmd_state,
                   handler, signals, data, outcome, raw>>

(* Faulty variant: a request that could not be written leaves PENDING.      *)
ReqFailKeepsPending ==
    /\ pc = "reqfail"
    /\ pc' = "unlock" /\ rc' = "EIO"
    /\ UNCHANGED <<gencmd_lock, waiting, wants, got, result, gencmd_state,
                   handler, chipVars, boundVars>>

ReqFail ==
    /\ pc = "reqfail"
    /\ SetState("PENDING", "IDLE", "unlock", "EIO")
    /\ UNCHANGED <<gencmd_lock, waiting, wants, got, result, handler, chipVars,
                   boundVars>>

(* Faulty variant: a signal ends the wait for the chip's answer.            *)
WaitInterruptible ==
    /\ pc = "wait"
    /\ \/ /\ gencmd_state = "PENDING"
          /\ gencmd_state' = "IDLE" /\ pc' = "unlock" /\ rc' = "EINTR"
       \/ /\ gencmd_state # "IDLE"
          /\ pc' = CASE gencmd_state = "PENDING" -> "asleep"
                     [] gencmd_state = "DONE"    -> "done"
                     [] OTHER                    -> "fail"
          /\ UNCHANGED <<gencmd_state, rc>>
    /\ UNCHANGED <<gencmd_lock, waiting, wants, got, result, handler, chipVars,
                   boundVars>>

(* wait_event: enqueue and test the condition; no wake-up can fall between. *)
(* Nobody but the holder changes a state other than PENDING, so the value   *)
(* it loads afterwards is the one that ended the wait.                      *)
Wait ==
    /\ pc = "wait"
    /\ pc' = CASE gencmd_state = "PENDING" -> "asleep"
               [] gencmd_state = "DONE"    -> "done"
               [] gencmd_state = "FAILED"  -> "fail"
               [] OTHER                    -> "unlock"
    /\ rc' = IF gencmd_state = "IDLE" THEN "EINTERNAL" ELSE rc
    /\ UNCHANGED <<gencmd_lock, waiting, wants, got, result, gencmd_state,
                   handler, chipVars, boundVars>>

Done ==
    /\ pc = "done"
    /\ SetState("DONE", "IDLE", IF wants THEN "read" ELSE "unlock", "ok")
    /\ UNCHANGED <<gencmd_lock, waiting, wants, got, result, handler, chipVars,
                   boundVars>>

(* Reading the answer from CMD_DATA, with the state word already IDLE.      *)
ReadAnswer(o) ==
    /\ pc = "read"
    /\ Transfer(o)
    /\ IF o = "ok" THEN got' = data /\ rc' = rc
                   ELSE rc' = "EIO" /\ got' = got
    /\ pc' = "unlock"
    /\ UNCHANGED <<gencmd_lock, waiting, wants, result, gencmd_state, handler,
                   chipVars, raw, tainted>>

(* Faulty variant: the state word is not reset after a failed command.      *)
FailKeepsState ==
    /\ pc = "fail"
    /\ pc' = "unlock" /\ rc' = "EGENCMDFAIL"
    /\ UNCHANGED <<gencmd_lock, waiting, wants, got, result, gencmd_state,
                   handler, chipVars, boundVars>>

Fail ==
    /\ pc = "fail"
    /\ SetState("FAILED", "IDLE", "unlock", "EGENCMDFAIL")
    /\ UNCHANGED <<gencmd_lock, waiting, wants, got, result, handler, chipVars,
                   boundVars>>

Holder ==
    \/ Start
    \/ \E o \in {"ok"} \cup FaultKinds : WriteData(o) \/ WriteCtrl(o)
    \/ ReqFail
    \/ Wait
    \/ Done
    \/ \E o \in {"ok"} \cup FaultKinds : ReadAnswer(o)
    \/ Fail
    \/ Unlock

-----------------------------------------------------------------------------
(* The interrupt handlers, both run by the chip's interrupt thread *)

(* Faulty variant: the error handler reports completion.                    *)
HandleErrorAsDone(s) ==
    /\ handler = "idle" /\ s \in signals
    /\ signals' = signals \ {s}
    /\ gencmd_state' = IF gencmd_state = "PENDING" THEN "DONE" ELSE gencmd_state
    /\ handler' = "wake"
    /\ UNCHANGED <<callerVars, running, data, outcome, boundVars>>

(* Faulty variant: the error handler does not wake the holder.              *)
HandleErrorSilently(s) ==
    /\ handler = "idle" /\ s \in signals
    /\ signals' = signals \ {s}
    /\ gencmd_state' = IF gencmd_state # "PENDING" THEN gencmd_state
                       ELSE IF s[1] = "complete" THEN "DONE" ELSE "FAILED"
    /\ handler' = IF s[1] = "complete" THEN "wake" ELSE "idle"
    /\ UNCHANGED <<callerVars, running, data, outcome, boundVars>>

(* leicaefi_chip_gencmd_complete_irq_handler, .._error_irq_handler; the     *)
(* result of the compare and exchange is not looked at.                     *)
Handle(s) ==
    /\ handler = "idle" /\ s \in signals
    /\ signals' = signals \ {s}
    /\ gencmd_state' = IF gencmd_state # "PENDING" THEN gencmd_state
                       ELSE IF s[1] = "complete" THEN "DONE" ELSE "FAILED"
    /\ handler' = "wake"
    /\ UNCHANGED <<callerVars, running, data, outcome, boundVars>>

WakeUp ==
    /\ handler = "wake"
    /\ handler' = "idle"
    /\ pc' = IF pc = "asleep" THEN "wait" ELSE pc
    /\ UNCHANGED <<gencmd_lock, waiting, wants, got, rc, result, gencmd_state,
                   chipVars, boundVars>>

Handler == WakeUp \/ \E s \in Signals : Handle(s)

-----------------------------------------------------------------------------
(* The chip, and register writes that bypass this driver *)

Finish(t) ==
    /\ t \in running
    /\ running' = running \ {t}
    /\ \/ /\ signals' = signals \cup {<<"complete", t>>}
          /\ data' = <<"answer", t>>
          /\ outcome' = IF t = "cur" THEN "ok" ELSE outcome
       \/ /\ signals' = signals \cup {<<"error", t>>}
          /\ data' = data
          /\ outcome' = IF t = "cur" THEN "fail" ELSE outcome
    /\ UNCHANGED <<callerVars, gencmd_state, handler, boundVars>>

(* LEICAEFI_IOCTL_WRITE of CMD_DATA or CMD_CTRL: no lock is taken.          *)
RawWrite ==
    /\ raw < MaxRaw /\ raw' = raw + 1
    /\ tainted' = TRUE
    /\ \/ running' = running \cup {"old"} /\ data' = data
       \/ data' = <<"input", "old">> /\ running' = running
    /\ UNCHANGED <<callerVars, gencmd_state, handler, signals, outcome, faults>>

-----------------------------------------------------------------------------
(* leicaefi_add_chip and leicaefi_chip_init; the interrupt controller has   *)
(* cleared whatever was pending.                                            *)
Init ==
    /\ gencmd_lock = NoClient /\ gencmd_state = "IDLE" /\ waiting = {}
    /\ pc = "none" /\ wants = FALSE /\ got = <<"nothing", "cur">> /\ rc = "none"
    /\ result = [c \in Clients |-> "none"]
    /\ handler = "idle" /\ signals = {} /\ running = {}
    /\ data = <<"input", "old">>
    /\ faults = 0 /\ raw = 0 /\ outcome = "none" /\ tainted = FALSE

Next ==
    \/ \E c \in Clients : Call(c) \/ Acquire(c) \/ Interrupted(c)
    \/ Holder
    \/ Handler
    \/ \E t \in Tags : Finish(t)
    \/ RawWrite

Spec == Init /\ [][Next]_vars

(* The holder and the interrupt thread are kernel threads that block only   *)
(* on I2C; the chip finishes what it started; a mutex that is released is   *)
(* handed to its waiters in turn.                                           *)
FairSpec ==
    /\ Spec
    /\ WF_vars(Holder) /\ WF_vars(Handler)
    /\ \A t \in Tags : WF_vars(Finish(t))
    /\ \A c \in Clients : SF_vars(Acquire(c))

-----------------------------------------------------------------------------
(* Properties *)

(* While nobody holds the lock the state word is IDLE, or the next request  *)
(* fails in gencmd_start (chip.c:167-172), as would every one after it.     *)
FreeMeansIdle == gencmd_lock = NoClient /\ ~tainted => gencmd_state = "IDLE"

(* Whatever fails and whatever arrives late, an unlocked channel is never   *)
(* left PENDING: a late interrupt finds no request to complete.             *)
NeverPendingUnlocked == gencmd_lock = NoClient => gencmd_state # "PENDING"

(* The chip is never given a command while it executes another one, nor can *)
(* a signal of an earlier request reach a later one: all that is under way  *)
(* belongs to the lock's holder, and it is one thing.                       *)
OneCommand ==
    ~tainted =>
        /\ "old" \notin running
        /\ \A s \in signals : s[2] = "cur"
        /\ \A s, t \in signals : s = t
        /\ running = {} \/ signals = {}

(* The holder never sleeps through the end of its command, nor without one  *)
(* in sight: as long as the state is PENDING the chip works on its command  *)
(* or has raised its interrupt, whatever arrives from earlier ones, and a   *)
(* state other than PENDING comes with a wake-up still to be made (chip.c:  *)
(* 253-256 sets the state before it wakes the queue).                       *)
EndInSight == "cur" \in running \/ \E s \in signals : s[2] = "cur"

NoLostWakeup ==
    pc = "asleep" => handler = "wake" \/ (gencmd_state = "PENDING" /\ EndInSight)

(* A caller is told success or command failure only when that is what the   *)
(* chip made of its own command, and reads its own answer.                  *)
OwnAnswer ==
    pc = "unlock" /\ ~tainted =>
        /\ rc = "ok" => outcome = "ok" /\ (wants => got = <<"answer", "cur">>)
        /\ rc = "EGENCMDFAIL" => outcome = "fail"
        /\ rc # "EINTERNAL"

(* Every call of leicaefi_chip_gencmd returns: "it must be finished"        *)
(* (chip.c:189), here for a chip that answers every command it was given    *)
(* and an interrupt controller that delivers every event.                   *)
CallReturns ==
    \A c \in Clients : c \in waiting ~> c \notin waiting /\ gencmd_lock # c

(* What is left to do for the holder: its own steps, and for each command   *)
(* that runs and each interrupt that is raised the steps they still cause.  *)
Count(b) == IF b THEN 1 ELSE 0

StepsOfHolder ==
    CASE pc = "none"    -> 0
      [] pc = "start"   -> 14
      [] pc = "data"    -> 13
      [] pc = "ctrl"    -> 12
      [] pc = "wait"    -> 7
      [] pc = "asleep"  -> 6
      [] pc = "read"    -> 4
      [] pc = "unlock"  -> 3
      [] OTHER          -> 5

StepsLeft ==
    StepsOfHolder
      + 4 * (Count("cur" \in running) + Count("old" \in running))
      + 3 * (Count(<<"complete", "cur">> \in signals)
             + Count(<<"complete", "old">> \in signals)
             + Count(<<"error", "cur">> \in signals)
             + Count(<<"error", "old">> \in signals))
      + 2 * Count(handler = "wake")

(* A call runs down: each step of the holder, of a handler or of the chip   *)
(* leaves less to do, callers that wait change nothing, and only taking the *)
(* lock and a register write add a bounded amount.  No failure, late        *)
(* interrupt or wake-up makes a call start over (chip.c:190 and the error   *)
(* paths around it), so a call costs at most 14 steps of all three.         *)
RunsDown ==
    [][\/ StepsLeft' < StepsLeft
       \/ StepsLeft' = StepsLeft /\ UNCHANGED <<pc, gencmd_state, running, signals>>
       \/ pc = "none" /\ StepsLeft' = StepsLeft + 14
       \/ raw' = raw + 1 /\ StepsLeft' <= StepsLeft + 4]_vars

(* A state word that was left DONE or FAILED by an interrupt of a command   *)
(* nobody waited for stays so: every later call ends with EINTERNAL         *)
(* (chip.c:167-172), and nothing in the driver ever resets it.              *)
Refusing ==
    /\ gencmd_state \in {"DONE", "FAILED"}
    /\ pc \in {"none", "start"} \/ (pc = "unlock" /\ rc = "EINTERNAL")

RefusesForGood == [](Refusing => []Refusing)

Channel == INSTANCE CommandChannel WITH
    asking <- waiting, served <- gencmd_lock, done <- outcome, result <- result

(* Callers see the abstract channel, as long as a transfer that is reported *)
(* failed had no effect on the chip.                                        *)
ChannelSpec == Channel!Spec

(* With any faults and register writes, what callers see is a step of the   *)
(* abstract channel as long as no command nobody waits for was started: of  *)
(* all ambiguous transfers only the write of CMD_CTRL does harm.            *)
ChannelSteps == [][tainted \/ Channel!Next]_(Channel!vars)

-----------------------------------------------------------------------------
(* The inductive invariant behind the safety properties *)

LockInv ==
    /\ gencmd_lock = NoClient <=> pc = "none"
    /\ gencmd_lock \notin waiting

(* The state word at each step of the holder, whatever arrives late.        *)
StateInv ==
    /\ pc \in {"none", "start", "unlock"} => gencmd_state # "PENDING"
    /\ pc = "done" => gencmd_state = "DONE"
    /\ pc = "fail" => gencmd_state = "FAILED"
    /\ pc = "read" => gencmd_state = "IDLE"
    /\ pc = "unlock" => gencmd_state = "IDLE" \/ rc = "EINTERNAL"

(* Whatever earlier commands still cause, the end of the holder's own comes.*)
AwaitInv == pc \in {"wait", "asleep"} /\ gencmd_state = "PENDING" => EndInSight

(* The one thing that is under way on behalf of the request.                *)
Nothing == running = {} /\ signals = {}

Executing ==
    /\ gencmd_state = "PENDING" /\ outcome = "none"
    /\ running = {"cur"} /\ signals = {}

Signalled ==
    /\ gencmd_state = "PENDING" /\ running = {}
    /\ \/ /\ signals = {<<"complete", "cur">>}
          /\ outcome = "ok" /\ data = <<"answer", "cur">>
       \/ signals = {<<"error", "cur">>} /\ outcome = "fail"

Answered ==
    /\ Nothing
    /\ \/ gencmd_state = "DONE" /\ outcome = "ok" /\ data = <<"answer", "cur">>
       \/ gencmd_state = "FAILED" /\ outcome = "fail"

CleanInv ==
    ~tainted =>
        /\ pc \in {"none", "start"} =>
              Nothing /\ gencmd_state = "IDLE" /\ outcome = "none"
        /\ pc \in {"data", "ctrl", "reqfail"} =>
              Nothing /\ gencmd_state = "PENDING" /\ outcome = "none"
        /\ pc \in {"wait", "asleep"} => Executing \/ Signalled \/ Answered
        /\ pc \in {"done", "fail"} => Answered
        /\ pc = "read" =>
              Nothing /\ rc = "ok" /\ outcome = "ok" /\ data = <<"answer", "cur">>
        /\ pc = "unlock" =>
              /\ Nothing /\ gencmd_state = "IDLE"
              /\ rc \in {"ok", "EIO", "EGENCMDFAIL"}
              /\ rc = "ok" => outcome = "ok" /\ (wants => got = <<"answer", "cur">>)
              /\ rc = "EGENCMDFAIL" => outcome = "fail"

TaintInv == MaxRaw = 0 /\ "applied" \notin FaultKinds => ~tainted

IInv ==
    /\ TypeOK /\ LockInv /\ StateInv /\ NoLostWakeup /\ AwaitInv
    /\ CleanInv /\ TaintInv
=============================================================================

---------------------------- MODULE FlashProofs ----------------------------
(***************************************************************************)
(* Theorems about Flash for any set of callers and addresses and any number *)
(* of failing transfers: the inductive invariant, what follows from it,     *)
(* that the ioctls implement FlashDevice and how far they still do when     *)
(* transfers fail ambiguously, and that every ioctl runs down.              *)
(***************************************************************************)
EXTENDS Flash, FiniteSetTheorems, TLAPS

USE FlashAssumption

LEMMA InitIInv == Init => IInv
<1> SUFFICES ASSUME Init PROVE IInv
  OBVIOUS
<1>1. TypeOK
  <2>1. faults \in 0 .. MaxFaults /\ raw \in 0 .. MaxRaw
    BY DEF Init
  <2>2. addr_reg \in [{"flash", "iflash"} -> Addresses]
    BY DEF Init
  <2>3. store \in [Addresses -> {"blank", "data"}]
    BY DEF Init
  <2> QED
    BY <2>1, <2>2, <2>3 DEF Init, TypeOK, States
<1>2. LockInv /\ StateInv /\ ReplyInv /\ TaintInv
  BY DEF Init, LockInv, StateInv, Pending, Accesses, Started, ReplyInv, TaintInv
<1>3. CleanInv
  BY DEF Init, CleanInv, Pending, Accesses, Nothing, AddrInv
<1>4. NoLostWakeup /\ AwaitInv
  BY DEF Init, NoLostWakeup, AwaitInv
<1>5. IsFiniteSet(running)
  BY FS_EmptySet DEF Init
<1> QED
  BY <1>1, <1>2, <1>3, <1>4, <1>5 DEF IInv

(* A transfer respects the fault bound.                                     *)
LEMMA TransferType ==
    ASSUME faults \in 0 .. MaxFaults, raw \in 0 .. MaxRaw, NEW o, Transfer(o)
    PROVE  faults' \in 0 .. MaxFaults /\ raw' \in 0 .. MaxRaw
BY DEF Transfer

(* What the chip is started on is a job.                                    *)
LEMMA JobType ==
    ASSUME TypeOK, op \in Requests, op.kind \in Accesses \cup Switches
    PROVE  Job \in Jobs
<1>1. CASE op.kind \in Accesses
  <2>1. addr_reg["flash"] \in Addresses
    BY DEF TypeOK
  <2> QED
    BY <1>1, <2>1 DEF Job, Jobs, Accesses
<1>2. CASE op.kind \in Switches
  <2>1. op.arg \in Modes
    BY <1>2 DEF Requests, Switches
  <2> QED
    BY <1>2, <2>1 DEF Job, Jobs, Switches
<1> QED
  BY <1>1, <1>2

(* Every step keeps every variable within its type.                         *)
LEMMA TypeStep == TypeOK /\ LockInv /\ [Next]_vars => TypeOK'
<1> SUFFICES ASSUME TypeOK, LockInv, [Next]_vars PROVE TypeOK'
  OBVIOUS
<1> USE TransferType DEF callerVars, regVars, memVars, unitVars, boundVars,
                         holderKeeps, Return, Goto
<1>1. ASSUME NEW c \in Clients, Call(c) \/ Acquire(c) \/ Interrupted(c)
      PROVE  TypeOK'
  BY <1>1 DEF Call, Acquire, Interrupted, TypeOK
<1>2. CASE Start
  BY <1>2 DEF Start, TypeOK
<1>3. ASSUME NEW o, ReadMode(o) PROVE TypeOK'
  BY <1>3 DEF ReadMode, TypeOK
<1>4. CASE Begin \/ ReqFail
  BY <1>4 DEF Begin, ReqFail, Exchange, Unexpected, TypeOK, States
<1>5. ASSUME NEW o, WriteAddr(o) PROVE TypeOK'
  <2>1. addr_reg' \in [{"flash", "iflash"} -> Addresses]
    <3>1. op.arg \in Addresses
      BY <1>5 DEF WriteAddr, LockInv, Requests, Reads, Accesses
    <3> QED
      BY <1>5, <3>1 DEF WriteAddr, TypeOK
  <2> QED
    BY <1>5, <2>1 DEF WriteAddr, TypeOK
<1>6. ASSUME NEW o, ReadData(o) PROVE TypeOK'
  BY <1>6 DEF ReadData, TypeOK
<1>7. ASSUME NEW o, SetWren(o) PROVE TypeOK'
  BY <1>7 DEF SetWren, TypeOK
<1>8. ASSUME NEW o, Go(o) PROVE TypeOK'
  <2>1. running' \subseteq Jobs \X Tags
    <3>1. Job \in Jobs
      BY <1>8, JobType DEF Go, LockInv, Started
    <3> QED
      BY <1>8, <3>1 DEF Go, TypeOK, Tags
  <2>2. faults' \in 0 .. MaxFaults /\ raw' \in 0 .. MaxRaw
    BY <1>8 DEF Go, TypeOK
  <2>3. tainted' \in BOOLEAN
    BY <1>8 DEF Go, TypeOK
  <2>4. /\ pc' \in {"wait", "reqfail"} /\ rc' = rc /\ got' = got
        /\ UNCHANGED <<holderKeeps, op_state, regVars, memVars, signals, outcome>>
    BY <1>8 DEF Go
  <2> HIDE <1>8
  <2> QED
    BY <2>1, <2>2, <2>3, <2>4 DEF TypeOK
<1>9. CASE Wait
  BY <1>9 DEF Wait, TypeOK
<1>10. CASE Done \/ Fail
  BY <1>10 DEF Done, Fail, Exchange, Unexpected, TypeOK, States
<1>11. CASE Unlock
  <2>1. signals' \subseteq {"complete", "error"} \X Tags
    BY <1>11 DEF Unlock, TypeOK, Tags
  <2>2. running' \subseteq Jobs \X Tags
    BY <1>11 DEF Unlock, TypeOK, Tags
  <2> QED
    BY <1>11, <2>1, <2>2 DEF Unlock, TypeOK
<1>12. ASSUME NEW s \in {"complete", "error"} \X Tags, Handle(s) PROVE TypeOK'
  BY <1>12 DEF Handle, TypeOK, States
<1>13. CASE WakeUp
  BY <1>13 DEF WakeUp, Woken, TypeOK
<1>14. ASSUME NEW j \in Jobs \X Tags, Finish(j) PROVE TypeOK'
  <2>1. mode' \in Modes /\ store' \in [Addresses -> {"blank", "data"}]
    BY <1>14 DEF Finish, Effect, Other, Modes, TypeOK
  <2>2. signals' \subseteq {"complete", "error"} \X Tags
    BY <1>14 DEF Finish, TypeOK
  <2> QED
    BY <1>14, <2>1, <2>2 DEF Finish, TypeOK
<1>15. CASE RawWrite
  <2>1. raw' \in 0 .. MaxRaw
    BY <1>15 DEF RawWrite, TypeOK
  <2>2. addr_reg' \in [{"flash", "iflash"} -> Addresses]
    BY <1>15 DEF RawWrite, TypeOK
  <2>3. running' \subseteq Jobs \X Tags
    BY <1>15 DEF RawWrite, TypeOK, Tags
  <2> QED
    BY <1>15, <2>1, <2>2, <2>3 DEF RawWrite, TypeOK
<1>16. CASE UNCHANGED vars
  BY <1>16 DEF vars, TypeOK
<1> QED
  BY <1>1, <1>2, <1>3, <1>4, <1>5, <1>6, <1>7, <1>8, <1>9, <1>10, <1>11, <1>12,
     <1>13, <1>14, <1>15, <1>16 DEF Next, Holder, Handler, Chip

-----------------------------------------------------------------------------
(* The lock, the request and the state word, whatever fails or comes late.  *)
LEMMA StateStep ==
    TypeOK /\ LockInv /\ StateInv /\ ReplyInv /\ TaintInv /\ [Next]_vars
      => (LockInv /\ StateInv /\ ReplyInv /\ TaintInv)'
<1> DEFINE Inv == LockInv /\ StateInv /\ ReplyInv /\ TaintInv
<1> SUFFICES ASSUME TypeOK, Inv, [Next]_vars PROVE Inv'
  OBVIOUS
<1> USE DEF LockInv, StateInv, ReplyInv, TaintInv, Pending, Started, Reads,
            Accesses, Switches, callerVars, regVars, memVars, unitVars,
            boundVars, holderKeeps, Return, Goto
<1>1. ASSUME NEW c \in Clients, Call(c) PROVE Inv'
  BY <1>1 DEF Call
<1>2. ASSUME NEW c \in Clients, Acquire(c) PROVE Inv'
  BY <1>2 DEF Acquire
<1>3. ASSUME NEW c \in Clients, Interrupted(c) PROVE Inv'
  BY <1>3 DEF Interrupted
<1>4. CASE Start
  <2>1. op.kind \in {"read", "iread", "write", "erase", "check", "set_mode",
                     "get_mode", "enable", "disable", "invalid"}
    BY <1>4 DEF Start, Requests
  <2> QED
    BY <1>4, <2>1 DEF Start
<1>5. ASSUME NEW o, ReadMode(o) PROVE Inv'
  BY <1>5 DEF ReadMode
<1>6. CASE Begin
  BY <1>6 DEF Begin, Exchange, Unexpected
<1>7. ASSUME NEW o, WriteAddr(o) PROVE Inv'
  BY <1>7 DEF WriteAddr
<1>8. ASSUME NEW o, ReadData(o) \/ SetWren(o) PROVE Inv'
  BY <1>8 DEF ReadData, SetWren
<1>9. ASSUME NEW o, Go(o) PROVE Inv'
  BY <1>9 DEF Go, Transfer, Outcomes
<1>10. CASE ReqFail
  BY <1>10 DEF ReqFail, Exchange, Unexpected
<1>11. CASE Wait
  BY <1>11 DEF Wait, TypeOK, States
<1>12. CASE Done
  BY <1>12 DEF Done, Exchange, Unexpected
<1>13. CASE Fail
  BY <1>13 DEF Fail, Exchange, Unexpected
<1>14. CASE Unlock
  BY <1>14 DEF Unlock, TypeOK
<1>15. ASSUME NEW s \in {"complete", "error"} \X Tags, Handle(s) PROVE Inv'
  BY <1>15 DEF Handle
<1>16. CASE WakeUp
  BY <1>16 DEF WakeUp, Woken
<1>17. ASSUME NEW j \in Jobs \X Tags, Finish(j) PROVE Inv'
  BY <1>17 DEF Finish
<1>18. CASE RawWrite
  BY <1>18 DEF RawWrite, TypeOK
<1>19. CASE UNCHANGED vars
  BY <1>19 DEF vars
<1> QED
  BY <1>1, <1>2, <1>3, <1>4, <1>5, <1>6, <1>7, <1>8, <1>9, <1>10, <1>11, <1>12,
     <1>13, <1>14, <1>15, <1>16, <1>17, <1>18, <1>19
     DEF Next, Holder, Handler, Chip

-----------------------------------------------------------------------------
(* Without work nobody waits for, the holder's progress, the state word,    *)
(* the chip and its memory move through the request together.               *)
LEMMA CleanStep ==
    TypeOK /\ LockInv /\ StateInv /\ CleanInv /\ [Next]_vars => CleanInv'
<1> SUFFICES ASSUME TypeOK, LockInv, StateInv, CleanInv, [Next]_vars, ~tainted'
             PROVE  CleanInv'
  BY DEF CleanInv
<1> USE DEF CleanInv, Pending, AddrInv, Nothing, Fresh, Executing, Executed,
            Signalled, Answered, AnswerIsTrue, Reads, Accesses, Switches,
            callerVars, regVars, memVars, unitVars, boundVars, holderKeeps,
            Return, Goto, Bank
<1>1. ASSUME NEW c \in Clients, Call(c) PROVE CleanInv'
  BY <1>1 DEF Call
<1>2. ASSUME NEW c \in Clients, Acquire(c) PROVE CleanInv'
  BY <1>2 DEF Acquire, LockInv
<1>3. ASSUME NEW c \in Clients, Interrupted(c) PROVE CleanInv'
  BY <1>3 DEF Interrupted
<1>4. CASE Start
  BY <1>4 DEF Start
<1>5. ASSUME NEW o, ReadMode(o) PROVE CleanInv'
  BY <1>5 DEF ReadMode, LockInv
<1>6. CASE Begin
  BY <1>6 DEF Begin, Exchange, Unexpected, LockInv
<1>7. ASSUME NEW o, WriteAddr(o) PROVE CleanInv'
  BY <1>7 DEF WriteAddr, LockInv, Acts, TypeOK
<1>8. ASSUME NEW o, ReadData(o) PROVE CleanInv'
  BY <1>8 DEF ReadData, LockInv
<1>9. ASSUME NEW o, SetWren(o) PROVE CleanInv'
  BY <1>9 DEF SetWren, LockInv
<1>10. ASSUME NEW o, Go(o) PROVE CleanInv'
  BY <1>10 DEF Go, Transfer, Acts, LockInv, Started, Job, Outcomes
<1>11. CASE ReqFail
  BY <1>11 DEF ReqFail, Exchange, Unexpected, LockInv
<1>12. CASE Wait
  BY <1>12 DEF Wait
<1>13. CASE Done
  BY <1>13 DEF Done, Exchange, Unexpected, LockInv, Started, StateInv
<1>14. CASE Fail
  BY <1>14 DEF Fail, Exchange, Unexpected, LockInv, Started, StateInv
<1>15. CASE Unlock
  BY <1>15 DEF Unlock, NoRequest
<1>16. ASSUME NEW s \in {"complete", "error"} \X Tags, Handle(s) PROVE CleanInv'
  BY <1>16 DEF Handle
<1>17. CASE WakeUp
  BY <1>17 DEF WakeUp, Woken
<1>18. ASSUME NEW j \in Jobs \X Tags, Finish(j) PROVE CleanInv'
  <2>1. CASE pc \in {"wait", "asleep"}
    <3>1. Executing /\ j = <<[kind |-> op.kind, arg |-> op.arg], "cur">>
      BY <1>18, <2>1 DEF Finish
    <3>2. op.kind \in Accesses => op.arg \in Addresses
      BY <2>1 DEF LockInv, Started, Requests
    <3>3. op.kind = "set_mode" => op.arg \in Modes
      BY <2>1 DEF LockInv, Started, Requests
    <3>4. Signalled'
      <4>1. CASE outcome' = "fail" /\ signals' = {<<"error", "cur">>}
        BY <1>18, <3>1, <4>1 DEF Finish
      <4>2. ASSUME Effect(j[1]), outcome' = "ok" PROVE Executed'
        <5>1. op' = op
          BY <1>18 DEF Finish
        <5>2. CASE op.kind = "write"
          BY <1>18, <3>1, <3>2, <4>2, <5>1, <5>2 DEF Effect, TypeOK
        <5>3. CASE op.kind = "erase"
          BY <1>18, <3>1, <3>2, <4>2, <5>1, <5>3 DEF Effect, TypeOK
        <5>4. CASE op.kind = "set_mode"
          BY <1>18, <3>1, <3>3, <4>2, <5>1, <5>4 DEF Effect, TypeOK, Modes, Other
        <5> QED
          BY <4>2, <5>1, <5>2, <5>3, <5>4
      <4> QED
        BY <1>18, <3>1, <4>1, <4>2 DEF Finish
    <3> QED
      BY <1>18, <2>1, <3>4 DEF Finish
  <2>2. CASE pc \notin {"wait", "asleep"}
    BY <1>18, <2>2 DEF Finish
  <2> QED
    BY <2>1, <2>2
<1>19. CASE RawWrite
  BY <1>19 DEF RawWrite
<1>20. CASE UNCHANGED vars
  BY <1>20 DEF vars
<1> QED
  BY <1>1, <1>2, <1>3, <1>4, <1>5, <1>6, <1>7, <1>8, <1>9, <1>10, <1>11, <1>12,
     <1>13, <1>14, <1>15, <1>16, <1>17, <1>18, <1>19, <1>20
     DEF Next, Holder, Handler, Chip

-----------------------------------------------------------------------------
(* The end of what the holder waits for stays in sight: an interrupt of an  *)
(* earlier operation may end the sleep, but takes nothing away.             *)
LEMMA AwaitStep ==
    TypeOK /\ LockInv /\ AwaitInv /\ NoLostWakeup /\ [Next]_vars
      => AwaitInv' /\ NoLostWakeup'
<1> DEFINE Both == AwaitInv /\ NoLostWakeup
<1> SUFFICES ASSUME TypeOK, LockInv, Both, [Next]_vars PROVE Both'
  OBVIOUS
<1> USE DEF AwaitInv, NoLostWakeup, EndInSight, callerVars, regVars, memVars,
            unitVars, boundVars, holderKeeps, Return, Goto
<1>1. ASSUME NEW c \in Clients, Call(c) \/ Acquire(c) \/ Interrupted(c)
      PROVE  Both'
  BY <1>1 DEF Call, Acquire, Interrupted, LockInv
<1>2. ASSUME NEW o, ReadMode(o) \/ WriteAddr(o) \/ ReadData(o) \/ SetWren(o)
      PROVE  Both'
  BY <1>2 DEF ReadMode, WriteAddr, ReadData, SetWren
<1>3. ASSUME NEW o, Go(o) PROVE Both'
  <2>1. o = "ok" => EndInSight'
    <3>1. o = "ok" => <<Job, "cur">> \in running'
      BY <1>3 DEF Go, Acts
    <3>2. <<Job, "cur">>[2] = "cur"
      OBVIOUS
    <3> QED
      BY <3>1, <3>2
  <2>2. pc' = IF o = "ok" THEN "wait" ELSE "reqfail"
    BY <1>3 DEF Go
  <2> QED
    BY <2>1, <2>2
<1>4. CASE Start \/ Begin \/ ReqFail \/ Done \/ Fail \/ Unlock
  BY <1>4 DEF Start, Begin, ReqFail, Done, Fail, Unlock, Exchange, Unexpected
<1>5. CASE Wait
  BY <1>5 DEF Wait
<1>6. ASSUME NEW s \in {"complete", "error"} \X Tags, Handle(s) PROVE Both'
  BY <1>6 DEF Handle
<1>7. CASE WakeUp
  BY <1>7 DEF WakeUp, Woken
<1>8. ASSUME NEW j \in Jobs \X Tags, Finish(j) PROVE Both'
  <2>1. EndInSight => EndInSight'
    <3>1. /\ running' = running \ {j}
          /\ \/ signals' = signals \cup {<<"complete", j[2]>>}
             \/ signals' = signals \cup {<<"error", j[2]>>}
      BY <1>8 DEF Finish
    <3>2. CASE j[2] = "cur"
      <4>1. <<"complete", j[2]>>[2] = "cur" /\ <<"error", j[2]>>[2] = "cur"
        BY <3>2
      <4> QED
        BY <3>1, <4>1
    <3>3. CASE j[2] # "cur"
      BY <3>1, <3>3
    <3> QED
      BY <3>2, <3>3
  <2>2. UNCHANGED <<pc, op_state, handler>>
    BY <1>8 DEF Finish
  <2> QED
    BY <2>1, <2>2
<1>9. CASE RawWrite \/ UNCHANGED vars
  BY <1>9 DEF RawWrite, vars
<1> QED
  BY <1>1, <1>2, <1>3, <1>4, <1>5, <1>6, <1>7, <1>8, <1>9
     DEF Next, Holder, Handler, Chip

-----------------------------------------------------------------------------
(* The operations the chip executes: finitely many, and no more of them     *)
(* after the lock was released than before.                                 *)
LEMMA Aged ==
    ASSUME IsFiniteSet(running), running \subseteq Jobs \X Tags,
           running' = {<<j[1], "old">> : j \in running}
    PROVE  IsFiniteSet(running') /\ Cardinality(running') <= Cardinality(running)
<1> DEFINE f == [j \in running |-> <<j[1], "old">>]
<1>1. f \in Surjection(running, running')
  BY DEF Surjection
<1> QED
  BY <1>1, FS_Surjection

LEMMA FiniteStep ==
    TypeOK /\ IsFiniteSet(running) /\ [Next]_vars => IsFiniteSet(running')
<1> SUFFICES ASSUME TypeOK, IsFiniteSet(running), [Next]_vars
             PROVE  IsFiniteSet(running')
  OBVIOUS
<1> USE DEF unitVars, holderKeeps
<1>1. ASSUME NEW o, Go(o) PROVE IsFiniteSet(running')
  BY <1>1, FS_AddElement DEF Go
<1>2. CASE Unlock
  BY <1>2, Aged DEF Unlock, TypeOK
<1>3. ASSUME NEW j \in Jobs \X Tags, Finish(j) PROVE IsFiniteSet(running')
  <2>1. running' = running \ {j}
    BY <1>3 DEF Finish
  <2> QED
    BY <2>1, FS_RemoveElement
<1>4. CASE RawWrite
  <2>1. \/ running' = running
        \/ \E job \in Jobs : running' = running \cup {<<job, "old">>}
    BY <1>4 DEF RawWrite
  <2>2. ASSUME NEW job, running' = running \cup {<<job, "old">>}
        PROVE  IsFiniteSet(running')
    BY <2>2, FS_AddElement
  <2> QED
    BY <2>1, <2>2
<1>5. CASE UNCHANGED running
  BY <1>5
<1>6. ASSUME NEW c \in Clients, Call(c) \/ Acquire(c) \/ Interrupted(c)
      PROVE  UNCHANGED running
  BY <1>6 DEF Call, Acquire, Interrupted
<1>7. ASSUME NEW o, ReadMode(o) \/ WriteAddr(o) \/ ReadData(o) \/ SetWren(o)
      PROVE  UNCHANGED running
  BY <1>7 DEF ReadMode, WriteAddr, ReadData, SetWren
<1>8. CASE Start \/ Begin \/ ReqFail \/ Wait \/ Done \/ Fail
  BY <1>8 DEF Start, Begin, ReqFail, Wait, Done, Fail
<1>9. CASE Handler \/ UNCHANGED vars
  BY <1>9 DEF Handler, Handle, WakeUp, vars
<1> QED
  BY <1>1, <1>2, <1>3, <1>4, <1>5, <1>6, <1>7, <1>8, <1>9
     DEF Next, Holder, Chip

-----------------------------------------------------------------------------
(* IInv is an invariant of the specification.                               *)
THEOREM Inductive == Spec => []IInv
<1>1. IInv /\ [Next]_vars => IInv'
  BY TypeStep, StateStep, CleanStep, AwaitStep, FiniteStep DEF IInv
<1> QED
  BY InitIInv, <1>1, PTL DEF Spec

(* Type correctness of the state word, the locals and the chip.             *)
THEOREM TypeCorrect == Spec => []TypeOK
BY Inductive, PTL DEF IInv

(* Every one of the flash operations leaves the state word IDLE.            *)
THEOREM UnlockedIsIdleAlways == Spec => []UnlockedIsIdle
<1>1. IInv => UnlockedIsIdle
  BY DEF IInv, LockInv, CleanInv, Pending, UnlockedIsIdle
<1> QED
  BY Inductive, <1>1, PTL

(* Without condition: an unlocked device is never PENDING.                  *)
THEOREM NeverLeftPendingAlways == Spec => []NeverLeftPending
<1>1. IInv => NeverLeftPending
  BY DEF IInv, LockInv, StateInv, Pending, NeverLeftPending
<1> QED
  BY Inductive, <1>1, PTL

(* The chip never checks the partition it runs from.                        *)
THEOREM OppositeCheckedAlways == Spec => []OppositeChecked
<1>1. IInv => OppositeChecked
  <2> SUFFICES ASSUME IInv, ~tainted, NEW j \in running, j[1].kind = "check"
               PROVE  mode # j[1].arg
    BY DEF OppositeChecked
  <2>1. Executing
    BY DEF IInv, CleanInv, Pending, Nothing, Signalled, Answered
  <2> QED
    BY <2>1 DEF Executing, Fresh, Switches
<1> QED
  BY Inductive, <1>1, PTL

(* Success, refusal and verdict are what the chip made of the request.      *)
THEOREM AnswerIsTrueAlways == Spec => []AnswerIsTrue
<1>1. IInv => AnswerIsTrue
  BY DEF IInv, CleanInv, AnswerIsTrue
<1> QED
  BY Inductive, <1>1, PTL

(* A holder that sleeps will be woken, by its own operation at the latest.  *)
THEOREM NoLostWakeupAlways == Spec => []NoLostWakeup
BY Inductive, PTL DEF IInv

-----------------------------------------------------------------------------
(* Every step of the ioctls is a step of the abstract device or changes     *)
(* nothing the callers see.                                                 *)
LEMMA DeviceStep ==
    IInv /\ ~tainted /\ ~tainted' /\ [Next]_vars
      => [Device!Next]_(Device!vars)
<1> SUFFICES ASSUME IInv, ~tainted, ~tainted', [Next]_vars
             PROVE  [Device!Next]_(Device!vars)
  OBVIOUS
<1> USE DEF callerVars, regVars, memVars, unitVars, boundVars, holderKeeps,
            Device!vars, Device!NoAnswer
<1>1. ASSUME NEW c \in Clients, Call(c) PROVE Device!Ask(c)
  BY <1>1 DEF Call, Device!Ask
<1>2. ASSUME NEW c \in Clients, Acquire(c) PROVE Device!Serve(c)
  BY <1>2 DEF Acquire, Device!Serve, Device!Requests, Device!Modes, Requests,
              Modes, IInv, LockInv
<1>3. ASSUME NEW c \in Clients, Interrupted(c) PROVE Device!GiveUp(c)
  BY <1>3 DEF Interrupted, Device!GiveUp
<1>4. CASE Start
  <2>1. CASE op.kind = "invalid"
    <3>1. Device!Reply
      BY <1>4, <2>1 DEF Start, Return, Device!Reply, Device!Tell, IInv, LockInv
    <3> QED
      BY <3>1 DEF Device!Next
  <2>2. CASE op.kind # "invalid"
    BY <1>4, <2>2 DEF Start, Goto
  <2> QED
    BY <2>1, <2>2
<1>5. ASSUME NEW o, ReadMode(o) PROVE Device!Reply \/ UNCHANGED Device!vars
  BY <1>5 DEF ReadMode, Return, Goto, Device!Reply, Device!Tell, IInv, LockInv,
              Switches
<1>6. CASE Begin
  BY <1>6 DEF Begin, Exchange, Unexpected, Goto, IInv, CleanInv, Pending
<1>7. ASSUME NEW o, WriteAddr(o) PROVE Device!Reply \/ UNCHANGED Device!vars
  BY <1>7 DEF WriteAddr, Return, Goto, Device!Reply, Device!Tell, IInv, LockInv
<1>8. ASSUME NEW o, ReadData(o) PROVE Device!Reply
  <2>1. op.kind \in Reads /\ addr_reg[Bank] = op.arg
    BY <1>8 DEF ReadData, IInv, LockInv, CleanInv, AddrInv
  <2> QED
    BY <1>8, <2>1 DEF ReadData, Return, Device!Reply, Device!Tell, IInv, LockInv,
                      Reads, Bank
<1>9. ASSUME NEW o, SetWren(o) PROVE Device!Enable \/ Device!Reply
  <2>1. op.kind \in {"enable", "disable"} /\ op_lock # NoClient
    BY <1>9 DEF SetWren, IInv, LockInv
  <2>2. CASE Acts(o)
    BY <1>9, <2>1, <2>2 DEF SetWren, Return, Device!Enable
  <2>3. CASE ~Acts(o)
    BY <1>9, <2>1, <2>3 DEF SetWren, Return, Acts, Device!Reply, Device!Tell
  <2> QED
    BY <2>2, <2>3
<1>10. ASSUME NEW o, Go(o) PROVE UNCHANGED Device!vars
  BY <1>10 DEF Go, Goto
<1>11. CASE ReqFail
  <2>1. Device!Reply
    BY <1>11 DEF ReqFail, Exchange, Unexpected, Return, Device!Reply,
                 Device!Tell, IInv, LockInv, CleanInv, Pending, Started,
                 Accesses, Switches
  <2> QED
    BY <2>1 DEF Device!Next
<1>12. CASE Wait
  BY <1>12 DEF Wait, Goto
<1>13. CASE Done
  <2>1. Executed /\ op_state = "DONE" /\ op_lock # NoClient
        /\ op.kind \in Accesses \cup Switches
    BY <1>13 DEF Done, IInv, LockInv, StateInv, CleanInv, Answered, Started
  <2>2. Device!Reply
    BY <1>13, <2>1 DEF Done, Exchange, Unexpected, Return, Executed, Accesses,
                       Switches, Device!Reply, Device!Tell
  <2> QED
    BY <2>2 DEF Device!Next
<1>14. CASE Fail
  <2>1. outcome = "fail" /\ op_state = "FAILED" /\ op_lock # NoClient
        /\ op.kind \in Accesses \cup Switches
    BY <1>14 DEF Fail, IInv, LockInv, StateInv, CleanInv, Answered, Started
  <2>2. Device!Reply
    BY <1>14, <2>1 DEF Fail, Exchange, Unexpected, Return, Accesses, Switches,
                       Device!Reply, Device!Tell
  <2> QED
    BY <2>2 DEF Device!Next
<1>15. CASE Unlock
  <2>1. Device!Leave
    BY <1>15 DEF Unlock, Device!Leave, Device!NoRequest, NoRequest, IInv,
                 LockInv, ReplyInv
  <2> QED
    BY <2>1 DEF Device!Next
<1>16. CASE Handler
  BY <1>16 DEF Handler, Handle, WakeUp, Woken
<1>17. ASSUME NEW j \in Jobs \X Tags, Finish(j) PROVE Device!Execute
  <2>1. Executing /\ j = <<[kind |-> op.kind, arg |-> op.arg], "cur">>
        /\ pc \in {"wait", "asleep"}
    BY <1>17 DEF Finish, IInv, CleanInv, Pending, Nothing, Executing, Signalled,
                 Answered
  <2>2. op.kind \in Accesses \cup Switches /\ op_lock # NoClient
    BY <2>1 DEF IInv, LockInv, Started
  <2>3. op.kind = "set_mode" => op.arg \in Modes
    BY <2>1 DEF IInv, LockInv, Requests
  <2>4. CASE Effect(j[1]) /\ outcome' = "ok"
    BY <1>17, <2>1, <2>2, <2>3, <2>4 DEF Finish, Effect, Executing, Fresh,
         Accesses, Switches, IInv, TypeOK, Modes, Other, Device!Execute
  <2>5. CASE UNCHANGED memVars /\ outcome' = "fail"
    BY <1>17, <2>1, <2>2, <2>5 DEF Finish, Executing, Fresh, Accesses, Switches,
         Device!Execute
  <2> QED
    BY <1>17, <2>1, <2>4, <2>5 DEF Finish
<1>18. CASE RawWrite
  BY <1>18 DEF RawWrite
<1>19. CASE UNCHANGED vars
  BY <1>19 DEF vars
<1> QED
  BY <1>1, <1>2, <1>3, <1>4, <1>5, <1>6, <1>7, <1>8, <1>9, <1>10, <1>11, <1>12,
     <1>13, <1>14, <1>15, <1>16, <1>17, <1>18, <1>19
     DEF Next, Holder, Chip, Device!Next

(* The ioctls implement the abstract device, as long as no register write   *)
(* bypasses them and a transfer that is reported failed had no effect.      *)
THEOREM ImplementsDevice ==
    ASSUME MaxRaw = 0, "applied" \notin FaultKinds
    PROVE  Spec => DeviceSpec
<1>1. Init => Device!Init
  BY DEF Init, Device!Init, Device!NoRequest, NoRequest, Device!NoAnswer,
         Device!Modes, Modes
<1>2. /\ IInv => ~tainted
      /\ IInv' => ~tainted'
  BY DEF IInv, TaintInv
<1>3. IInv /\ IInv' /\ [Next]_vars => [Device!Next]_(Device!vars)
  BY <1>2, DeviceStep
<1> QED
  BY <1>1, <1>3, Inductive, PTL DEF Spec, DeviceSpec, Device!Spec

(* What the callers see with ambiguous transfers and register writes: the   *)
(* abstract device, until the chip was given work nobody waits for.         *)
THEOREM DeviceStepsAlways == Spec => DeviceSteps
<1>1. [Next]_vars /\ ~tainted' /\ IInv => ~tainted
  <2> SUFFICES ASSUME [Next]_vars, tainted, IInv PROVE tainted'
    BY DEF IInv, TypeOK
  <2> USE DEF boundVars, holderKeeps
  <2>1. ASSUME NEW c \in Clients, Call(c) \/ Acquire(c) \/ Interrupted(c)
        PROVE  tainted'
    BY <2>1 DEF Call, Acquire, Interrupted
  <2>2. ASSUME NEW o, \/ ReadMode(o) \/ WriteAddr(o) \/ ReadData(o)
                      \/ SetWren(o) \/ Go(o)
        PROVE  tainted'
    BY <2>2 DEF ReadMode, WriteAddr, ReadData, SetWren, Go
  <2>3. CASE Start \/ Begin \/ ReqFail \/ Wait \/ Done \/ Fail \/ Unlock
    BY <2>3 DEF Start, Begin, ReqFail, Wait, Done, Fail, Unlock
  <2>4. CASE Handler
    BY <2>4 DEF Handler, Handle, WakeUp
  <2>5. CASE Chip
    BY <2>5 DEF Chip, Finish
  <2>6. CASE RawWrite \/ UNCHANGED vars
    BY <2>6 DEF RawWrite, vars
  <2> QED
    BY <2>1, <2>2, <2>3, <2>4, <2>5, <2>6 DEF Next, Holder
<1>2. IInv /\ [Next]_vars => [tainted' \/ Device!Next]_(Device!vars)
  BY <1>1, DeviceStep
<1> QED
  BY <1>2, Inductive, PTL DEF Spec, DeviceSteps

-----------------------------------------------------------------------------
(* A device that refuses is left by no step.                                *)
LEMMA RefusingStep == LockInv /\ Refusing /\ [Next]_vars => Refusing'
<1> SUFFICES ASSUME LockInv, Refusing, [Next]_vars PROVE Refusing'
  OBVIOUS
<1> USE DEF Refusing, Pending, Accesses, Reads, callerVars, regVars, memVars,
            unitVars, boundVars, holderKeeps, Return, Goto
<1>1. ASSUME NEW c \in Clients, Call(c) \/ Acquire(c) \/ Interrupted(c)
      PROVE  Refusing'
  BY <1>1 DEF Call, Acquire, Interrupted
<1>2. ASSUME NEW o, \/ ReadMode(o) \/ WriteAddr(o) \/ ReadData(o)
                    \/ SetWren(o) \/ Go(o)
      PROVE  Refusing'
  BY <1>2 DEF ReadMode, WriteAddr, ReadData, SetWren, Go, LockInv
<1>3. CASE Start
  BY <1>3 DEF Start
<1>4. CASE Begin \/ ReqFail \/ Wait \/ Done \/ Fail \/ Unlock
  BY <1>4 DEF Begin, ReqFail, Wait, Done, Fail, Unlock, Exchange, Unexpected
<1>5. CASE Handler
  BY <1>5 DEF Handler, Handle, WakeUp, Woken
<1>6. CASE Chip
  BY <1>6 DEF Chip, Finish
<1>7. CASE RawWrite \/ UNCHANGED vars
  BY <1>7 DEF RawWrite, vars
<1> QED
  BY <1>1, <1>2, <1>3, <1>4, <1>5, <1>6, <1>7 DEF Next, Holder

(* A state word left DONE or FAILED makes every later write, erase, check   *)
(* and mode switch fail.                                                    *)
THEOREM RefusesForGoodAlways == Spec => RefusesForGood
<1>1. IInv /\ Refusing /\ [Next]_vars => Refusing'
  BY RefusingStep DEF IInv
<1> QED
  BY <1>1, Inductive, PTL DEF Spec, RefusesForGood

-----------------------------------------------------------------------------
(* The rank of the liveness argument: what is left to do becomes less.      *)
LEMMA StepsRunDown ==
    ASSUME TypeOK, LockInv, IsFiniteSet(running), [Next]_vars
    PROVE  \/ StepsLeft' < StepsLeft
           \/ StepsLeft' = StepsLeft
              /\ UNCHANGED <<pc, op_state, running, signals>>
           \/ pc = "none" /\ StepsLeft' = StepsLeft + 16
           \/ raw' = raw + 1 /\ StepsLeft' <= StepsLeft + 4
<1> DEFINE Less == StepsLeft' < StepsLeft
           Same == StepsLeft' = StepsLeft
                   /\ UNCHANGED <<pc, op_state, running, signals>>
           Taken == pc = "none" /\ StepsLeft' = StepsLeft + 16
           Written == raw' = raw + 1 /\ StepsLeft' <= StepsLeft + 4
           Jobs1 == Cardinality(running)
<1> SUFFICES Less \/ Same \/ Taken \/ Written
  OBVIOUS
<1>0. Jobs1 \in Nat
  BY FS_CardinalityType
<1> USE <1>0 DEF StepsLeft, StepsOfHolder, Count, callerVars, regVars, memVars,
                 unitVars, boundVars, holderKeeps, Return, Goto
<1>1. ASSUME NEW c \in Clients, Call(c) \/ Interrupted(c) PROVE Same
  BY <1>1 DEF Call, Interrupted
<1>2. ASSUME NEW c \in Clients, Acquire(c) PROVE Taken
  BY <1>2 DEF Acquire, LockInv
<1>3. ASSUME Start PROVE Less
  <2>1. pc = "start" /\ pc' \in {"unlock", "addr", "begin", "wren", "mode"}
        /\ UNCHANGED <<running, signals, handler>>
    BY <1>3 DEF Start
  <2> QED
    BY <2>1
<1>4. ASSUME NEW o, ReadMode(o) PROVE Less
  <2>1. pc = "mode" /\ pc' \in {"unlock", "begin"}
        /\ UNCHANGED <<running, signals, handler>>
    BY <1>4 DEF ReadMode
  <2> QED
    BY <2>1
<1>5. ASSUME NEW o, WriteAddr(o) PROVE Less
  <2>1. pc = "addr" /\ pc' \in {"unlock", "read", "go", "reqfail"}
        /\ UNCHANGED <<running, signals, handler>>
    BY <1>5 DEF WriteAddr
  <2> QED
    BY <2>1
<1>6. ASSUME NEW o, ReadData(o) \/ SetWren(o) PROVE Less
  <2>1. pc \in {"read", "wren"} /\ pc' = "unlock"
        /\ UNCHANGED <<running, signals, handler>>
    BY <1>6 DEF ReadData, SetWren
  <2> QED
    BY <2>1
<1>7. ASSUME NEW o, Go(o) PROVE Less
  <2>1. /\ pc = "go" /\ pc' \in {"wait", "reqfail"}
        /\ UNCHANGED <<signals, handler>>
        /\ running' = running \/ running' = running \cup {<<Job, "cur">>}
    BY <1>7 DEF Go
  <2>2. Cardinality(running') \in {Jobs1, Jobs1 + 1}
    BY <2>1, FS_AddElement
  <2> QED
    BY <2>1, <2>2
<1>8. ASSUME Begin \/ ReqFail \/ Wait \/ Done \/ Fail PROVE Less
  <2>1. /\ UNCHANGED <<running, signals, handler>>
        /\ \/ pc = "begin" /\ pc' \in {"addr", "go", "unlock"}
           \/ pc \in {"reqfail", "done", "fail"} /\ pc' = "unlock"
           \/ pc = "wait" /\ pc' \in {"asleep", "done", "fail"}
    BY <1>8 DEF Begin, ReqFail, Wait, Done, Fail, Exchange, Unexpected
  <2> QED
    BY <2>1
<1>9. ASSUME Unlock PROVE Less
  <2>1. Cardinality(running') \in Nat /\ Cardinality(running') <= Jobs1
    BY <1>9, Aged, FS_CardinalityType DEF Unlock, TypeOK
  <2>2. ASSUME NEW k \in {"complete", "error"}
        PROVE  /\ <<k, "cur">> \notin signals'
               /\ <<k, "old">> \in signals' =>
                     <<k, "cur">> \in signals \/ <<k, "old">> \in signals
    <3>1. \A s \in signals : s = <<s[1], "cur">> \/ s = <<s[1], "old">>
      BY DEF TypeOK, Tags
    <3> QED
      BY <1>9, <3>1 DEF Unlock
  <2>3. pc = "unlock" /\ pc' = "none" /\ handler' = handler
    BY <1>9 DEF Unlock
  <2> QED
    BY <2>1, <2>2, <2>3
<1>10. ASSUME NEW s \in {"complete", "error"} \X Tags, Handle(s) PROVE Less
  BY <1>10 DEF Handle, Tags
<1>11. ASSUME WakeUp PROVE Less
  BY <1>11 DEF WakeUp, Woken
<1>12. ASSUME NEW j \in Jobs \X Tags, Finish(j) PROVE Less
  <2>1. Cardinality(running') = Jobs1 - 1
    BY <1>12, FS_RemoveElement DEF Finish
  <2>2. PICK k \in {"complete", "error"} : signals' = signals \cup {<<k, j[2]>>}
    BY <1>12 DEF Finish
  <2>3. UNCHANGED <<pc, handler>>
    BY <1>12 DEF Finish
  <2> QED
    BY <2>1, <2>2, <2>3 DEF Tags
<1>13. ASSUME RawWrite PROVE Written
  <2>1. Cardinality(running') \in {Jobs1, Jobs1 + 1}
    BY <1>13, FS_AddElement DEF RawWrite
  <2>2. raw' = raw + 1 /\ UNCHANGED <<pc, handler, signals>>
    BY <1>13 DEF RawWrite
  <2> QED
    BY <2>1, <2>2
<1>14. ASSUME UNCHANGED vars PROVE Same
  BY <1>14 DEF vars
<1> HIDE DEF StepsLeft, StepsOfHolder, Count, Less, Same, Taken, Written
<1> QED
  BY <1>1, <1>2, <1>3, <1>4, <1>5, <1>6, <1>7, <1>8, <1>9, <1>10, <1>11, <1>12,
     <1>13, <1>14 DEF Next, Holder, Handler, Chip

(* Every ioctl runs down, whatever fails.                                   *)
THEOREM RunsDownAlways == Spec => RunsDown
<1>1. IInv /\ [Next]_vars =>
        [\/ StepsLeft' < StepsLeft
         \/ StepsLeft' = StepsLeft /\ UNCHANGED <<pc, op_state, running, signals>>
         \/ pc = "none" /\ StepsLeft' = StepsLeft + 16
         \/ raw' = raw + 1 /\ StepsLeft' <= StepsLeft + 4]_vars
  BY StepsRunDown DEF IInv
<1> QED
  BY <1>1, Inductive, PTL DEF Spec, RunsDown
=============================================================================

---------------------------- MODULE GencmdProofs ----------------------------
(***************************************************************************)
(* Theorems about Gencmd for any set of callers and any number of failing   *)
(* transfers: the inductive invariant, what follows from it, and that the   *)
(* command interface implements CommandChannel.                             *)
(***************************************************************************)
EXTENDS Gencmd, TLAPS

USE GencmdAssumption

LEMMA InitIInv == Init => IInv
<1> SUFFICES ASSUME Init PROVE IInv
  OBVIOUS
<1>1. TypeOK
  <2>1. result \in [Clients -> Codes]
    BY DEF Init, Codes
  <2>2. faults \in 0 .. MaxFaults /\ raw \in 0 .. MaxRaw
    BY DEF Init
  <2>3. data \in Contents
    BY DEF Init, Contents, Tags
  <2> QED
    BY <2>1, <2>2, <2>3 DEF Init, TypeOK, States, Codes
<1>2. LockInv /\ StateInv /\ NoLostWakeup /\ AwaitInv /\ CleanInv /\ TaintInv
  BY DEF Init, LockInv, StateInv, NoLostWakeup, AwaitInv, CleanInv, Nothing,
         TaintInv
<1> QED
  BY <1>1, <1>2 DEF IInv

(* A transfer respects the fault bound.                                     *)
LEMMA TransferType ==
    ASSUME faults \in 0 .. MaxFaults, NEW o, Transfer(o)
    PROVE  faults' \in 0 .. MaxFaults
BY DEF Transfer

(* Every step keeps every variable within its type.                         *)
LEMMA TypeStep == TypeOK /\ LockInv /\ [Next]_vars => TypeOK'
<1> SUFFICES ASSUME TypeOK, LockInv, [Next]_vars PROVE TypeOK'
  OBVIOUS
<1> USE TransferType DEF TypeOK, callerVars, chipVars, boundVars
<1>1. ASSUME NEW c \in Clients, Call(c) \/ Acquire(c) \/ Interrupted(c)
      PROVE  TypeOK'
  BY <1>1 DEF Call, Acquire, Interrupted, Codes
<1>2. CASE Start \/ ReqFail
  BY <1>2 DEF Start, ReqFail, SetState, States, Codes
<1>3. ASSUME NEW o, WriteData(o) PROVE TypeOK'
  BY <1>3 DEF WriteData, Contents, Tags
<1>4. ASSUME NEW o, WriteCtrl(o) PROVE TypeOK'
  BY <1>4 DEF WriteCtrl, Tags
<1>5. CASE Wait
  BY <1>5 DEF Wait, Codes
<1>6. CASE Done \/ Fail
  BY <1>6 DEF Done, Fail, SetState, States, Codes
<1>7. ASSUME NEW o, ReadAnswer(o) PROVE TypeOK'
  BY <1>7 DEF ReadAnswer, Codes
<1>8. CASE Unlock
  <2>1. signals' \subseteq Signals /\ running' \subseteq Tags
    BY <1>8 DEF Unlock, Signals, Tags
  <2>2. data' \in Contents
    BY <1>8 DEF Unlock, Contents, Tags
  <2> QED
    BY <1>8, <2>1, <2>2 DEF Unlock, LockInv, Codes
<1>9. ASSUME NEW s \in Signals, Handle(s) PROVE TypeOK'
  BY <1>9 DEF Handle, States
<1>10. CASE WakeUp
  BY <1>10 DEF WakeUp
<1>11. ASSUME NEW t \in Tags, Finish(t) PROVE TypeOK'
  BY <1>11 DEF Finish, Signals, Contents
<1>12. CASE RawWrite
  <2>1. raw' \in 0 .. MaxRaw
    BY <1>12 DEF RawWrite
  <2>2. running' \subseteq Tags
    BY <1>12 DEF RawWrite, Tags
  <2>3. data' \in Contents
    <3>1. <<"input", "old">> \in Contents
      BY DEF Contents, Tags
    <3> QED
      BY <1>12, <3>1 DEF RawWrite
  <2> QED
    BY <1>12, <2>1, <2>2, <2>3 DEF RawWrite
<1>13. CASE UNCHANGED vars
  BY <1>13 DEF vars
<1> QED
  BY <1>1, <1>2, <1>3, <1>4, <1>5, <1>6, <1>7, <1>8, <1>9, <1>10, <1>11, <1>12,
     <1>13 DEF Next, Holder, Handler

-----------------------------------------------------------------------------
(* The lock and the state word, whatever fails or comes late.               *)
LEMMA StateStep ==
    TypeOK /\ LockInv /\ StateInv /\ TaintInv /\ [Next]_vars
      => (LockInv /\ StateInv /\ TaintInv)'
<1> DEFINE Inv == LockInv /\ StateInv /\ TaintInv
<1> SUFFICES ASSUME TypeOK, Inv, [Next]_vars PROVE Inv'
  OBVIOUS
<1> USE DEF LockInv, StateInv, TaintInv, callerVars, chipVars,
            boundVars
<1>1. ASSUME NEW c \in Clients, Call(c) \/ Acquire(c) \/ Interrupted(c)
      PROVE  Inv'
  BY <1>1 DEF Call, Acquire, Interrupted
<1>2. CASE Start \/ ReqFail \/ Done \/ Fail
  BY <1>2 DEF Start, ReqFail, Done, Fail, SetState
<1>3. ASSUME NEW o, WriteData(o) \/ ReadAnswer(o) PROVE Inv'
  BY <1>3 DEF WriteData, ReadAnswer
<1>4. ASSUME NEW o, WriteCtrl(o) PROVE Inv'
  BY <1>4 DEF WriteCtrl, Transfer
<1>5. CASE Wait
  BY <1>5 DEF Wait, TypeOK, States
<1>6. CASE Unlock
  BY <1>6 DEF Unlock, TypeOK
<1>7. ASSUME NEW s \in Signals, Handle(s) PROVE Inv'
  BY <1>7 DEF Handle
<1>8. CASE WakeUp
  BY <1>8 DEF WakeUp
<1>9. ASSUME NEW t \in Tags, Finish(t) PROVE Inv'
  BY <1>9 DEF Finish
<1>10. CASE RawWrite
  BY <1>10 DEF RawWrite, TypeOK
<1>11. CASE UNCHANGED vars
  BY <1>11 DEF vars
<1> QED
  BY <1>1, <1>2, <1>3, <1>4, <1>5, <1>6, <1>7, <1>8, <1>9, <1>10, <1>11
     DEF Next, Holder, Handler

-----------------------------------------------------------------------------
(* The end of the holder's own command stays in sight, and so does its      *)
(* wake-up, whatever earlier commands still cause.                          *)
LEMMA AwaitStep ==
    TypeOK /\ NoLostWakeup /\ AwaitInv /\ [Next]_vars
      => (NoLostWakeup /\ AwaitInv)'
<1> DEFINE Inv == NoLostWakeup /\ AwaitInv
<1> SUFFICES ASSUME TypeOK, Inv, [Next]_vars PROVE Inv'
  OBVIOUS
<1> USE DEF NoLostWakeup, AwaitInv, EndInSight, callerVars, chipVars, boundVars
<1>1. ASSUME NEW c \in Clients, Call(c) \/ Acquire(c) \/ Interrupted(c)
      PROVE  Inv'
  BY <1>1 DEF Call, Acquire, Interrupted
<1>2. CASE Start \/ ReqFail \/ Done \/ Fail \/ Unlock
  BY <1>2 DEF Start, ReqFail, Done, Fail, Unlock, SetState
<1>3. ASSUME NEW o, WriteData(o) \/ ReadAnswer(o) PROVE Inv'
  BY <1>3 DEF WriteData, ReadAnswer
<1>4. ASSUME NEW o, WriteCtrl(o) PROVE Inv'
  BY <1>4 DEF WriteCtrl, Acts
<1>5. CASE Wait
  BY <1>5 DEF Wait, TypeOK, States
<1>6. ASSUME NEW s \in Signals, Handle(s) PROVE Inv'
  BY <1>6 DEF Handle
<1>7. CASE WakeUp
  BY <1>7 DEF WakeUp
<1>8. ASSUME NEW t \in Tags, Finish(t) PROVE Inv'
  <2>1. EndInSight => EndInSight'
    <3>1. CASE t = "cur"
      <4>1. <<"complete", "cur">> \in signals' \/ <<"error", "cur">> \in signals'
        BY <1>8, <3>1 DEF Finish
      <4> QED
        BY <4>1
    <3>2. CASE t # "cur"
      BY <1>8, <3>2 DEF Finish
    <3> QED
      BY <3>1, <3>2
  <2> QED
    BY <1>8, <2>1 DEF Finish
<1>9. CASE RawWrite
  BY <1>9 DEF RawWrite
<1>10. CASE UNCHANGED vars
  BY <1>10 DEF vars
<1> QED
  BY <1>1, <1>2, <1>3, <1>4, <1>5, <1>6, <1>7, <1>8, <1>9, <1>10
     DEF Next, Holder, Handler

-----------------------------------------------------------------------------
(* Without a command nobody waits for, the holder's progress, the state     *)
(* word and the chip move through the command together.                     *)
LEMMA CleanStep ==
    TypeOK /\ LockInv /\ StateInv /\ CleanInv /\ [Next]_vars => CleanInv'
<1> SUFFICES ASSUME TypeOK, LockInv, StateInv, CleanInv, [Next]_vars, ~tainted'
             PROVE  CleanInv'
  BY DEF CleanInv
<1> USE DEF CleanInv, Nothing, Executing, Signalled, Answered, callerVars,
            chipVars, boundVars
<1>1. ASSUME NEW c \in Clients, Call(c) \/ Acquire(c) \/ Interrupted(c)
      PROVE  CleanInv'
  BY <1>1 DEF Call, Acquire, Interrupted, LockInv
<1>2. CASE Start \/ ReqFail
  BY <1>2 DEF Start, ReqFail, SetState
<1>3. ASSUME NEW o, WriteData(o) PROVE CleanInv'
  BY <1>3 DEF WriteData
<1>4. ASSUME NEW o, WriteCtrl(o) PROVE CleanInv'
  BY <1>4 DEF WriteCtrl, Transfer, Acts
<1>5. CASE Wait
  BY <1>5 DEF Wait
<1>6. CASE Done \/ Fail
  BY <1>6 DEF Done, Fail, SetState, StateInv
<1>7. ASSUME NEW o, ReadAnswer(o) PROVE CleanInv'
  BY <1>7 DEF ReadAnswer, StateInv
<1>8. CASE Unlock
  BY <1>8 DEF Unlock
<1>9. ASSUME NEW s \in Signals, Handle(s) PROVE CleanInv'
  BY <1>9 DEF Handle, TypeOK
<1>10. CASE WakeUp
  BY <1>10 DEF WakeUp
<1>11. ASSUME NEW t \in Tags, Finish(t) PROVE CleanInv'
  BY <1>11 DEF Finish, TypeOK
<1>12. CASE RawWrite
  BY <1>12 DEF RawWrite
<1>13. CASE UNCHANGED vars
  BY <1>13 DEF vars
<1> QED
  BY <1>1, <1>2, <1>3, <1>4, <1>5, <1>6, <1>7, <1>8, <1>9, <1>10, <1>11, <1>12,
     <1>13 DEF Next, Holder, Handler

-----------------------------------------------------------------------------
(* IInv is an invariant of the specification.                               *)
THEOREM Inductive == Spec => []IInv
<1>1. IInv /\ [Next]_vars => IInv'
  BY TypeStep, StateStep, AwaitStep, CleanStep DEF IInv
<1> QED
  BY InitIInv, <1>1, PTL DEF Spec

(* Type correctness of the state word, the locals and the chip's registers. *)
THEOREM TypeCorrect == Spec => []TypeOK
BY Inductive, PTL DEF IInv

(* No request finds the state word in another state than IDLE, unless the   *)
(* chip was made to run a command nobody waits for.                         *)
THEOREM FreeMeansIdleAlways == Spec => []FreeMeansIdle
<1>1. IInv => FreeMeansIdle
  BY DEF IInv, LockInv, CleanInv, FreeMeansIdle
<1> QED
  BY Inductive, <1>1, PTL

(* Without condition: an unlocked channel is never PENDING.                 *)
THEOREM NeverPendingUnlockedAlways == Spec => []NeverPendingUnlocked
<1>1. IInv => NeverPendingUnlocked
  BY DEF IInv, LockInv, StateInv, NeverPendingUnlocked
<1> QED
  BY Inductive, <1>1, PTL

(* Without condition: a sleeping holder has the end of its own command      *)
(* before it, or the wake-up.                                               *)
THEOREM NoLostWakeupAlways == Spec => []NoLostWakeup
BY Inductive, PTL DEF IInv

(* One command at a time, and no signal outlives its request.               *)
THEOREM OneCommandAlways == Spec => []OneCommand
<1>1. IInv => OneCommand
  <2> SUFFICES ASSUME IInv, ~tainted PROVE OneCommand
    BY DEF OneCommand
  <2>1. \/ Nothing \/ Executing \/ Signalled
    BY DEF IInv, TypeOK, CleanInv, Answered
  <2> QED
    BY <2>1 DEF OneCommand, Nothing, Executing, Signalled
<1> QED
  BY Inductive, <1>1, PTL

(* A caller is told what the chip made of its own command.                  *)
THEOREM OwnAnswerAlways == Spec => []OwnAnswer
<1>1. IInv => OwnAnswer
  BY DEF IInv, CleanInv, OwnAnswer
<1> QED
  BY Inductive, <1>1, PTL

-----------------------------------------------------------------------------
(* Every step of the implementation is a step of the abstract channel or    *)
(* changes nothing the callers see.                                         *)
LEMMA ChannelStep ==
    IInv /\ ~tainted /\ [Next]_vars => [Channel!Next]_(Channel!vars)
<1> SUFFICES ASSUME IInv, ~tainted, [Next]_vars
             PROVE  [Channel!Next]_(Channel!vars)
  OBVIOUS
<1> USE DEF IInv, LockInv, callerVars, chipVars, boundVars, Channel!Next,
            Channel!vars
<1>1. ASSUME NEW c \in Clients, Call(c) PROVE Channel!Ask(c)
  BY <1>1 DEF Call, Channel!Ask
<1>2. ASSUME NEW c \in Clients, Acquire(c) PROVE Channel!Serve(c)
  BY <1>2 DEF Acquire, Channel!Serve
<1>3. ASSUME NEW c \in Clients, Interrupted(c) PROVE Channel!GiveUp(c)
  BY <1>3 DEF Interrupted, Channel!GiveUp
<1>4. CASE Unlock
  <2>1. rc \in Channel!Replies(outcome)
    BY <1>4 DEF Unlock, CleanInv, Channel!Replies
  <2>2. Channel!Reply
    BY <1>4, <2>1 DEF Unlock, Channel!Reply
  <2> QED
    BY <2>2
<1>5. ASSUME NEW t \in Tags, Finish(t) PROVE Channel!Next
  <2>1. t = "cur" /\ outcome = "none" /\ gencmd_lock # NoClient
    <3>1. Executing
      BY <1>5 DEF Finish, CleanInv, TypeOK, Nothing, Signalled, Answered
    <3> QED
      BY <1>5, <3>1 DEF Finish, Executing, CleanInv, Nothing, TypeOK
  <2>2. Channel!Execute
    BY <1>5, <2>1 DEF Finish, Channel!Execute
  <2> QED
    BY <2>2
<1>6. CASE Start \/ ReqFail \/ Wait \/ Done \/ Fail
  BY <1>6 DEF Start, ReqFail, Wait, Done, Fail
<1>7. ASSUME NEW o, WriteData(o) \/ WriteCtrl(o) \/ ReadAnswer(o)
      PROVE  UNCHANGED Channel!vars
  BY <1>7 DEF WriteData, WriteCtrl, ReadAnswer
<1>8. CASE Handler
  BY <1>8 DEF Handler, Handle, WakeUp
<1>9. CASE RawWrite
  BY <1>9 DEF RawWrite
<1>10. CASE UNCHANGED vars
  BY <1>10 DEF vars
<1> QED
  BY <1>1, <1>2, <1>3, <1>4, <1>5, <1>6, <1>7, <1>8, <1>9, <1>10
     DEF Next, Holder

(* The command interface implements the abstract channel, as long as no     *)
(* register write bypasses the driver and a transfer that is reported       *)
(* failed had no effect on the chip.                                        *)
THEOREM ImplementsChannel ==
    ASSUME MaxRaw = 0, "applied" \notin FaultKinds
    PROVE  Spec => ChannelSpec
<1>1. Init => Channel!Init
  BY DEF Init, Channel!Init
<1>2. IInv => ~tainted
  BY DEF IInv, TaintInv
<1>3. IInv /\ [Next]_vars => [Channel!Next]_(Channel!vars)
  BY <1>2, ChannelStep
<1> QED
  BY <1>1, <1>3, Inductive, PTL DEF Spec, ChannelSpec, Channel!Spec

(* Any faults and register writes: up to the first command nobody waits for *)
(* callers see the abstract channel.                                        *)
THEOREM ChannelStepsAlways == Spec => ChannelSteps
<1>1. IInv /\ [Next]_vars => [tainted \/ Channel!Next]_(Channel!vars)
  BY ChannelStep
<1> QED
  BY <1>1, Inductive, PTL DEF Spec, ChannelSteps

-----------------------------------------------------------------------------
(* A refusing channel is left by no step.                                   *)
LEMMA RefusingStep == Refusing /\ [Next]_vars => Refusing'
<1> SUFFICES ASSUME Refusing, [Next]_vars PROVE Refusing'
  OBVIOUS
<1> USE DEF Refusing, callerVars, chipVars, boundVars
<1>1. ASSUME NEW c \in Clients, Call(c) \/ Acquire(c) \/ Interrupted(c)
      PROVE  Refusing'
  BY <1>1 DEF Call, Acquire, Interrupted
<1>2. CASE Holder
  BY <1>2 DEF Holder, Start, WriteData, WriteCtrl, ReqFail, Wait, Done, ReadAnswer,
              Fail, Unlock, SetState
<1>3. CASE Handler
  BY <1>3 DEF Handler, Handle, WakeUp
<1>4. ASSUME NEW t \in Tags, Finish(t) PROVE Refusing'
  BY <1>4 DEF Finish
<1>5. CASE RawWrite \/ UNCHANGED vars
  BY <1>5 DEF RawWrite, vars
<1> QED
  BY <1>1, <1>2, <1>3, <1>4, <1>5 DEF Next

(* Once left DONE or FAILED, the state word makes every later call fail.    *)
THEOREM RefusesForGoodAlways == Spec => RefusesForGood
BY RefusingStep, PTL DEF Spec, RefusesForGood

-----------------------------------------------------------------------------
(* The rank of the liveness argument: what is left to do becomes less.      *)

LEMMA StepsRunDown ==
    ASSUME TypeOK, LockInv, [Next]_vars
    PROVE  \/ StepsLeft' < StepsLeft
           \/ StepsLeft' = StepsLeft
              /\ UNCHANGED <<pc, gencmd_state, running, signals>>
           \/ pc = "none" /\ StepsLeft' = StepsLeft + 14
           \/ raw' = raw + 1 /\ StepsLeft' <= StepsLeft + 4
<1> DEFINE Less == StepsLeft' < StepsLeft
           Same == StepsLeft' = StepsLeft
                   /\ UNCHANGED <<pc, gencmd_state, running, signals>>
           Taken == pc = "none" /\ StepsLeft' = StepsLeft + 14
           Written == raw' = raw + 1 /\ StepsLeft' <= StepsLeft + 4
<1> SUFFICES Less \/ Same \/ Taken \/ Written
  OBVIOUS
<1> USE DEF TypeOK, StepsLeft, StepsOfHolder, Count, callerVars, chipVars, boundVars
<1>1. ASSUME NEW c \in Clients, Call(c) \/ Interrupted(c)
      PROVE  Same
  BY <1>1 DEF Call, Interrupted
<1>2. ASSUME NEW c \in Clients, Acquire(c)
      PROVE  Taken
  BY <1>2 DEF Acquire, LockInv
<1>3. ASSUME Start \/ ReqFail \/ Wait \/ Done \/ Fail PROVE Less
  BY <1>3 DEF Start, ReqFail, Wait, Done, Fail, SetState
<1>4. ASSUME NEW o, WriteData(o) \/ ReadAnswer(o) PROVE Less
  BY <1>4 DEF WriteData, ReadAnswer
<1>5. ASSUME NEW o, WriteCtrl(o) PROVE Less
  BY <1>5 DEF WriteCtrl
<1>6. ASSUME Unlock PROVE Less
  <2>1. "cur" \notin running' /\ ("old" \in running' => running # {})
    BY <1>6 DEF Unlock
  <2>2. running # {} => "cur" \in running \/ "old" \in running
    BY DEF Tags
  <2>3. ASSUME NEW k \in {"complete", "error"}
        PROVE  /\ <<k, "cur">> \notin signals'
               /\ <<k, "old">> \in signals' =>
                     <<k, "cur">> \in signals \/ <<k, "old">> \in signals
    <3>1. \A s \in signals : s = <<s[1], "cur">> \/ s = <<s[1], "old">>
      BY DEF Signals, Tags
    <3> QED
      BY <1>6, <3>1 DEF Unlock
  <2>4. pc = "unlock" /\ pc' = "none" /\ handler' = handler
    BY <1>6 DEF Unlock
  <2> QED
    BY <2>1, <2>2, <2>3, <2>4
<1>7. ASSUME NEW s \in Signals, Handle(s) PROVE Less
  BY <1>7 DEF Handle, Signals, Tags
<1>8. ASSUME WakeUp PROVE Less
  BY <1>8 DEF WakeUp
<1>9. ASSUME NEW t \in Tags, Finish(t) PROVE Less
  BY <1>9 DEF Finish, Tags
<1>10. ASSUME RawWrite PROVE Written
  BY <1>10 DEF RawWrite
<1>11. ASSUME UNCHANGED vars PROVE Same
  BY <1>11 DEF vars
<1> HIDE DEF TypeOK, StepsLeft, StepsOfHolder, Count, Less, Same, Taken, Written
<1> QED
  BY <1>1, <1>2, <1>3, <1>4, <1>5, <1>6, <1>7, <1>8, <1>9, <1>10, <1>11
     DEF Next, Holder, Handler

(* Every call runs down, whatever fails.                                    *)
THEOREM RunsDownAlways == Spec => RunsDown
<1>1. IInv /\ [Next]_vars =>
        [\/ StepsLeft' < StepsLeft
         \/ StepsLeft' = StepsLeft
            /\ UNCHANGED <<pc, gencmd_state, running, signals>>
         \/ pc = "none" /\ StepsLeft' = StepsLeft + 14
         \/ raw' = raw + 1 /\ StepsLeft' <= StepsLeft + 4]_vars
  BY StepsRunDown DEF IInv
<1> QED
  BY <1>1, Inductive, PTL DEF Spec, RunsDown
=============================================================================

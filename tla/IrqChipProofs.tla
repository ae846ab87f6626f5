--------------------------- MODULE IrqChipProofs ---------------------------
(***************************************************************************)
(* Theorems about IrqChip for any number of interrupts, any choice of the  *)
(* error interrupts and any number of failing transfers.  Each conjunct of *)
(* the inductive invariant IInv has a lemma of its own; they meet in        *)
(* Inductive, and the properties follow.                                    *)
(***************************************************************************)
EXTENDS IrqChip, FiniteSetTheorems, TLAPS

(* What the proofs need of the range of hwirqs and of the bits.             *)
LEMMA IrqRange ==
    /\ 0 \in Irqs
    /\ \A i \in Irqs : i \in Nat
    /\ \A i \in Irqs : i + 1 < IrqCount => i + 1 \in Irqs
    /\ ErrorIrqs \subseteq Irqs
    /\ ErrBit \notin Irqs /\ NoIrq \notin Irqs
    /\ MaxFaults \in Nat
BY IrqAssumption DEF Irqs

USE IrqRange DEF PlainIrqs, IfgBits

(* The initial states satisfy the inductive invariant.                      *)
LEMMA InitIInv == Init => IInv
<1>1. SUFFICES ASSUME Init PROVE IInv
  OBVIOUS
<1>2. TypeOK
  <2>1. /\ mask_requested \in [Irqs -> BOOLEAN]
        /\ mask_current \in [Irqs -> BOOLEAN]
        /\ wake_on \in [Irqs -> BOOLEAN]
    BY <1>1 DEF Init, NoMask
  <2>2. /\ phase \in Phases /\ step \in Steps
        /\ irq_requested \in BOOLEAN /\ edge \in BOOLEAN
    BY <1>1 DEF Init, Phases, Steps
  <2>3. /\ index \in Irqs /\ faults \in 0 .. MaxFaults
        /\ wake_count \in Int /\ parent_wake \in Int
    BY <1>1 DEF Init
  <2> QED
    BY <1>1, <2>1, <2>2, <2>3 DEF Init, TypeOK, NoneStale
<1>3. BusInv /\ IeInv /\ StaleInv
  BY <1>1 DEF Init, BusInv, IeInv, StaleInv, Running, NoneStale
<1>4. LineInv /\ OwedInv
  BY <1>1 DEF Init, LineInv, LineNeverStuck, OwedInv, Running
<1>5. {i \in Irqs : wake_on[i]} = {}
  BY <1>1 DEF Init, NoMask
<1>6. WakeInv
  BY <1>1, <1>5, FS_EmptySet DEF Init, WakeInv
<1> QED
  BY <1>2, <1>3, <1>4, <1>6 DEF IInv

(* A transfer respects the fault bound, and the latch stays a Boolean.      *)
LEMMA TransferType ==
    ASSUME faults \in 0 .. MaxFaults, NEW o, Transfer(o)
    PROVE  faults' \in 0 .. MaxFaults
BY DEF Transfer

LEMMA LatchType ==
    ASSUME edge \in BOOLEAN, LatchEdge
    PROVE  edge' \in BOOLEAN
BY DEF LatchEdge

(* Every step keeps every variable within its type.                         *)
LEMMA TypeStep == TypeOK /\ BusInv /\ [Next]_vars => TypeOK'
<1> SUFFICES ASSUME TypeOK, BusInv, [Next]_vars PROVE TypeOK'
  OBVIOUS
<1> USE TransferType, LatchType
        DEF TypeOK, Phases, Steps, NoMask, chipVars, maskVars, wakeVars,
            busVars, threadVars, histVars, NoneStale
<1>1. ASSUME NEW i \in Irqs, BusLock(i) PROVE TypeOK'
  BY <1>1 DEF BusLock
<1>2. CASE Enable
  BY <1>2 DEF Enable
<1>3. CASE Disable
  BY <1>3 DEF Disable
<1>4. ASSUME NEW on \in BOOLEAN, SetWake(on) PROVE TypeOK'
  <2>1. wake_count' \in Int
    BY <1>4 DEF SetWake
  <2>2. wake_on' \in [Irqs -> BOOLEAN]
    BY <1>4 DEF SetWake
  <2> QED
    BY <1>4, <2>1, <2>2 DEF SetWake
<1>5. CASE SyncMasks
  BY <1>5 DEF SyncMasks
<1>6. ASSUME NEW o \in Outcomes, SyncDisable(o) PROVE TypeOK'
  BY <1>6 DEF SyncDisable, WriteIE
<1>7. ASSUME NEW o \in Outcomes, SyncEnable(o) PROVE TypeOK'
  BY <1>7 DEF SyncEnable, WriteIE
<1>8. CASE SyncWakeUnlock
  BY <1>8 DEF SyncWakeUnlock
<1>9. CASE ThreadStart
  BY <1>9 DEF ThreadStart
<1>10. ASSUME NEW o \in Outcomes, ReadIfg(o) PROVE TypeOK'
  <2>1. CASE o = "ok"
    BY <1>10, <2>1 DEF ReadIfg
  <2>2. CASE o # "ok"
    BY <1>10, <2>2 DEF ReadIfg, Return
  <2> QED
    BY <2>1, <2>2
<1>11. ASSUME NEW o \in Outcomes, ReadErr(o) PROVE TypeOK'
  <2>1. CASE o = "ok"
    BY <1>11, <2>1 DEF ReadErr
  <2>2. CASE o # "ok"
    BY <1>11, <2>2 DEF ReadErr, Return
  <2> QED
    BY <2>1, <2>2
<1>12. CASE Dispatch
  <2>1. stale' \in [chip : SUBSET Irqs, copy : SUBSET Irqs]
    BY <1>12 DEF Dispatch
  <2>2. CASE index + 1 < IrqCount
    <3>1. /\ index' = index + 1 /\ index' \in Irqs /\ owed' \subseteq Irqs
          /\ UNCHANGED <<thread, ifg_value, err_value>>
      BY <1>12, <2>2 DEF Dispatch
    <3> QED
      BY <1>12, <2>1, <3>1 DEF Dispatch
  <2>3. CASE ~(index + 1 < IrqCount)
    <3>1. /\ thread' = "idle" /\ ifg_value' = {} /\ err_value' = {}
          /\ index' = 0 /\ owed' \subseteq Irqs
      BY <1>12, <2>3 DEF Dispatch, Return
    <3>2. UNCHANGED <<chipVars, maskVars, wakeVars, busVars, ie, ifg, err, edge,
                      faults, dirty, read_fault>>
      BY <1>12 DEF Dispatch
    <3> QED
      BY <2>1, <3>1, <3>2
  <2> QED
    BY <2>2, <2>3
<1>13. CASE Remove \/ FreeIrq \/ DisposeChip
  <2>1. NoneStale \in [chip : SUBSET Irqs, copy : SUBSET Irqs]
    OBVIOUS
  <2>2. CASE Remove \/ FreeIrq
    BY <2>2 DEF Remove, FreeIrq
  <2> HIDE DEF NoneStale
  <2>3. CASE DisposeChip
    BY <2>1, <2>3 DEF DisposeChip
  <2> QED
    BY <1>13, <2>2, <2>3
<1>20. CASE AddChip
  BY <1>20 DEF AddChip
<1>21. CASE RequestIrq
  BY <1>21 DEF RequestIrq
<1>14. ASSUME NEW o \in Outcomes, InitClearIE(o) PROVE TypeOK'
  BY <1>14 DEF InitClearIE, InitTransfer
<1>15. ASSUME NEW o \in Outcomes, InitReadIfg(o) PROVE TypeOK'
  BY <1>15 DEF InitReadIfg, InitTransfer
<1>16. ASSUME NEW o \in Outcomes, InitReadErr(o) PROVE TypeOK'
  BY <1>16 DEF InitReadErr, InitTransfer
<1>17. ASSUME NEW o \in Outcomes, InitSetIE(o) PROVE TypeOK'
  BY <1>17 DEF InitSetIE, InitTransfer
<1>18. ASSUME NEW i \in Irqs, Raise(i) PROVE TypeOK'
  BY <1>18 DEF Raise
<1>19. CASE UNCHANGED vars
  BY <1>19 DEF vars
<1> QED
  BY <1>1, <1>2, <1>3, <1>4, <1>5, <1>6, <1>7, <1>8, <1>9, <1>10, <1>11, <1>12,
     <1>13, <1>14, <1>15, <1>16, <1>17, <1>18, <1>19, <1>20, <1>21
     DEF Next, Consumer, Thread, Lifecycle

-----------------------------------------------------------------------------
(* The bus lock and the masks: only the owner's operation moves the step,   *)
(* and the loop over the masks brings the two together again.               *)
LEMMA BusStep == TypeOK /\ BusInv /\ [Next]_vars => BusInv'
<1> SUFFICES ASSUME TypeOK, BusInv, [Next]_vars PROVE BusInv'
  OBVIOUS
<1> USE DEF TypeOK, BusInv, chipVars, maskVars, wakeVars, busVars
<1>1. ASSUME NEW i \in Irqs, BusLock(i) PROVE BusInv'
  BY <1>1 DEF BusLock
<1>2. CASE Enable \/ Disable
  BY <1>2 DEF Enable, Disable
<1>3. ASSUME NEW on \in BOOLEAN, SetWake(on) PROVE BusInv'
  BY <1>3 DEF SetWake
<1>4. CASE SyncMasks
  BY <1>4 DEF SyncMasks
<1>5. ASSUME NEW o \in Outcomes, SyncDisable(o) PROVE BusInv'
  BY <1>5 DEF SyncDisable
<1>6. ASSUME NEW o \in Outcomes, SyncEnable(o) PROVE BusInv'
  BY <1>6 DEF SyncEnable
<1>7. CASE SyncWakeUnlock
  BY <1>7 DEF SyncWakeUnlock
<1>8. CASE AddChip
  BY <1>8 DEF AddChip
<1>9. CASE RequestIrq \/ Remove \/ FreeIrq \/ DisposeChip
  BY <1>9 DEF RequestIrq, Remove, FreeIrq, DisposeChip
<1>10. ASSUME NEW o \in Outcomes,
              InitClearIE(o) \/ InitReadIfg(o) \/ InitReadErr(o) \/ InitSetIE(o)
       PROVE  BusInv'
  BY <1>10 DEF InitClearIE, InitReadIfg, InitReadErr, InitSetIE, InitTransfer
<1>11. CASE Thread
  BY <1>11 DEF Thread, ThreadStart, ReadIfg, ReadErr, Dispatch
<1>12. ASSUME NEW i \in Irqs, Raise(i) PROVE BusInv'
  BY <1>12 DEF Raise
<1>13. CASE UNCHANGED vars
  BY <1>13 DEF vars
<1> QED
  BY <1>1, <1>2, <1>3, <1>4, <1>5, <1>6, <1>7, <1>8, <1>9, <1>10, <1>11, <1>12,
     <1>13 DEF Next, Consumer, Lifecycle

-----------------------------------------------------------------------------
(* IE: initialisation empties it and sets the summary bit, and each of the  *)
(* two writes of a sync closes its part of the gap the masks opened.        *)
LEMMA IeStep == TypeOK /\ BusInv /\ IeInv /\ [Next]_vars => IeInv'
<1> SUFFICES ASSUME TypeOK, BusInv, IeInv, [Next]_vars PROVE IeInv'
  OBVIOUS
<1> USE DEF BusInv, IeInv, Running, chipVars, maskVars, wakeVars, busVars,
            histVars
<1>1. ASSUME NEW i \in Irqs, BusLock(i) PROVE IeInv'
  BY <1>1 DEF BusLock
<1>2. CASE Enable \/ Disable
  BY <1>2 DEF Enable, Disable
<1>3. ASSUME NEW on \in BOOLEAN, SetWake(on) PROVE IeInv'
  BY <1>3 DEF SetWake
<1>4. CASE SyncMasks
  BY <1>4 DEF SyncMasks, TypeOK
<1>5. ASSUME NEW o \in Outcomes, SyncDisable(o) PROVE IeInv'
  <2>1. CASE disable_mask = {}
    BY <1>5, <2>1 DEF SyncDisable
  <2>2. CASE disable_mask # {}
    BY <1>5, <2>2 DEF SyncDisable, WriteIE, Acts, TypeOK
  <2> QED
    BY <2>1, <2>2
<1>6. ASSUME NEW o \in Outcomes, SyncEnable(o) PROVE IeInv'
  <2>1. CASE enable_mask = {}
    BY <1>6, <2>1 DEF SyncEnable
  <2>2. CASE enable_mask # {}
    BY <1>6, <2>2 DEF SyncEnable, WriteIE, Acts, TypeOK
  <2> QED
    BY <2>1, <2>2
<1>7. CASE SyncWakeUnlock
  BY <1>7 DEF SyncWakeUnlock
<1>8. CASE AddChip \/ RequestIrq \/ Remove \/ FreeIrq \/ DisposeChip
  BY <1>8 DEF AddChip, RequestIrq, Remove, FreeIrq, DisposeChip
<1>9. ASSUME NEW o \in Outcomes, InitClearIE(o) PROVE IeInv'
  BY <1>9 DEF InitClearIE, InitTransfer, Acts
<1>10. ASSUME NEW o \in Outcomes, InitReadIfg(o) \/ InitReadErr(o)
       PROVE  IeInv'
  BY <1>10 DEF InitReadIfg, InitReadErr, InitTransfer
<1>11. ASSUME NEW o \in Outcomes, InitSetIE(o) PROVE IeInv'
  BY <1>11 DEF InitSetIE, InitTransfer, Acts, NoMask
<1>12. CASE Thread
  BY <1>12 DEF Thread, ThreadStart, ReadIfg, ReadErr, Dispatch
<1>13. ASSUME NEW i \in Irqs, Raise(i) PROVE IeInv'
  BY <1>13 DEF Raise
<1>14. CASE UNCHANGED vars
  BY <1>14 DEF vars
<1> QED
  BY <1>1, <1>2, <1>3, <1>4, <1>5, <1>6, <1>7, <1>8, <1>9, <1>10, <1>11, <1>12,
     <1>13, <1>14 DEF Next, Consumer, Lifecycle

-----------------------------------------------------------------------------
(* The line: LatchEdge records every fall of it, only ThreadStart takes an  *)
(* edge, and it hands over to a read of IFG.                                *)
LEMMA LineStep == TypeOK /\ BusInv /\ IeInv /\ LineInv /\ [Next]_vars => LineInv'
<1> SUFFICES ASSUME TypeOK, BusInv, IeInv, LineInv, [Next]_vars PROVE LineInv'
  OBVIOUS
<1> USE DEF LineInv, LineNeverStuck, Running, chipVars, maskVars, wakeVars,
            busVars, threadVars, histVars
<1>1. ASSUME NEW i \in Irqs, BusLock(i) PROVE LineInv'
  BY <1>1 DEF BusLock
<1>2. CASE Enable \/ Disable \/ SyncMasks \/ SyncWakeUnlock
  BY <1>2 DEF Enable, Disable, SyncMasks, SyncWakeUnlock
<1>3. ASSUME NEW on \in BOOLEAN, SetWake(on) PROVE LineInv'
  BY <1>3 DEF SetWake
<1>4. ASSUME NEW o \in Outcomes, SyncDisable(o) \/ SyncEnable(o) PROVE LineInv'
  BY <1>4 DEF SyncDisable, SyncEnable, LatchEdge
<1>5. CASE ThreadStart
  BY <1>5 DEF ThreadStart
<1>6. ASSUME NEW o \in Outcomes, ReadIfg(o) PROVE LineInv'
  BY <1>6 DEF ReadIfg, Return, LatchEdge, LineActive, Acts, Outcomes
<1>7. ASSUME NEW o \in Outcomes, ReadErr(o) PROVE LineInv'
  BY <1>7 DEF ReadErr, Return
<1>8. CASE Dispatch
  BY <1>8 DEF Dispatch, Return
<1>9. CASE AddChip \/ Remove \/ FreeIrq \/ DisposeChip
  BY <1>9 DEF AddChip, Remove, FreeIrq, DisposeChip
<1>10. CASE RequestIrq
  BY <1>10 DEF RequestIrq
<1>11. ASSUME NEW o \in Outcomes, InitClearIE(o) \/ InitReadIfg(o) \/ InitReadErr(o)
       PROVE  LineInv'
  BY <1>11 DEF InitClearIE, InitReadIfg, InitReadErr, InitTransfer
<1>12. ASSUME NEW o \in Outcomes, InitSetIE(o) PROVE LineInv'
  BY <1>12 DEF InitSetIE, InitTransfer, LatchEdge, LineActive, IeInv
<1>13. ASSUME NEW i \in Irqs, Raise(i) PROVE LineInv'
  BY <1>13 DEF Raise, LatchEdge
<1>14. CASE UNCHANGED vars
  BY <1>14 DEF vars
<1> QED
  BY <1>1, <1>2, <1>3, <1>4, <1>5, <1>6, <1>7, <1>8, <1>9, <1>10, <1>11, <1>12,
     <1>13, <1>14 DEF Next, Consumer, Thread, Lifecycle

-----------------------------------------------------------------------------
(* Owed events: reading IFG and ERR moves them into the thread's copies,    *)
(* the loop passes each of them with both masks set, and no write of IE     *)
(* clears the bit of an enabled interrupt.                                  *)
LEMMA OwedStep ==
    TypeOK /\ BusInv /\ IeInv /\ OwedInv /\ [Next]_vars => OwedInv'
<1> SUFFICES ASSUME TypeOK, BusInv, IeInv, OwedInv, [Next]_vars PROVE OwedInv'
  OBVIOUS
<1> USE DEF OwedInv, PlainPending, ErrorPending, chipVars, maskVars, wakeVars,
            busVars, threadVars, histVars
<1>1. ASSUME NEW i \in Irqs, BusLock(i) PROVE OwedInv'
  BY <1>1 DEF BusLock
<1>2. CASE Enable
  BY <1>2 DEF Enable, TypeOK
<1>3. CASE Disable
  BY <1>3 DEF Disable, TypeOK
<1>4. CASE SyncMasks \/ SyncWakeUnlock
  BY <1>4 DEF SyncMasks, SyncWakeUnlock
<1>5. ASSUME NEW on \in BOOLEAN, SetWake(on) PROVE OwedInv'
  BY <1>5 DEF SetWake
<1>6. ASSUME NEW o \in Outcomes, SyncDisable(o) PROVE OwedInv'
  BY <1>6 DEF SyncDisable, WriteIE, BusInv
<1>7. ASSUME NEW o \in Outcomes, SyncEnable(o) PROVE OwedInv'
  BY <1>7 DEF SyncEnable, WriteIE
<1>8. CASE ThreadStart
  BY <1>8 DEF ThreadStart, TypeOK
<1>9. ASSUME NEW o \in Outcomes, ReadIfg(o) PROVE OwedInv'
  <2>1. CASE o = "ok"
    BY <1>9, <2>1 DEF ReadIfg, Acts, TypeOK, IeInv
  <2>2. CASE o # "ok"
    BY <1>9, <2>2 DEF ReadIfg, Return
  <2> QED
    BY <2>1, <2>2
<1>10. ASSUME NEW o \in Outcomes, ReadErr(o) PROVE OwedInv'
  <2>1. CASE o = "ok"
    BY <1>10, <2>1 DEF ReadErr, Acts, TypeOK
  <2>2. CASE o # "ok"
    BY <1>10, <2>2 DEF ReadErr, Return
  <2> QED
    BY <2>1, <2>2
<1>11. CASE Dispatch
  <2> DEFINE handled == Dispatches(index) /\ mask_requested[index]
  <2>1. index \in Irqs /\ owed \subseteq Irqs
    BY DEF TypeOK
  <2>2. \A i \in owed' : i # index \/ ~handled
    BY <1>11 DEF Dispatch
  <2>3. owed' \subseteq owed
    BY <1>11 DEF Dispatch
  <2>4. CASE index + 1 < IrqCount
    BY <1>11, <2>1, <2>2, <2>3, <2>4 DEF Dispatch, Dispatches, Irqs
  <2>5. CASE ~(index + 1 < IrqCount)
    <3>1. \A i \in owed' : index <= i => i = index
      BY <2>1, <2>3, <2>5, IrqAssumption DEF Irqs
    <3>2. \A i \in owed' : i \in ifg_value \cup err_value => ~(index <= i)
      BY <2>2, <2>3, <3>1 DEF Dispatches
    <3> QED
      BY <1>11, <2>3, <2>5, <3>2 DEF Dispatch, Return
  <2> QED
    BY <2>4, <2>5
<1>12. CASE AddChip \/ RequestIrq \/ Remove \/ FreeIrq \/ DisposeChip
  BY <1>12 DEF AddChip, RequestIrq, Remove, FreeIrq, DisposeChip, NoMask, TypeOK
<1>13. ASSUME NEW o \in Outcomes,
              InitClearIE(o) \/ InitReadIfg(o) \/ InitReadErr(o) \/ InitSetIE(o)
       PROVE  OwedInv'
  BY <1>13 DEF InitClearIE, InitReadIfg, InitReadErr, InitSetIE, InitTransfer
<1>14. ASSUME NEW i \in Irqs, Raise(i) PROVE OwedInv'
  BY <1>14 DEF Raise
<1>15. CASE UNCHANGED vars
  BY <1>15 DEF vars
<1> QED
  BY <1>1, <1>2, <1>3, <1>4, <1>5, <1>6, <1>7, <1>8, <1>9, <1>10, <1>11, <1>12,
     <1>13, <1>14, <1>15 DEF Next, Consumer, Thread, Lifecycle

-----------------------------------------------------------------------------
(* Stale events: only AddChip finds them, initialisation reads both         *)
(* registers before the chip is up, and the thread forgets its copies when  *)
(* it returns.                                                              *)
LEMMA StaleStep == TypeOK /\ BusInv /\ StaleInv /\ [Next]_vars => StaleInv'
<1> SUFFICES ASSUME TypeOK, BusInv, StaleInv, [Next]_vars PROVE StaleInv'
  OBVIOUS
<1> USE DEF StaleInv, NoneStale, TypeOK, chipVars, maskVars, wakeVars, busVars,
            threadVars, histVars
<1>1. CASE Consumer
  BY <1>1 DEF Consumer, BusLock, Enable, Disable, SetWake, SyncMasks,
              SyncDisable, SyncEnable, SyncWakeUnlock
<1>2. CASE Thread
  <2>1. CASE ThreadStart
    BY <2>1 DEF ThreadStart
  <2>2. ASSUME NEW o \in Outcomes, ReadIfg(o) PROVE StaleInv'
    BY <2>2 DEF ReadIfg, Return
  <2>3. ASSUME NEW o \in Outcomes, ReadErr(o) PROVE StaleInv'
    BY <2>3 DEF ReadErr, Return
  <2>4. CASE Dispatch
    BY <2>4 DEF Dispatch, Return
  <2> QED
    BY <1>2, <2>1, <2>2, <2>3, <2>4 DEF Thread
<1>3. CASE AddChip \/ RequestIrq \/ Remove \/ FreeIrq \/ DisposeChip
  BY <1>3 DEF AddChip, RequestIrq, Remove, FreeIrq, DisposeChip
<1>4. ASSUME NEW o \in Outcomes, InitClearIE(o) \/ InitSetIE(o) PROVE StaleInv'
  BY <1>4 DEF InitClearIE, InitSetIE, InitTransfer
<1>5. ASSUME NEW o \in Outcomes, InitReadIfg(o) PROVE StaleInv'
  BY <1>5 DEF InitReadIfg, InitTransfer, Acts, TypeOK
<1>6. ASSUME NEW o \in Outcomes, InitReadErr(o) PROVE StaleInv'
  BY <1>6 DEF InitReadErr, InitTransfer, Acts
<1>7. ASSUME NEW i \in Irqs, Raise(i) PROVE StaleInv'
  BY <1>7 DEF Raise
<1>8. CASE UNCHANGED vars
  BY <1>8 DEF vars
<1> QED
  BY <1>1, <1>2, <1>3, <1>4, <1>5, <1>6, <1>7, <1>8 DEF Next, Lifecycle

-----------------------------------------------------------------------------
(* Wake-up: what the nested interrupts asked for and the parent's depth.    *)
LEMMA SetWakeCount ==
    ASSUME TypeOK, NEW i \in Irqs, NEW on \in BOOLEAN, wake_on[i] # on,
           wake_on' = [wake_on EXCEPT ![i] = on]
    PROVE  Cardinality({j \in Irqs : wake_on'[j]}) =
             IF on THEN Cardinality({j \in Irqs : wake_on[j]}) + 1
                   ELSE Cardinality({j \in Irqs : wake_on[j]}) - 1
<1> DEFINE armed == {j \in Irqs : wake_on[j]}
<1>1. IsFiniteSet(armed)
  <2>1. IsFiniteSet(Irqs)
    BY IrqAssumption, FS_Interval DEF Irqs
  <2> QED
    BY <2>1, FS_Subset
<1>2. wake_on \in [Irqs -> BOOLEAN]
  BY DEF TypeOK
<1>3. \A j \in Irqs : wake_on'[j] = IF j = i THEN on ELSE wake_on[j]
  BY <1>2
<1>4. CASE on = TRUE
  <2>1. wake_on[i] = FALSE
    BY <1>2, <1>4
  <2>2. i \notin armed
    BY <2>1
  <2>3. {j \in Irqs : wake_on'[j]} = armed \cup {i}
    BY <1>3, <1>4
  <2> QED
    BY <1>1, <1>4, <2>2, <2>3, FS_AddElement
<1>5. CASE on = FALSE
  <2>1. wake_on[i] = TRUE
    BY <1>2, <1>5
  <2>2. i \in armed
    BY <2>1
  <2>3. {j \in Irqs : wake_on'[j]} = armed \ {i}
    BY <1>3, <1>5
  <2> QED
    BY <1>1, <1>5, <2>2, <2>3, FS_RemoveElement
<1> QED
  BY <1>4, <1>5

LEMMA WakeStep == TypeOK /\ BusInv /\ WakeInv /\ [Next]_vars => WakeInv'
<1> SUFFICES ASSUME TypeOK, BusInv, WakeInv, [Next]_vars PROVE WakeInv'
  OBVIOUS
<1> USE DEF WakeInv, chipVars, maskVars, wakeVars, busVars, threadVars, histVars
<1>1. ASSUME NEW i \in Irqs, BusLock(i) PROVE WakeInv'
  BY <1>1 DEF BusLock, BusInv
<1>10. CASE Enable \/ Disable \/ SyncMasks
  BY <1>10 DEF Enable, Disable, SyncMasks
<1>11. ASSUME NEW o \in Outcomes, SyncDisable(o) \/ SyncEnable(o) PROVE WakeInv'
  BY <1>11 DEF SyncDisable, SyncEnable
<1>2. ASSUME NEW on \in BOOLEAN, SetWake(on) PROVE WakeInv'
  <2> DEFINE armed == Cardinality({j \in Irqs : wake_on[j]})
  <2>1. owner \in Irqs
    BY <1>2 DEF SetWake, TypeOK, BusInv
  <2>2. wake_on[owner] # on /\ wake_on' = [wake_on EXCEPT ![owner] = on]
    BY <1>2 DEF SetWake
  <2>3. Cardinality({j \in Irqs : wake_on'[j]})
           = IF on THEN armed + 1 ELSE armed - 1
    BY <2>1, <2>2, SetWakeCount
  <2>4. /\ wake_count' = IF on THEN wake_count + 1 ELSE wake_count - 1
        /\ parent_wake' = parent_wake /\ step' = "masks"
    BY <1>2 DEF SetWake
  <2>5. wake_count \in Int /\ parent_wake \in Int
    BY DEF TypeOK
  <2>6. wake_count + parent_wake = armed
    BY <2>5
  <2>7. parent_wake' + wake_count' = Cardinality({j \in Irqs : wake_on'[j]})
    <3> HIDE DEF armed
    <3>1. armed \in Int
      BY <2>5, <2>6
    <3>2. CASE on = TRUE
      BY <2>3, <2>4, <2>5, <2>6, <3>1, <3>2
    <3>3. CASE on = FALSE
      BY <2>3, <2>4, <2>5, <2>6, <3>1, <3>3
    <3> QED
      BY <3>2, <3>3
  <2> QED
    BY <2>4, <2>7
<1>3. CASE SyncWakeUnlock
  BY <1>3 DEF SyncWakeUnlock, TypeOK
<1>4. CASE Thread
  BY <1>4 DEF Thread, ThreadStart, ReadIfg, ReadErr, Dispatch
<1>5. CASE AddChip
  BY <1>5 DEF AddChip, BusInv
<1>6. CASE RequestIrq \/ Remove \/ FreeIrq \/ DisposeChip
  BY <1>6 DEF RequestIrq, Remove, FreeIrq, DisposeChip
<1>7. ASSUME NEW o \in Outcomes,
             InitClearIE(o) \/ InitReadIfg(o) \/ InitReadErr(o) \/ InitSetIE(o)
      PROVE  WakeInv'
  BY <1>7 DEF InitClearIE, InitReadIfg, InitReadErr, InitSetIE, InitTransfer
<1>8. ASSUME NEW i \in Irqs, Raise(i) PROVE WakeInv'
  BY <1>8 DEF Raise
<1>9. CASE UNCHANGED vars
  BY <1>9 DEF vars
<1> QED
  BY <1>1, <1>2, <1>3, <1>4, <1>5, <1>6, <1>7, <1>8, <1>9, <1>10,
     <1>11 DEF Next, Consumer, Lifecycle

-----------------------------------------------------------------------------
(* IInv is an invariant of the specification.                               *)
THEOREM Inductive == Spec => []IInv
<1>1. IInv /\ [Next]_vars => IInv'
  BY TypeStep, BusStep, IeStep, LineStep, OwedStep, StaleStep, WakeStep DEF IInv
<1> QED
  BY InitIInv, <1>1, PTL DEF Spec

(* Type correctness of irq.c's masks, counters and sets of bits.            *)
THEOREM TypeCorrect == Spec => []TypeOK
BY Inductive, PTL DEF IInv

(* Whenever nobody holds the bus lock, the masks and the chip's IE register *)
(* agree on every bit whose last write did not fail.                        *)
THEOREM IeMatchesMasksAlways == Spec => []IeMatchesMasks
<1>1. IInv => IeMatchesMasks
  BY DEF IInv, BusInv, IeInv, IeMatchesMasks
<1> QED
  BY Inductive, <1>1, PTL

(* The line never stays low unseen, unless a read of IFG failed.            *)
THEOREM LineNeverStuckAlways == Spec => []LineNeverStuck
<1>1. IInv => LineNeverStuck
  BY DEF IInv, LineInv
<1> QED
  BY Inductive, <1>1, PTL

(* No event of an enabled interrupt is lost between chip and consumer,      *)
(* however the masks change while the thread walks them.                    *)
THEOREM NoLostEventAlways == Spec => []NoLostEvent
<1>1. ASSUME IInv PROVE NoLostEvent
  <2> SUFFICES ASSUME thread = "idle", ~edge, read_fault = {},
                      NEW i \in owed
               PROVE  FALSE
    BY DEF NoLostEvent
  <2>1. i \in Irqs /\ phase = "up" /\ ErrBit \in ie
    BY <1>1 DEF IInv, TypeOK, OwedInv, IeInv
  <2>2. LineActive(ie, ifg)
    BY <1>1, <2>1 DEF IInv, OwedInv, PlainPending, ErrorPending, LineActive
  <2> QED
    BY <1>1, <2>1, <2>2 DEF IInv, LineInv, LineNeverStuck
<1> QED
  BY Inductive, <1>1, PTL

(* The parent's wake depth counts the nested interrupts armed for wake-up.  *)
THEOREM WakeBalancedAlways == Spec => []WakeBalanced
<1>1. IInv => WakeBalanced
  BY DEF IInv, BusInv, WakeInv, WakeBalanced
<1> QED
  BY Inductive, <1>1, PTL

(* The registers of a chip that is up hold nothing from before the probe;   *)
(* only a run of the handler under way since then may still have a copy.    *)
THEOREM UpWithoutStaleAlways == Spec => []UpWithoutStale
<1>1. IInv => UpWithoutStale
  BY DEF IInv, StaleInv, UpWithoutStale, TypeOK
<1> QED
  BY Inductive, <1>1, PTL

-----------------------------------------------------------------------------
(* How far the thread is from an event: the count of its steps is a number, *)
(* and one that the pass under way comes to is nearer than one it does not. *)
LEMMA StepsRange ==
    ASSUME TypeOK, NEW i \in Irqs, thread = "loop" \/ index = 0
    PROVE  /\ Lead \in 0 .. 3
           /\ StepsTo(i) \in 1 .. 2 * IrqCount + 4
<1>1. i \in 0 .. IrqCount - 1 /\ index \in 0 .. IrqCount - 1 /\ IrqCount \in Nat
  BY IrqAssumption DEF TypeOK, Irqs
<1>2. CASE thread = "loop"
  <2>1. Lead = 0
    BY <1>2 DEF Lead
  <2> QED
    BY <1>1, <1>2, <2>1 DEF StepsTo, InPass
<1>3. CASE thread \in {"idle", "ifg", "err"}
  <2>1. /\ thread = "idle" => Lead = 3
        /\ thread = "ifg" => Lead = 2
        /\ thread = "err" => Lead = 1
    BY DEF Lead
  <2>2. index = 0
    BY <1>3
  <2> QED
    BY <1>1, <1>3, <2>1, <2>2 DEF StepsTo, InPass
<1> QED
  BY <1>2, <1>3 DEF TypeOK

(* A step of the thread without a failed read comes nearer to every event   *)
(* it leaves owed: each read takes it along, the loop passes none by.       *)
LEMMA ThreadNearer ==
    ASSUME IInv, Thread, NEW i \in owed \cap owed', read_fault' = {}
    PROVE  StepsTo(i)' < StepsTo(i)
<1> USE DEF threadVars
<1>1. /\ i \in 0 .. IrqCount - 1 /\ i \in Irqs
      /\ index \in 0 .. IrqCount - 1 /\ IrqCount \in Nat
  BY IrqAssumption DEF IInv, TypeOK, Irqs
<1>2. read_fault = {}
  BY DEF Thread, ThreadStart, ReadIfg, ReadErr, Dispatch, histVars
<1>3. /\ thread # "loop" => index = 0
      /\ mask_requested[i] /\ mask_current[i]
      /\ i \in ErrorIrqs => ErrorPending(i)
      /\ i \notin ErrorIrqs => PlainPending(i)
  BY <1>2 DEF IInv, OwedInv
<1>4. CASE ThreadStart
  <2>1. thread = "idle" /\ thread' = "ifg" /\ index = 0 /\ index' = 0
    BY <1>3, <1>4 DEF ThreadStart
  <2> QED
    BY <1>1, <2>1 DEF StepsTo, Lead, InPass
<1>5. ASSUME NEW o \in Outcomes, ReadIfg(o) PROVE StepsTo(i)' < StepsTo(i)
  <2>1. o = "ok"
    BY <1>5 DEF ReadIfg
  <2>2. /\ thread = "ifg" /\ index = 0 /\ index' = 0
        /\ ifg_value' = ifg /\ err_value' = err_value /\ err' = err
        /\ thread' = IF ErrBit \in ifg THEN "err" ELSE "loop"
    BY <1>3, <1>5, <2>1 DEF ReadIfg
  <2>3. StepsTo(i) = i + 3
    BY <1>1, <2>2 DEF StepsTo, InPass, Lead
  <2>4. CASE ErrBit \in ifg
    <3>1. thread' = "err"
      BY <2>2, <2>4
    <3>2. InPass(i)'
      BY <1>3, <2>2, <3>1 DEF InPass, ErrorPending, PlainPending
    <3> QED
      BY <1>1, <2>2, <2>3, <3>1, <3>2 DEF StepsTo, Lead
  <2>5. CASE ErrBit \notin ifg
    <3>1. thread' = "loop" /\ i \notin ErrorIrqs
      BY <1>3, <2>2, <2>5 DEF ErrorPending
    <3>2. InPass(i)'
      BY <1>1, <1>3, <2>2, <3>1 DEF InPass, PlainPending
    <3> QED
      BY <1>1, <2>2, <2>3, <3>1, <3>2 DEF StepsTo, Lead
  <2> QED
    BY <2>4, <2>5
<1>6. ASSUME NEW o \in Outcomes, ReadErr(o) PROVE StepsTo(i)' < StepsTo(i)
  <2>1. o = "ok"
    BY <1>6 DEF ReadErr
  <2>2. /\ thread = "err" /\ thread' = "loop" /\ index = 0 /\ index' = 0
        /\ ifg_value' = ifg_value /\ err_value' = err
    BY <1>3, <1>6, <2>1 DEF ReadErr
  <2>3. CASE InPass(i)
    <3>1. InPass(i)'
      BY <1>1, <2>2, <2>3 DEF InPass
    <3>2. StepsTo(i) = i + 2 /\ StepsTo(i)' = i + 1
      BY <1>1, <2>2, <2>3, <3>1 DEF StepsTo, Lead
    <3> QED
      BY <1>1, <3>2
  <2>4. CASE ~InPass(i)
    <3>1. StepsTo(i) = IrqCount + i + 5
      BY <1>1, <2>2, <2>4 DEF StepsTo, Lead
    <3>2. StepsTo(i)' \in {i + 1, IrqCount + i + 4}
      BY <1>1, <2>2 DEF StepsTo, Lead
    <3> QED
      BY <1>1, <3>1, <3>2
  <2> QED
    BY <2>3, <2>4
<1>7. CASE Dispatch
  <2>1. thread = "loop" /\ ~(Dispatches(index) /\ mask_requested[index] /\ i = index)
    BY <1>7 DEF Dispatch
  <2>2. CASE InPass(i)
    <3>1. index < i
      BY <1>1, <1>3, <2>1, <2>2 DEF InPass, Dispatches
    <3>2. /\ thread' = "loop" /\ index' = index + 1
          /\ ifg_value' = ifg_value /\ err_value' = err_value
      BY <1>1, <1>7, <2>1, <3>1 DEF Dispatch
    <3>3. InPass(i)'
      BY <1>1, <2>1, <2>2, <3>1, <3>2 DEF InPass
    <3> QED
      BY <1>1, <2>1, <2>2, <3>2, <3>3 DEF StepsTo, Lead
  <2>3. CASE ~InPass(i)
    <3>1. StepsTo(i) = IrqCount - index + i + 4
      BY <1>1, <2>1, <2>3 DEF StepsTo, Lead
    <3>2. CASE index + 1 < IrqCount
      <4>1. thread' = "loop" /\ index' = index + 1
        BY <1>7, <2>1, <3>2 DEF Dispatch
      <4>2. StepsTo(i)' \in {i - index, IrqCount - index + i + 3}
        BY <1>1, <4>1 DEF StepsTo, Lead
      <4> QED
        BY <1>1, <3>1, <4>2
    <3>3. CASE ~(index + 1 < IrqCount)
      <4>1. thread' = "idle" /\ index' = 0
        BY <1>7, <3>3 DEF Dispatch, Return
      <4>2. StepsTo(i)' = i + 4
        BY <1>1, <4>1 DEF StepsTo, Lead
      <4> QED
        BY <1>1, <3>1, <4>2
    <3> QED
      BY <3>2, <3>3
  <2> QED
    BY <2>2, <2>3
<1> QED
  BY <1>4, <1>5, <1>6, <1>7 DEF Thread

(* Nobody else puts an event off: only the thread moves its own variables,  *)
(* and an ERR bit once latched is taken away by the thread alone.           *)
LEMMA OthersNeverDelay ==
    ASSUME IInv, [Next]_vars, ~Thread, NEW i \in owed \cap owed'
    PROVE  StepsTo(i)' <= StepsTo(i)
<1> USE DEF chipVars, maskVars, wakeVars, busVars, threadVars, histVars
<1>1. phase = "up" /\ i \in Irqs /\ (thread # "loop" => index = 0)
  BY DEF IInv, OwedInv, TypeOK
<1>2. UNCHANGED threadVars /\ err \subseteq err'
  <2>1. CASE Consumer
    BY <2>1 DEF Consumer, BusLock, Enable, Disable, SetWake, SyncMasks,
                SyncDisable, SyncEnable, SyncWakeUnlock
  <2>2. CASE Lifecycle
    BY <1>1, <2>2 DEF Lifecycle, AddChip, RequestIrq, InitClearIE, InitReadIfg,
                      InitReadErr, InitSetIE, InitTransfer, Remove, FreeIrq,
                      DisposeChip
  <2>3. ASSUME NEW j \in Irqs, Raise(j) PROVE UNCHANGED threadVars /\ err \subseteq err'
    BY <2>3 DEF Raise
  <2>4. CASE UNCHANGED vars
    BY <2>4 DEF vars
  <2> QED
    BY <2>1, <2>2, <2>3, <2>4 DEF Next
<1>3. Lead' = Lead
  BY <1>2 DEF Lead
<1>4. InPass(i) => InPass(i)'
  BY <1>2 DEF InPass
<1>5. Lead \in 0 .. 3
  BY <1>1, StepsRange DEF IInv
<1>6. i \in 0 .. IrqCount - 1 /\ index \in 0 .. IrqCount - 1 /\ IrqCount \in Nat
  BY <1>1, IrqAssumption DEF IInv, TypeOK, Irqs
<1>7. thread' = thread /\ index' = index
  BY <1>2
<1> QED
  BY <1>3, <1>4, <1>5, <1>6, <1>7 DEF StepsTo

(* While no read fails, an owed event is at most 2 * IrqCount + 4 steps of  *)
(* the thread away; the thread is awake or has an edge latched, each of its *)
(* steps comes nearer, and no step of anybody else puts the event off.      *)
THEOREM EventsComeNearerAlways == Spec => EventsComeNearer
<1> DEFINE A == \A i \in owed \cap owed' : read_fault' = {} =>
                  /\ StepsTo(i) \in 1 .. 2 * IrqCount + 4
                  /\ thread # "idle" \/ edge
                  /\ IF Thread THEN StepsTo(i)' < StepsTo(i)
                               ELSE StepsTo(i)' <= StepsTo(i)
<1>1. ASSUME IInv, NoLostEvent, [Next]_vars PROVE [A]_vars
  <2> SUFFICES ASSUME NEW i \in owed \cap owed', read_fault' = {}
               PROVE  /\ StepsTo(i) \in 1 .. 2 * IrqCount + 4
                      /\ thread # "idle" \/ edge
                      /\ IF Thread THEN StepsTo(i)' < StepsTo(i)
                                   ELSE StepsTo(i)' <= StepsTo(i)
    OBVIOUS
  <2>1. i \in Irqs /\ (thread # "loop" => index = 0) /\ phase = "up"
    BY <1>1 DEF IInv, OwedInv, TypeOK
  <2>2. StepsTo(i) \in 1 .. 2 * IrqCount + 4
    BY <1>1, <2>1, StepsRange DEF IInv
  <2>3. read_fault = {}
    BY <1>1, <2>1 DEF Next, Consumer, BusLock, Enable, Disable, SetWake, SyncMasks,
           SyncDisable, SyncEnable, SyncWakeUnlock, Thread, ThreadStart,
           ReadIfg, ReadErr, Dispatch, Lifecycle, AddChip, RequestIrq,
           InitClearIE, InitReadIfg, InitReadErr, InitSetIE, InitTransfer,
           Remove, FreeIrq, DisposeChip, Raise, vars, histVars
  <2>4. thread # "idle" \/ edge
    BY <1>1, <2>3 DEF NoLostEvent
  <2>5. CASE Thread
    BY <1>1, <2>2, <2>4, <2>5, ThreadNearer
  <2>6. CASE ~Thread
    BY <1>1, <2>2, <2>4, <2>6, OthersNeverDelay
  <2> QED
    BY <2>5, <2>6
<1>2. IInv /\ NoLostEvent /\ [Next]_vars => [A]_vars
  BY <1>1
<1> QED
  BY Inductive, NoLostEventAlways, <1>2, PTL DEF Spec, EventsComeNearer
=============================================================================

----------------------------- MODULE LedsProofs -----------------------------
(***************************************************************************)
(* Theorems about Leds for any number of LEDs on the two registers, any     *)
(* refresh interval, cap and word size: the rounding of delays, the         *)
(* inductive invariant and what follows from it.                            *)
(***************************************************************************)
EXTENDS Leds, FiniteSetTheorems, TLAPS

USE LedsAssumption

(* Rounding yields a number of intervals up to the cap.                     *)
LEMMA IntervalsType ==
    ASSUME NEW ms \in Delays
    PROVE  Intervals(ms) \in 0 .. MaxInterval
<1> DEFINE wanted == IF ms = 0 THEN Refresh ELSE ms
           total  == (wanted + Refresh - 1) % Word
           rounded == total \div Refresh
<1>1. wanted \in Nat
  OBVIOUS
<1>2. total \in Nat
  BY <1>1
<1>3. rounded \in Nat
  <2> HIDE DEF total
  <2> QED
    BY <1>2
<1>4. Intervals(ms) = IF rounded > MaxInterval THEN MaxInterval ELSE rounded
  BY DEF Intervals
<1> HIDE DEF rounded
<1> QED
  BY <1>3, <1>4

(* A delay that does not overflow is rounded to at least one interval.      *)
LEMMA IntervalsPositive ==
    ASSUME NEW ms \in Accepted
    PROVE  Intervals(ms) # 0
<1> DEFINE wanted == IF ms = 0 THEN Refresh ELSE ms
           sum == wanted + Refresh - 1
           rounded == sum \div Refresh
<1>1. sum \in Refresh .. Word - 1
  BY DEF Accepted
<1>2. sum % Word = sum
  <2> HIDE DEF sum
  <2> QED
    BY <1>1
<1>3. rounded \in Nat \ {0}
  <2> HIDE DEF sum
  <2> QED
    BY <1>1
<1>4. Intervals(ms) = IF rounded > MaxInterval THEN MaxInterval ELSE rounded
  BY <1>2 DEF Intervals
<1> HIDE DEF rounded
<1> QED
  BY <1>3, <1>4

-----------------------------------------------------------------------------
(* A register update keeps lit a function of the LEDs.                      *)
LEMMA AfterWriteType ==
    ASSUME NEW before \in [LedIds -> BOOLEAN], NEW mask,
           NEW value \in [LedIds -> BOOLEAN], NEW o
    PROVE  AfterWrite(before, mask, value, o) \in [LedIds -> BOOLEAN]
BY DEF AfterWrite

(* A LED that is not masked keeps its state, and a masked one gets its new  *)
(* value when the update succeeds.                                          *)
LEMMA AfterWriteValue ==
    ASSUME NEW before, NEW mask, NEW value \in [LedIds -> BOOLEAN], NEW o,
           NEW i \in LedIds
    PROVE  /\ i \notin mask => AfterWrite(before, mask, value, o)[i] = before[i]
           /\ i \in mask /\ o = "ok" =>
                 AfterWrite(before, mask, value, o)[i] = value[i]
BY DEF AfterWrite

(* A LED is to be lit or not.                                               *)
LEMMA StateOnType == ASSUME NEW i PROVE StateOn(i) \in BOOLEAN
<1>1. CASE Paired(i)
  BY <1>1 DEF StateOn
<1>2. CASE ~Paired(i)
  <2>1. OnPhase(i) \in BOOLEAN
    BY DEF OnPhase
  <2> QED
    BY <1>2, <2>1 DEF StateOn
<1> QED
  BY <1>1, <1>2

(* Zero is a number of intervals: a LED that does not blink.                *)
LEMMA ZeroType == 0 \in 0 .. MaxInterval
OBVIOUS

(* The fault bound is respected by one update ...                           *)
LEMMA CountType ==
    ASSUME faults \in 0 .. MaxFaults, NEW o \in Outcomes, Count(o)
    PROVE  faults' \in 0 .. MaxFaults
BY DEF Outcomes, Count

(* ... and by several.                                                      *)
LEMMA FaultsType ==
    ASSUME faults \in 0 .. MaxFaults, NEW n \in Nat, NEW S, S \subseteq 1 .. n,
           faults' = faults + Cardinality(S), faults' <= MaxFaults
    PROVE  faults' \in 0 .. MaxFaults
<1>1. IsFiniteSet(S)
  BY FS_Interval, FS_Subset, 1 \in Int, n \in Int
<1>2. Cardinality(S) \in Nat
  BY <1>1, FS_CardinalityType
<1> QED
  BY <1>2

(* Writing one LED, or leaving a battery LED alone.                         *)
LEMMA SetOneType ==
    ASSUME TypeOK, NEW i \in LedIds, NEW on \in BOOLEAN, NEW spared,
           NEW o \in Outcomes, SetOne(i, on, spared, o)
    PROVE  lit' \in [LedIds -> BOOLEAN] /\ faults' \in 0 .. MaxFaults
<1>1. CASE spared
  BY <1>1 DEF SetOne, TypeOK
<1>2. CASE ~spared
  <2>1. [j \in LedIds |-> on] \in [LedIds -> BOOLEAN]
    OBVIOUS
  <2> QED
    BY <1>2, <2>1, AfterWriteType, CountType DEF SetOne, TypeOK
<1> QED
  BY <1>1, <1>2

LEMMA InitIInv == Init => IInv
<1> SUFFICES ASSUME Init PROVE IInv
  OBVIOUS
<1>1. TypeOK
  <2>1. faults \in 0 .. MaxFaults
    BY DEF Init
  <2>2. All(0) \in [LedIds -> 0 .. MaxInterval] /\ All(0) \in [LedIds -> Nat]
        /\ All(FALSE) \in [LedIds -> BOOLEAN]
    BY ZeroType DEF All
  <2> QED
    BY <2>1, <2>2 DEF Init, TypeOK
<1>2. LifeInv /\ FollowInv /\ IconInv /\ RemovedState
  BY DEF Init, All, LifeInv, FollowInv, IconInv, RemovedState, Blinking
<1> QED
  BY <1>1, <1>2 DEF IInv

(* Every step keeps every variable within its type.                         *)
LEMMA TypeStep == TypeOK /\ [Next]_vars => TypeOK'
<1> SUFFICES ASSUME TypeOK, [Next]_vars PROVE TypeOK'
  OBVIOUS
<1> USE DEF ledVars, lifeVars
<1>1. ASSUME NEW i \in LedIds, NEW on \in BOOLEAN, NEW o \in Outcomes,
             BrightnessSet(i, on, o)
      PROVE  TypeOK'
  <2>1. lit' \in [LedIds -> BOOLEAN] /\ faults' \in 0 .. MaxFaults
    BY <1>1, SetOneType DEF BrightnessSet
  <2>2. disturbed' \subseteq LedIds
    BY <1>1 DEF BrightnessSet, TypeOK
  <2>3. /\ delay_on' \in [LedIds -> 0 .. MaxInterval]
        /\ delay_off' \in [LedIds -> 0 .. MaxInterval]
        /\ interval' \in [LedIds -> Nat]
    BY <1>1, ZeroType DEF BrightnessSet, TypeOK
  <2> QED
    BY <1>1, <2>1, <2>2, <2>3 DEF BrightnessSet, TypeOK
<1>2. ASSUME NEW i \in LedIds, NEW on_ms \in Delays, NEW off_ms \in Delays,
             NEW o \in Outcomes, BlinkSet(i, on_ms, off_ms, o)
      PROVE  TypeOK'
  <2>1. lit' \in [LedIds -> BOOLEAN] /\ faults' \in 0 .. MaxFaults
    BY <1>2, SetOneType DEF BlinkSet
  <2>2. disturbed' \subseteq LedIds
    BY <1>2 DEF BlinkSet, TypeOK
  <2>3. /\ delay_on' \in [LedIds -> 0 .. MaxInterval]
        /\ delay_off' \in [LedIds -> 0 .. MaxInterval]
    BY <1>2, IntervalsType DEF BlinkSet, TypeOK
  <2> QED
    BY <1>2, <2>1, <2>2, <2>3 DEF BlinkSet, TypeOK
<1>3. ASSUME NEW o \in [Registers -> Outcomes], Update(o) PROVE TypeOK'
  <2>1. [i \in LedIds |-> StateOn(i)] \in [LedIds -> BOOLEAN]
    BY StateOnType
  <2>2. lit' \in [LedIds -> BOOLEAN]
    BY <1>3, <2>1, AfterWriteType DEF Update, TypeOK
  <2>3. faults' \in 0 .. MaxFaults
    <3>1. {r \in Registers : o[r] # "ok"} \subseteq 1 .. 2
      BY DEF Registers
    <3> QED
      BY <1>3, <3>1, FaultsType, 2 \in Nat DEF Update, TypeOK
  <2>4. interval' \in [LedIds -> Nat]
    BY <1>3 DEF Update, NextInterval, TypeOK
  <2>5. prev_on' \in [LedIds -> BOOLEAN]
    BY <1>3, StateOnType DEF Update, TypeOK
  <2>6. disturbed' \subseteq LedIds
    BY <1>3 DEF Update, TypeOK
  <2> QED
    BY <1>3, <2>2, <2>3, <2>4, <2>5, <2>6 DEF Update, TypeOK
<1>4. CASE Probe
  <2>1. All(0) \in [LedIds -> 0 .. MaxInterval] /\ All(0) \in [LedIds -> Nat]
        /\ All(FALSE) \in [LedIds -> BOOLEAN]
    BY ZeroType DEF All
  <2> QED
    BY <1>4, <2>1 DEF Probe, TypeOK
<1>5. CASE RegisterLed
  BY <1>5 DEF RegisterLed, TypeOK
<1>6. ASSUME NEW bad \in LedIds, NEW o \in Outcomes, InitLeds(bad, o)
      PROVE  TypeOK'
  <2>1. [i \in LedIds |-> i = PowerLed] \in [LedIds -> BOOLEAN]
    OBVIOUS
  <2>2. lit' \in [LedIds -> BOOLEAN]
    BY <1>6, <2>1, AfterWriteType DEF InitLeds, TypeOK
  <2>3. faults' \in 0 .. MaxFaults
    BY <1>6, CountType DEF InitLeds, TypeOK
  <2> QED
    BY <1>6, <2>2, <2>3 DEF InitLeds, TypeOK
<1>7. CASE StartWorker \/ StopWorker \/ ForgetWorker \/ Aborted
  BY <1>7 DEF StartWorker, StopWorker, ForgetWorker, Aborted, TypeOK
<1>8. ASSUME NEW i \in LedIds, NEW o \in Outcomes, UnregisterLed(i, o)
      PROVE  TypeOK'
  <2>1. lit' \in [LedIds -> BOOLEAN] /\ faults' \in 0 .. MaxFaults
    BY <1>8, SetOneType DEF UnregisterLed
  <2>2. /\ delay_on' \in [LedIds -> 0 .. MaxInterval]
        /\ delay_off' \in [LedIds -> 0 .. MaxInterval]
        /\ interval' \in [LedIds -> Nat]
    BY <1>8, ZeroType DEF UnregisterLed, TypeOK
  <2> QED
    BY <1>8, <2>1, <2>2 DEF UnregisterLed, TypeOK
<1>9. ASSUME NEW o \in [1 .. 3 -> Transfers], FinalWrites(o) PROVE TypeOK'
  <2>1. faults' \in 0 .. MaxFaults
    <3>1. {t \in 1 .. 3 : o[t] # "ok"} \subseteq 1 .. 3
      OBVIOUS
    <3> QED
      BY <1>9, <3>1, FaultsType, 3 \in Nat DEF FinalWrites, FinalStep, TypeOK
  <2>2. lit' \in [LedIds -> BOOLEAN]
    BY <1>9 DEF FinalWrites, Kept, TypeOK
  <2> QED
    BY <1>9, <2>1, <2>2 DEF FinalWrites, FinalStep, TypeOK
<1>10. CASE UNCHANGED vars
  BY <1>10 DEF vars, TypeOK
<1>11. ASSUME NEW i \in LedIds, Begin(i) PROVE TypeOK'
  <2>1. Spares(i) \in BOOLEAN
    BY DEF Spares
  <2> QED
    BY <1>11, <2>1 DEF Begin, TypeOK
<1> QED
  BY <1>1, <1>2, <1>3, <1>4, <1>5, <1>6, <1>7, <1>8, <1>9, <1>10, <1>11
     DEF Next, Request, Serve, Worker, Lifecycle

-----------------------------------------------------------------------------
(* The LED of the request under way is registered.                          *)
LEMMA ServedLed ==
    ASSUME LifeInv, NEW i \in LedIds, request.led = i
    PROVE  i \in registered
<1>1. request # NoRequest
  BY DEF NoRequest, LedIds
<1> QED
  BY <1>1 DEF LifeInv

(* The phases of probe and removal.                                         *)
LEMMA LifeStep == TypeOK /\ LifeInv /\ [Next]_vars => LifeInv'
<1> SUFFICES ASSUME TypeOK, LifeInv, [Next]_vars PROVE LifeInv'
  OBVIOUS
<1> USE DEF LifeInv, Blinking, ledVars, lifeVars, NoRequest
<1>1. ASSUME NEW i \in LedIds, NEW on \in BOOLEAN, NEW o \in Outcomes,
             BrightnessSet(i, on, o)
      PROVE  LifeInv'
  BY <1>1 DEF BrightnessSet, TypeOK
<1>2. ASSUME NEW i \in LedIds, NEW on_ms \in Delays, NEW off_ms \in Delays,
             NEW o \in Outcomes, BlinkSet(i, on_ms, off_ms, o)
      PROVE  LifeInv'
  <2>1. i \in registered
    BY <1>2, ServedLed DEF BlinkSet
  <2> QED
    BY <1>2, <2>1 DEF BlinkSet, TypeOK
<1>3. ASSUME NEW o \in [Registers -> Outcomes], Update(o) PROVE LifeInv'
  BY <1>3 DEF Update
<1>4. CASE Probe
  BY <1>4 DEF Probe, All
<1>5. CASE RegisterLed
  BY <1>5 DEF RegisterLed
<1>6. ASSUME NEW bad \in LedIds, NEW o \in Outcomes, InitLeds(bad, o)
      PROVE  LifeInv'
  BY <1>6 DEF InitLeds
<1>7. CASE StartWorker \/ StopWorker \/ ForgetWorker \/ Aborted
  BY <1>7 DEF StartWorker, StopWorker, ForgetWorker, Aborted
<1>8. ASSUME NEW i \in LedIds, NEW o \in Outcomes, UnregisterLed(i, o)
      PROVE  LifeInv'
  BY <1>8 DEF UnregisterLed, TypeOK
<1>9. ASSUME NEW o \in [1 .. 3 -> Transfers], FinalWrites(o) PROVE LifeInv'
  BY <1>9 DEF FinalWrites, FinalStep
<1>10. CASE UNCHANGED vars
  BY <1>10 DEF vars
<1>11. ASSUME NEW i \in LedIds, Begin(i) PROVE LifeInv'
  BY <1>11 DEF Begin, Available
<1> QED
  BY <1>1, <1>2, <1>3, <1>4, <1>5, <1>6, <1>7, <1>8, <1>9, <1>10, <1>11
     DEF Next, Request, Serve, Worker, Lifecycle

-----------------------------------------------------------------------------
(* What a round of the worker does to a blinking LED whose previous state   *)
(* is right: previous state and register become the wanted state, unless    *)
(* the update of its register failed.                                       *)
LEMMA RoundFollows ==
    ASSUME TypeOK, FollowInv, NEW o \in [Registers -> Outcomes], Update(o),
           NEW i \in LedIds, Blinking(i)
    PROVE  /\ prev_on'[i] = StateOn(i)
           /\ i \notin disturbed' => lit'[i] = prev_on'[i]
<1> DEFINE toggled == {k \in LedIds : Blinking(k) /\ StateOn(k) # prev_on[k]}
           inReg(r) == {k \in toggled : LedRegister[k] = r}
           value == [k \in LedIds |-> StateOn(k)]
           failed == {k \in toggled : o[LedRegister[k]] # "ok"}
           first == AfterWrite(lit, inReg(1), value, o[1])
<1>1. /\ lit' = AfterWrite(first, inReg(2), value, o[2])
      /\ prev_on' = [k \in LedIds |->
                        IF k \in toggled THEN StateOn(k) ELSE prev_on[k]]
      /\ disturbed' = (disturbed \ toggled) \cup failed
  BY DEF Update
<1>2. value \in [LedIds -> BOOLEAN] /\ StateOn(i) \in BOOLEAN
  BY StateOnType
<1>3. prev_on'[i] = StateOn(i)
  BY <1>1
<1>4. CASE i \in toggled
  <2>1. LedRegister[i] \in Registers /\ value[i] = StateOn(i)
    OBVIOUS
  <2>2. CASE LedRegister[i] = 1
    <3>1. i \in inReg(1) /\ i \notin inReg(2)
      BY <1>4, <2>2
    <3>2. lit'[i] = first[i] /\ (o[1] = "ok" => first[i] = value[i])
      <4> HIDE DEF toggled, inReg, value
      <4> QED
        BY <1>1, <1>2, <3>1, AfterWriteValue
    <3>3. i \notin disturbed' => o[1] = "ok"
      BY <1>1, <1>4, <2>2
    <3> QED
      BY <1>3, <2>1, <3>2, <3>3
  <2>3. CASE LedRegister[i] = 2
    <3>1. i \in inReg(2)
      BY <1>4, <2>3
    <3>2. o[2] = "ok" => lit'[i] = value[i]
      <4> HIDE DEF toggled, inReg, value, first
      <4> QED
        BY <1>1, <1>2, <3>1, AfterWriteValue
    <3>3. i \notin disturbed' => o[2] = "ok"
      BY <1>1, <1>4, <2>3
    <3> QED
      BY <1>3, <2>1, <3>2, <3>3
  <2> QED
    BY <2>1, <2>2, <2>3 DEF Registers
<1>5. CASE i \notin toggled
  <2>1. prev_on'[i] = prev_on[i]
    BY <1>1, <1>5
  <2>2. i \notin inReg(1) /\ i \notin inReg(2)
    BY <1>5
  <2>3. lit'[i] = lit[i]
    <3> HIDE DEF toggled, inReg, value
    <3> QED
      BY <1>1, <1>2, <2>2, AfterWriteValue
  <2>4. i \notin disturbed' => i \notin disturbed
    BY <1>1, <1>5
  <2> QED
    BY <1>3, <2>1, <2>3, <2>4 DEF FollowInv
<1> QED
  BY <1>4, <1>5

-----------------------------------------------------------------------------
(* Writing one LED touches no other, nor a LED that is spared.              *)
LEMMA SetOneValue ==
    ASSUME TypeOK, NEW i \in LedIds, NEW on \in BOOLEAN, NEW spared,
           NEW o \in Outcomes, SetOne(i, on, spared, o), NEW k \in LedIds
    PROVE  k # i \/ spared => lit'[k] = lit[k]
<1>1. CASE spared
  BY <1>1 DEF SetOne
<1>2. CASE ~spared
  <2> DEFINE value == [j \in LedIds |-> on]
  <2>1. value \in [LedIds -> BOOLEAN]
    OBVIOUS
  <2>2. lit' = AfterWrite(lit, {i}, value, o)
    BY <1>2 DEF SetOne
  <2> HIDE DEF value
  <2> QED
    BY <1>2, <2>1, <2>2, AfterWriteValue
<1> QED
  BY <1>1, <1>2

(* prev_state_on stands for the register of every blinking LED.             *)
LEMMA FollowStep == TypeOK /\ LifeInv /\ FollowInv /\ [Next]_vars => FollowInv'
<1> SUFFICES ASSUME TypeOK, LifeInv, FollowInv, [Next]_vars,
                    NEW k \in LedIds, Blinking(k)', k \notin disturbed'
             PROVE  lit'[k] = prev_on'[k]
  BY DEF FollowInv
<1> USE DEF ledVars, lifeVars
<1>1. ASSUME NEW i \in LedIds, NEW on \in BOOLEAN, NEW o \in Outcomes,
             BrightnessSet(i, on, o)
      PROVE  lit'[k] = prev_on'[k]
  <2>1. k # i
    BY <1>1 DEF BrightnessSet, Blinking, TypeOK
  <2>2. Blinking(k) /\ k \notin disturbed
    BY <1>1, <2>1 DEF BrightnessSet, Blinking, TypeOK
  <2>3. lit'[k] = lit[k] /\ prev_on' = prev_on
    BY <1>1, <2>1, SetOneValue DEF BrightnessSet
  <2> QED
    BY <2>2, <2>3 DEF FollowInv
<1>2. ASSUME NEW i \in LedIds, NEW on_ms \in Delays, NEW off_ms \in Delays,
             NEW o \in Outcomes, BlinkSet(i, on_ms, off_ms, o)
      PROVE  lit'[k] = prev_on'[k]
  <2>1. CASE k = i
    <3>1. o = "ok" /\ ~request.spared
      BY <1>2, <2>1 DEF BlinkSet
    <3>2. lit'[i] = FALSE
      <4>1. SetOne(i, FALSE, request.spared, o)
        BY <1>2 DEF BlinkSet
      <4>2. lit' = AfterWrite(lit, {i}, [j \in LedIds |-> FALSE], o)
        BY <3>1, <4>1 DEF SetOne
      <4> QED
        BY <3>1, <4>2 DEF AfterWrite
    <3>3. prev_on'[i] = FALSE
      BY <1>2 DEF BlinkSet, TypeOK
    <3> QED
      BY <2>1, <3>2, <3>3
  <2>2. CASE k # i
    <3>1. Blinking(k) /\ k \notin disturbed
      BY <1>2, <2>2 DEF BlinkSet, Blinking, TypeOK
    <3>2. lit'[k] = lit[k]
      BY <1>2, <2>2, SetOneValue DEF BlinkSet
    <3>3. prev_on'[k] = prev_on[k]
      BY <1>2, <2>2 DEF BlinkSet, TypeOK
    <3> QED
      BY <3>1, <3>2, <3>3 DEF FollowInv
  <2> QED
    BY <2>1, <2>2
<1>3. ASSUME NEW o \in [Registers -> Outcomes], Update(o)
      PROVE  lit'[k] = prev_on'[k]
  <2>1. Blinking(k)
    BY <1>3 DEF Update, Blinking
  <2> QED
    BY <1>3, <2>1, RoundFollows
<1>4. CASE Probe
  BY <1>4 DEF Probe, All, Blinking
<1>5. ASSUME NEW bad \in LedIds, NEW o \in Outcomes, InitLeds(bad, o)
      PROVE  lit'[k] = prev_on'[k]
  BY <1>5 DEF InitLeds, Blinking
<1>6. CASE RegisterLed \/ StartWorker \/ StopWorker \/ ForgetWorker \/ Aborted
  BY <1>6 DEF RegisterLed, StartWorker, StopWorker, ForgetWorker, Aborted,
              FollowInv, Blinking
<1>7. ASSUME NEW i \in LedIds, NEW o \in Outcomes, UnregisterLed(i, o)
      PROVE  lit'[k] = prev_on'[k]
  <2>1. k # i
    BY <1>7 DEF UnregisterLed, Blinking, TypeOK
  <2>2. Blinking(k) /\ k \notin disturbed
    BY <1>7, <2>1 DEF UnregisterLed, Blinking, TypeOK
  <2>3. lit'[k] = lit[k] /\ prev_on' = prev_on
    BY <1>7, <2>1, SetOneValue DEF UnregisterLed
  <2> QED
    BY <2>2, <2>3 DEF FollowInv
<1>8. ASSUME NEW o \in [1 .. 3 -> Transfers], FinalWrites(o)
      PROVE  lit'[k] = prev_on'[k]
  BY <1>8 DEF FinalWrites, FinalStep, LifeInv, Blinking
<1>9. CASE UNCHANGED vars
  BY <1>9 DEF vars, FollowInv, Blinking
<1>10. ASSUME NEW i \in LedIds, Begin(i) PROVE lit'[k] = prev_on'[k]
  BY <1>10 DEF Begin, FollowInv, Blinking
<1> QED
  BY <1>1, <1>2, <1>3, <1>4, <1>5, <1>6, <1>7, <1>8, <1>9, <1>10
     DEF Next, Request, Serve, Worker, Lifecycle

(* A round leaves the two LEDs of an icon inverted; everything else that    *)
(* could change that resets fresh.                                          *)
LEMMA IconStep == TypeOK /\ LifeInv /\ FollowInv /\ IconInv /\ [Next]_vars => IconInv'
<1> SUFFICES ASSUME TypeOK, LifeInv, FollowInv, IconInv, [Next]_vars, fresh',
                    NEW i \in LedIds, SameBlink(i)'
             PROVE  prev_on'[i] # prev_on'[i - 1]
  BY DEF IconInv
<1> USE DEF ledVars, lifeVars
<1>1. i - 1 \in LedIds
  BY DEF SameBlink, LedIds
<1>2. ASSUME NEW o \in [Registers -> Outcomes], Update(o)
      PROVE  prev_on'[i] # prev_on'[i - 1]
  <2>1. Blinking(i) /\ Blinking(i - 1) /\ Paired(i) /\ i % 2 = 1
    BY <1>2 DEF Update, SameBlink, Blinking, Paired
  <2>2. ~Paired(i - 1)
    BY <2>1 DEF Paired, LedIds
  <2>3. StateOn(i) = ~OnPhase(i - 1) /\ StateOn(i - 1) = OnPhase(i - 1)
    BY <2>1, <2>2 DEF StateOn
  <2>4. prev_on'[i] = StateOn(i) /\ prev_on'[i - 1] = StateOn(i - 1)
    BY <1>1, <1>2, <2>1, RoundFollows
  <2>5. OnPhase(i - 1) \in BOOLEAN
    BY DEF OnPhase
  <2> QED
    BY <2>3, <2>4, <2>5
<1>3. CASE Serve
  BY <1>3 DEF Serve, BrightnessSet, BlinkSet
<1>4. CASE Probe
  BY <1>4 DEF Probe
<1>5. ASSUME NEW bad \in LedIds, NEW o \in Outcomes,
             InitLeds(bad, o)
      PROVE  FALSE
  BY <1>5 DEF InitLeds
<1>6. ASSUME NEW j \in LedIds, NEW o \in Outcomes, UnregisterLed(j, o)
      PROVE  FALSE
  BY <1>6 DEF UnregisterLed
<1>7. ASSUME UNCHANGED <<ledVars, fresh>>
      PROVE  prev_on'[i] # prev_on'[i - 1]
  BY <1>7 DEF IconInv, SameBlink, Blinking, Paired
<1>8. CASE RegisterLed \/ StartWorker \/ StopWorker \/ ForgetWorker \/ Aborted
  BY <1>7, <1>8 DEF RegisterLed, StartWorker, StopWorker, ForgetWorker, Aborted
<1>9. ASSUME NEW o \in [1 .. 3 -> Transfers], FinalWrites(o)
      PROVE  prev_on'[i] # prev_on'[i - 1]
  BY <1>7, <1>9 DEF FinalWrites, FinalStep
<1>10. CASE UNCHANGED vars
  BY <1>7, <1>10 DEF vars
<1>11. ASSUME NEW j \in LedIds, Begin(j)
      PROVE  prev_on'[i] # prev_on'[i - 1]
  BY <1>7, <1>11 DEF Begin
<1> QED
  BY <1>2, <1>3, <1>4, <1>5, <1>6, <1>8, <1>9, <1>10, <1>11
     DEF Next, Request, Worker, Lifecycle

(* The last writes of a removal put the panel into its final state, and     *)
(* nothing is written before the next probe.                                *)
LEMMA RemovedStep ==
    TypeOK /\ LifeInv /\ RemovedState /\ [Next]_vars => RemovedState'
<1> SUFFICES ASSUME TypeOK, LifeInv, RemovedState, [Next]_vars,
                    phase' = "removed", ~remove_fault',
                    NEW k \in LedIds \ BatteryLeds
             PROVE  lit'[k] <=> k = PowerLed
  BY DEF RemovedState
<1> USE DEF ledVars, lifeVars
<1>1. ASSUME NEW o \in [1 .. 3 -> Transfers], FinalWrites(o)
      PROVE  lit'[k] <=> k = PowerLed
  <2> DEFINE S == {t \in 1 .. 3 : o[t] # "ok"}
  <2>1. faults' = faults + Cardinality(S) /\ faults' = faults
    BY <1>1 DEF FinalWrites, FinalStep
  <2>2. IsFiniteSet(S) /\ Cardinality(S) \in Nat
    BY FS_Interval, FS_Subset, FS_CardinalityType, 1 \in Int, 3 \in Int
  <2>3. Cardinality(S) = 0
    <3> HIDE DEF S
    <3> QED
      BY <2>1, <2>2 DEF TypeOK
  <2>4. S = {}
    <3> HIDE DEF S
    <3> QED
      BY <2>2, <2>3, FS_EmptySet
  <2>5. \A t \in 1 .. 3 : o[t] = "ok"
    BY <2>4
  <2>6. o[LedRegister[k]] = "ok" /\ o[3] = "ok"
    BY <2>5 DEF Registers
  <2> QED
    BY <1>1, <2>6 DEF FinalWrites, Kept
<1>2. ASSUME UNCHANGED <<phase, lit, remove_fault>>
      PROVE  lit'[k] <=> k = PowerLed
  BY <1>2 DEF RemovedState
<1>3. CASE Request
  <2>1. CASE Serve
    <3>1. PICK i \in LedIds : request.led = i /\ UNCHANGED phase
      BY <2>1 DEF Serve, BrightnessSet, BlinkSet
    <3> QED
      BY <3>1, ServedLed DEF LifeInv
  <2>2. ASSUME NEW i \in LedIds, Begin(i) PROVE lit'[k] <=> k = PowerLed
    BY <1>2, <2>2 DEF Begin
  <2> QED
    BY <1>3, <2>1, <2>2 DEF Request
<1>4. CASE Worker
  BY <1>4 DEF Worker, Update
<1>5. CASE Probe \/ RegisterLed \/ StartWorker \/ StopWorker \/ ForgetWorker
           \/ Aborted
  BY <1>5 DEF Probe, RegisterLed, StartWorker, StopWorker, ForgetWorker, Aborted
<1>6. ASSUME NEW bad \in LedIds, NEW o \in Outcomes, InitLeds(bad, o)
      PROVE  FALSE
  BY <1>6 DEF InitLeds
<1>7. ASSUME NEW i \in LedIds, NEW o \in Outcomes, UnregisterLed(i, o)
      PROVE  FALSE
  BY <1>7 DEF UnregisterLed
<1>8. CASE UNCHANGED vars
  BY <1>2, <1>8 DEF vars
<1> QED
  BY <1>1, <1>3, <1>4, <1>5, <1>6, <1>7, <1>8 DEF Next, Lifecycle

-----------------------------------------------------------------------------
(* IInv is an invariant of the specification.                               *)
THEOREM Inductive == Spec => []IInv
<1>1. IInv /\ [Next]_vars => IInv'
  BY TypeStep, LifeStep, FollowStep, IconStep, RemovedStep DEF IInv
<1> QED
  BY InitIInv, <1>1, PTL DEF Spec

(* Type correctness; above all, interval counts never exceed the cap.       *)
THEOREM TypeCorrect == Spec => []TypeOK
BY Inductive, PTL DEF IInv

(* The worker's copy of a blinking LED's state is the register's.           *)
THEOREM RegisterFollowsAlways == Spec => []RegisterFollows
<1>1. IInv => RegisterFollows
  BY DEF IInv, FollowInv, RegisterFollows
<1> QED
  BY Inductive, <1>1, PTL

(* Two LEDs of an icon that blink alike are inverted after every round,     *)
(* unless one of them is disturbed: written past the blink logic or by an   *)
(* update that failed, and not toggled since.                               *)
THEOREM IconInvertedAfterRounds == Spec => []IconInverted
<1>1. IInv => IconInverted
  <2> SUFFICES ASSUME IInv, NEW i \in LedIds, fresh, SameBlink(i),
                      {i - 1, i} \cap disturbed = {}
               PROVE  lit[i] # lit[i - 1]
    BY DEF IconInverted
  <2>1. i - 1 \in LedIds
    BY DEF SameBlink, LedIds
  <2>2. lit[i] = prev_on[i] /\ lit[i - 1] = prev_on[i - 1]
    BY <2>1 DEF IInv, FollowInv, SameBlink
  <2> QED
    BY <2>2 DEF IInv, IconInv
<1> QED
  BY Inductive, <1>1, PTL

(* A removal without a failed transfer ends with the power LED alone.       *)
THEOREM RemovedStateAlways == Spec => []RemovedState
BY Inductive, PTL DEF IInv

(* Without a worker a battery LED changes only by the request that had      *)
(* tested worker_tsk before it was reset and still held the lock.           *)
THEOREM BatteryKeptAlways == Spec => BatteryKept
<1>1. IInv /\ [Next]_vars =>
        [~worker /\ ~worker' =>
            \A b \in BatteryLeds :
                lit'[b] = lit[b] \/ (request.led = b /\ ~request.spared)]_vars
  <2> SUFFICES ASSUME IInv, [Next]_vars, ~worker, ~worker',
                      NEW b \in BatteryLeds,
                      ~(request.led = b /\ ~request.spared)
               PROVE  lit'[b] = lit[b]
    OBVIOUS
  <2> USE DEF IInv, ledVars, lifeVars
  <2>1. b \in LedIds
    OBVIOUS
  <2>2. ASSUME NEW i \in LedIds, NEW on \in BOOLEAN, NEW spared,
               NEW o \in Outcomes, SetOne(i, on, spared, o), b # i \/ spared
        PROVE  lit'[b] = lit[b]
    BY <2>1, <2>2, SetOneValue
  <2>3. CASE Request
    <3>1. CASE Serve
      <4>1. PICK i \in LedIds, on \in BOOLEAN, o \in Outcomes :
                request.led = i /\ SetOne(i, on, request.spared, o)
        BY <3>1 DEF Serve, BrightnessSet, BlinkSet
      <4>2. b # i \/ request.spared
        BY <4>1
      <4> QED
        BY <2>2, <4>1, <4>2
    <3>2. ASSUME NEW i \in LedIds, Begin(i) PROVE lit'[b] = lit[b]
      BY <3>2 DEF Begin
    <3> QED
      BY <2>3, <3>1, <3>2 DEF Request
  <2>4. CASE Worker
    BY <2>4 DEF Worker, Update, LifeInv
  <2>5. CASE Probe \/ RegisterLed \/ StartWorker \/ StopWorker
             \/ ForgetWorker \/ Aborted
    BY <2>5 DEF Probe, RegisterLed, StartWorker, StopWorker, ForgetWorker,
                Aborted
  <2>6. ASSUME NEW bad \in LedIds, NEW o \in Outcomes, InitLeds(bad, o)
        PROVE  lit'[b] = lit[b]
    <3> DEFINE value == [i \in LedIds |-> i = PowerLed]
               first == AfterWrite(lit, (LedIds \ BatteryLeds) \ {bad}, value,
                                   "ok")
    <3>1. value \in [LedIds -> BOOLEAN]
      OBVIOUS
    <3>2. lit' = AfterWrite(first, {bad} \ BatteryLeds, value, o)
      BY <2>6 DEF InitLeds
    <3>3. lit'[b] = first[b] /\ first[b] = lit[b]
      <4> HIDE DEF value
      <4> QED
        BY <2>1, <3>1, <3>2, AfterWriteValue
    <3> QED
      BY <3>3
  <2>7. ASSUME NEW i \in LedIds, NEW o \in Outcomes, UnregisterLed(i, o)
        PROVE  lit'[b] = lit[b]
    BY <2>2, <2>7 DEF UnregisterLed, Spares
  <2>8. ASSUME NEW o \in [1 .. 3 -> Transfers], FinalWrites(o)
        PROVE  lit'[b] = lit[b]
    BY <2>1, <2>8 DEF FinalWrites
  <2>9. CASE UNCHANGED vars
    BY <2>9 DEF vars
  <2> QED
    BY <2>3, <2>4, <2>5, <2>6, <2>7, <2>8, <2>9 DEF Next, Lifecycle
<1> QED
  BY Inductive, <1>1, PTL DEF Spec, BatteryKept

(* A request starts a cycle at its beginning, a round stays within it.      *)
LEMMA CycleStep == TypeOK /\ LifeInv /\ InCycle /\ [Next]_vars => InCycle'
<1> SUFFICES ASSUME TypeOK, LifeInv, InCycle, [Next]_vars,
                    NEW k \in LedIds, Blinking(k)'
             PROVE  interval'[k] < delay_on'[k] + delay_off'[k]
  BY DEF InCycle
<1> USE DEF ledVars, lifeVars
<1>1. ASSUME NEW i \in LedIds, NEW on \in BOOLEAN, NEW o \in Outcomes,
             BrightnessSet(i, on, o)
      PROVE  interval'[k] < delay_on'[k] + delay_off'[k]
  BY <1>1 DEF BrightnessSet, Blinking, InCycle, TypeOK
<1>2. ASSUME NEW i \in LedIds, NEW on_ms \in Delays, NEW off_ms \in Delays,
             NEW o \in Outcomes, BlinkSet(i, on_ms, off_ms, o)
      PROVE  interval'[k] < delay_on'[k] + delay_off'[k]
  <2>1. CASE k = i
    <3>1. /\ interval'[k] = 0
          /\ delay_on'[k] = Intervals(on_ms) /\ delay_off'[k] = Intervals(off_ms)
      BY <1>2, <2>1 DEF BlinkSet, TypeOK
    <3>2. delay_on'[k] # 0 /\ delay_off'[k] # 0
      BY DEF Blinking
    <3> QED
      BY <3>1, <3>2, IntervalsType
  <2>2. CASE k # i
    BY <1>2, <2>2 DEF BlinkSet, Blinking, InCycle, TypeOK
  <2> QED
    BY <2>1, <2>2
<1>3. ASSUME NEW o \in [Registers -> Outcomes], Update(o)
      PROVE  interval'[k] < delay_on'[k] + delay_off'[k]
  <2>1. Blinking(k) /\ delay_on' = delay_on /\ delay_off' = delay_off
    BY <1>3 DEF Update, Blinking
  <2>2. interval'[k] = NextInterval(k)
    BY <1>3 DEF Update
  <2> QED
    BY <2>1, <2>2 DEF NextInterval, Blinking, TypeOK
<1>4. CASE Probe
  BY <1>4 DEF Probe, All, Blinking
<1>5. ASSUME NEW i \in LedIds, NEW o \in Outcomes, UnregisterLed(i, o)
      PROVE  interval'[k] < delay_on'[k] + delay_off'[k]
  BY <1>5 DEF UnregisterLed, Blinking, InCycle, TypeOK
<1>6. ASSUME UNCHANGED ledVars
      PROVE  interval'[k] < delay_on'[k] + delay_off'[k]
  BY <1>6 DEF Blinking, InCycle
<1>7. ASSUME NEW bad \in LedIds, NEW o \in Outcomes, InitLeds(bad, o)
      PROVE  UNCHANGED ledVars
  BY <1>7 DEF InitLeds
<1>8. CASE RegisterLed \/ StartWorker \/ StopWorker \/ ForgetWorker \/ Aborted
  BY <1>6, <1>8 DEF RegisterLed, StartWorker, StopWorker, ForgetWorker, Aborted
<1>9. ASSUME NEW o \in [1 .. 3 -> Transfers], FinalWrites(o)
      PROVE  UNCHANGED ledVars
  BY <1>9 DEF FinalWrites, FinalStep
<1>10. CASE UNCHANGED vars
  BY <1>6, <1>10 DEF vars
<1>11. ASSUME NEW i \in LedIds, Begin(i)
      PROVE  UNCHANGED ledVars
  BY <1>11 DEF Begin
<1> QED
  BY <1>1, <1>2, <1>3, <1>4, <1>5, <1>6, <1>7, <1>8, <1>9, <1>10, <1>11
     DEF Next, Request, Serve, Worker, Lifecycle

(* A blinking LED is always within its cycle.                               *)
THEOREM InCycleAlways == Spec => []InCycle
<1>1. Init => InCycle
  BY DEF Init, All, InCycle, Blinking
<1>2. IInv /\ InCycle /\ [Next]_vars => InCycle'
  BY CycleStep DEF IInv
<1> QED
  BY Inductive, <1>1, <1>2, PTL DEF Spec

(* Every round brings the turn of every blinking LED one round nearer.      *)
THEOREM RoundsTurnAlways == Spec => RoundsTurn
<1> DEFINE Turns(i) ==
             /\ i \notin disturbed' => lit'[i] = StateOn(i)
             /\ RoundsLeft(i) \in 1 .. MaxInterval
             /\ IF RoundsLeft(i) = 1
                THEN OnPhase(i)' # OnPhase(i)
                ELSE /\ OnPhase(i)' = OnPhase(i)
                     /\ RoundsLeft(i)' = RoundsLeft(i) - 1
           A == Worker => \A i \in LedIds : Blinking(i) => Turns(i)
<1>1. IInv /\ InCycle => A
  <2> SUFFICES ASSUME TypeOK, FollowInv, InCycle,
                      NEW o \in [Registers -> Outcomes], Update(o),
                      NEW i \in LedIds, Blinking(i)
               PROVE  Turns(i)
    BY DEF IInv, Worker
  <2>1. i \notin disturbed' => lit'[i] = StateOn(i)
    BY RoundFollows
  <2>2. /\ delay_on' = delay_on /\ delay_off' = delay_off
        /\ interval'[i] = NextInterval(i)
    BY DEF Update
  <2>3. /\ delay_on[i] \in 1 .. MaxInterval /\ delay_off[i] \in 1 .. MaxInterval
        /\ interval[i] \in Nat /\ interval[i] < delay_on[i] + delay_off[i]
    BY DEF Blinking, InCycle, TypeOK
  <2>4. CASE OnPhase(i)
    <3>1. /\ RoundsLeft(i) = delay_on[i] - interval[i]
          /\ interval'[i] = interval[i] + 1
      BY <2>2, <2>3, <2>4 DEF RoundsLeft, OnPhase, NextInterval
    <3> QED
      BY <2>1, <2>2, <2>3, <2>4, <3>1 DEF OnPhase, RoundsLeft
  <2>5. CASE ~OnPhase(i)
    <3>1. RoundsLeft(i) = delay_on[i] + delay_off[i] - interval[i]
      BY <2>3, <2>5 DEF RoundsLeft, OnPhase
    <3>2. interval'[i] = IF RoundsLeft(i) = 1 THEN 0 ELSE interval[i] + 1
      BY <2>2, <2>3, <3>1 DEF NextInterval
    <3> QED
      BY <2>1, <2>2, <2>3, <2>5, <3>1, <3>2 DEF OnPhase, RoundsLeft
  <2> QED
    BY <2>4, <2>5
<1>2. IInv /\ InCycle /\ [Next]_vars => [A]_vars
  BY <1>1
<1> QED
  BY Inductive, InCycleAlways, <1>2, PTL DEF Spec, RoundsTurn

(* A blink request whose delays do not overflow makes the LED blink.        *)
THEOREM BlinkAcceptedAlways == Spec => BlinkAccepted
<1> DEFINE A == \A i \in LedIds :
                  (~Blinking(i))' =>
                      \A on_ms, off_ms \in Accepted, o \in Outcomes :
                          ~BlinkSet(i, on_ms, off_ms, o)
<1>1. TypeOK => A
  <2> SUFFICES ASSUME TypeOK, NEW i \in LedIds, NEW on_ms \in Accepted,
                      NEW off_ms \in Accepted, NEW o \in Outcomes,
                      BlinkSet(i, on_ms, off_ms, o)
               PROVE  Blinking(i)'
    OBVIOUS
  <2>1. delay_on'[i] = Intervals(on_ms) /\ delay_off'[i] = Intervals(off_ms)
    BY DEF BlinkSet, TypeOK
  <2> QED
    BY <2>1, IntervalsPositive DEF Blinking
<1>2. TypeOK /\ [Next]_vars => [A]_vars
  BY <1>1
<1> QED
  BY TypeCorrect, <1>2, PTL DEF Spec, BlinkAccepted
=============================================================================

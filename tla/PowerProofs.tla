---------------------------- MODULE PowerProofs ----------------------------
(***************************************************************************)
(* Theorems about Power for any set of tasks, any calls and answers and any *)
(* number of faults.  The inductive invariant follows each call through the *)
(* command channel: what it was told so far is what became of its steps,    *)
(* what the battery answered is on its way to it, and which of two LEDs a   *)
(* running test mode call has changed.                                      *)
(***************************************************************************)
EXTENDS Power, TLAPS

-----------------------------------------------------------------------------
(* Conversions *)

(* The bounds of the code's int.                                            *)
FitsInt(n) == n \in Int /\ -2147483648 <= n /\ n <= 2147483647

LEMMA RawType ==
    ASSUME NEW raw \in RawValues
    PROVE  raw \in Int /\ 1 <= raw /\ raw <= 65535
<1>1. raw \in Readings
  BY PowerAssumption
<1> QED  BY <1>1, SMT DEF Readings

LEMMA ConvertCases ==
    ASSUME NEW message, NEW raw
    PROVE  Convert(message, raw) \in {raw * 60, raw * 1000, raw - 2732, raw}
<1>1. CASE message = "time"
  BY <1>1 DEF Convert
<1>2. CASE message = "micro"
  BY <1>2 DEF Convert
<1>3. CASE message = "temp"
  BY <1>3 DEF Convert
<1>4. CASE message \notin {"time", "micro", "temp"}
  BY <1>4 DEF Convert
<1> QED  BY <1>1, <1>2, <1>3, <1>4

LEMMA ConvertTemp ==
    ASSUME NEW raw
    PROVE  Convert("temp", raw) = raw - 2732
BY DEF Convert

(* No product of the conversions leaves the 32 bits of the code's int, for  *)
(* whatever 16 bits the chip answers; a voltage is at most 28.675 V.        *)
THEOREM ConversionsFit ==
    ASSUME NEW raw \in Int, 0 <= raw, raw <= 65535, NEW message
    PROVE  /\ FitsInt(Convert(message, raw))
           /\ FitsInt(2500 * (104700 + 10000))
           /\ FitsInt((raw % (AdcMax + 1)) * VrefComp)
           /\ Voltage(raw) \in Int /\ 0 <= Voltage(raw) /\ Voltage(raw) <= 28675000
<1>1. FitsInt(Convert(message, raw))
  <2> DEFINE n == Convert(message, raw)
  <2>1. n \in {raw * 60, raw * 1000, raw - 2732, raw}
    BY ConvertCases
  <2> HIDE DEF n
  <2>2. n \in Int /\ -2147483648 <= n /\ n <= 2147483647
    BY <2>1, SMT
  <2> QED  BY <2>2 DEF FitsInt, n
<1>2. VrefComp = 28675
  BY SMT DEF VrefComp
<1>3. FitsInt(2500 * (104700 + 10000))
  BY SMT DEF FitsInt
<1> DEFINE sample == raw % 1024
           millis == sample * 28675
           volts == millis \div 1023
<1>4. sample \in Int /\ 0 <= sample /\ sample <= 1023
  BY SMT
<1>5. Voltage(raw) = volts * 1000 /\ (raw % (AdcMax + 1)) * VrefComp = millis
  BY <1>2, SMT DEF Voltage, AdcMax
<1> HIDE DEF sample
<1>6. millis \in Int /\ 0 <= millis /\ millis <= 29334525
  BY <1>4, SMT
<1> HIDE DEF millis
<1>7. volts \in Int /\ 0 <= volts /\ volts <= 28675
  BY <1>6, SMT
<1> HIDE DEF volts
<1>8. FitsInt(millis)
  BY <1>6, SMT DEF FitsInt
<1>9. volts * 1000 \in Int /\ 0 <= volts * 1000 /\ volts * 1000 <= 28675000
  BY <1>7, SMT
<1> QED  BY <1>1, <1>3, <1>5, <1>8, <1>9, SMT

LEMMA ConvertType ==
    ASSUME NEW message, NEW raw \in Int
    PROVE  Convert(message, raw) \in Int
<1> DEFINE n == Convert(message, raw)
<1>1. n \in {raw * 60, raw * 1000, raw - 2732, raw}
  BY ConvertCases
<1> HIDE DEF n
<1>2. n \in Int
  BY <1>1, SMT
<1> QED  BY <1>2 DEF n

LEMMA PowerSourceType ==
    ASSUME NEW reg
    PROVE  PowerSource(reg) \in 0 .. 4
<1> DEFINE A(n) == Active(reg, n)
           First(n) == A(n) /\ \A m \in 1 .. n - 1 : ~A(m)
<1>1. ASSUME \E n \in 1 .. 4 : A(n)
      PROVE  \E n \in 1 .. 4 : First(n)
  <2> HIDE DEF A
  <2>1. PICK n \in 1 .. 4 : A(n)
    BY <1>1
  <2>2. n \in {1, 2, 3, 4}
    BY <2>1
  <2>3. CASE A(1)
    <3>1. 1 \in 1 .. 4 /\ \A m \in 1 .. 1 - 1 : ~A(m)
      BY SMT
    <3> QED  BY <2>3, <3>1
  <2>4. CASE ~A(1) /\ A(2)
    <3>1. 2 \in 1 .. 4 /\ \A m \in 1 .. 2 - 1 : m = 1
      BY SMT
    <3> QED  BY <2>4, <3>1
  <2>5. CASE ~A(1) /\ ~A(2) /\ A(3)
    <3>1. 3 \in 1 .. 4 /\ \A m \in 1 .. 3 - 1 : m = 1 \/ m = 2
      BY SMT
    <3> QED  BY <2>5, <3>1
  <2>6. CASE ~A(1) /\ ~A(2) /\ ~A(3)
    <3>1. A(4)
      BY <2>1, <2>2, <2>6
    <3>2. 4 \in 1 .. 4 /\ \A m \in 1 .. 4 - 1 : m = 1 \/ m = 2 \/ m = 3
      BY SMT
    <3> QED  BY <2>6, <3>1, <3>2
  <2> QED  BY <2>3, <2>4, <2>5, <2>6
<1>2. PowerSource(reg) = IF \E n \in 1 .. 4 : A(n)
                         THEN CHOOSE n \in 1 .. 4 : First(n) ELSE 0
  BY DEF PowerSource
<1> HIDE DEF First, A
<1>3. CASE \E n \in 1 .. 4 : A(n)
  <2>1. PowerSource(reg) \in 1 .. 4
    BY <1>1, <1>2, <1>3
  <2> QED  BY <2>1
<1>4. CASE ~\E n \in 1 .. 4 : A(n)
  BY <1>2, <1>4
<1> QED  BY <1>3, <1>4

LEMMA ReadValueType ==
    ASSUME NEW call, NEW reg \in RawValues
    PROVE  ReadValue(call, reg) \in Int
<1>1. reg \in Int /\ 0 <= reg /\ reg <= 65535
  BY RawType, SMT
<1>2. Voltage(reg) \in Int /\ PowerSource(reg) \in Int
  BY <1>1, ConversionsFit, PowerSourceType
<1>3. reg % 2 \in Int /\ (reg % 256) * 256 + reg \div 256 \in Int
  BY <1>1, SMT
<1> DEFINE n == ReadValue(call, reg)
<1>4. n \in {reg % 2, Voltage(reg), PowerSource(reg), (reg % 256) * 256 + reg \div
    256, reg}
  <2>1. CASE call = "present"
    BY <2>1 DEF ReadValue
  <2>2. CASE call = "voltage"
    BY <2>2 DEF ReadValue
  <2>3. CASE call = "source"
    BY <2>3 DEF ReadValue
  <2>4. CASE call = "onewire"
    BY <2>4 DEF ReadValue
  <2>5. CASE call \notin {"present", "voltage", "source", "onewire"}
    BY <2>5 DEF ReadValue
  <2> QED  BY <2>1, <2>2, <2>3, <2>4, <2>5
<1>5. reg \in Int
  BY <1>1
<1> HIDE DEF n
<1>6. n \in Int
  BY <1>2, <1>3, <1>4, <1>5, Zenon
<1> QED  BY <1>6 DEF n

-----------------------------------------------------------------------------
(* The invariant *)

Busy(c)  == pc[c] \in {"msg", "led0", "led1"}
Waits(c) == c \in asking \/ c = served

(* The channel works for busy tasks only, and what it has told a task is    *)
(* what the history says of its steps.                                      *)
CallInv ==
    /\ served = NoClient => done = "none"
    /\ served \notin asking
    /\ \A c \in Clients :
          /\ Waits(c) => Busy(c) /\ c \notin failed /\ result[c] = "none"
          /\ Busy(c) /\ ~Waits(c) => /\ result[c] # "none"
                                     /\ result[c] = "ok" <=> c \notin failed
          /\ pc[c] \in {"idle", "check"} => c \notin failed
          /\ pc[c] = "back" => (rv[c] = "ok" <=> c \notin failed)

(* The battery's answer on its way to the task, and the missing battery.    *)
AnswerInv ==
    /\ served # NoClient /\ done = "ok" => (pc[served] = "msg" => answer \in RawValues)
    /\ \A c \in Clients :
          /\ LedRunning(c) => op[c] \in LedCalls
          /\ c \in absent => pc[c] = "back"
          /\ pc[c] = "msg" /\ ~Waits(c) /\ result[c] = "ok" /\ op[c] = "temp" =>
                value[c] > -2732
          /\ pc[c] = "back" /\ op[c] = "temp" /\ rv[c] = "ok" =>
                (value[c] <= -2732 <=> c \in absent)

(* The first, or the second command of an LED call was executed.            *)
Acted(c) == (c = served /\ done = "ok") \/ (~Waits(c) /\ result[c] = "ok")
Changed0(c) == pc[c] = "led1" \/ (pc[c] = "led0" /\ Acted(c))
Changed1(c) == pc[c] = "led1" /\ Acted(c)

(* A call that met no other runs alone and has changed what it should; with *)
(* no change under way, the LEDs agree unless a call was split.             *)
LedInv ==
    /\ \A c \in Clients : LedRunning(c) /\ c \notin overlap =>
          /\ \A d \in Clients : LedRunning(d) => d = c
          /\ Changed0(c) => test_mode[0] = (op[c] = "enable")
          /\ Changed1(c) => test_mode[1] = (op[c] = "enable")
    /\ ~split /\ (\A c \in Clients : ~Changed0(c)) => test_mode[0] = test_mode[1]

(* A message that is under way without a battery lost it on the way.        *)
BatteryInv == (\E c \in Clients : pc[c] = "msg") /\ ~present => unplugged

IInv == TypeOK /\ CallInv /\ AnswerInv /\ LedInv /\ BatteryInv

LEMMA ModeSetType ==
    ASSUME TypeOK
    PROVE  ModeSet \in [{0, 1} -> BOOLEAN]
<1>1. ModeSet \in {test_mode, [test_mode EXCEPT ![0] = (op[served] = "enable")],
                   [test_mode EXCEPT ![1] = (op[served] = "enable")]}
  BY DEF ModeSet
<1> QED  BY <1>1 DEF TypeOK

LEMMA InitIInv == Init => IInv
<1> SUFFICES ASSUME Init  PROVE IInv
  OBVIOUS
<1>1. TypeOK
  <2>1. 0 \in 0 .. MaxFaults /\ 0 \in 0 .. MaxSwaps
    BY PowerAssumption
  <2>2. test_mode \in [{0, 1} -> BOOLEAN] /\ value \in [Clients -> Int]
    BY DEF Init
  <2>3. split \in BOOLEAN /\ unplugged \in BOOLEAN
    BY DEF Init
  <2> QED  BY <2>1, <2>2, <2>3 DEF Init, TypeOK, Channel!Init, Codes,
      Channel!Outcomes
<1>2. CallInv
  BY PowerAssumption DEF Init, CallInv, Channel!Init, Busy, Waits
<1>3. AnswerInv
  BY DEF Init, AnswerInv, Channel!Init, LedRunning
<1>4. LedInv
  BY DEF Init, LedInv, Channel!Init, LedRunning, Changed0
<1>5. BatteryInv
  BY DEF Init, BatteryInv
<1> QED  BY <1>1, <1>2, <1>3, <1>4, <1>5 DEF IInv

LEMMA NobodyIsNoTask == \A c \in Clients : c # NoClient
BY PowerAssumption

LEMMA FaultType ==
    ASSUME TypeOK, Fault
    PROVE  faults' \in 0 .. MaxFaults
BY PowerAssumption DEF TypeOK, Fault

(* Every action keeps the types.                                            *)
LEMMA TypeStep ==
    ASSUME TypeOK, [Next]_vars
    PROVE  TypeOK'
<1>1. ASSUME NEW c \in Clients, NEW call \in Calls \cap Messages, BeginMessage(c,
    call)
      PROVE  TypeOK'
  BY <1>1 DEF TypeOK, Codes, Channel!Outcomes, BeginMessage, channelVars,
      callVars, boundVars, histVars
<1>2. ASSUME NEW c \in Clients, NEW call \in Calls \cap LedCalls, BeginLed(c, call)
      PROVE  TypeOK'
  BY <1>2 DEF TypeOK, Codes, Channel!Outcomes, BeginLed, Channel!Ask, LedRunning,
      channelVars, callVars, boundVars, histVars
<1>3. ASSUME NEW c \in Clients, NEW call \in Calls \cap Reads, Read(c, call)
      PROVE  TypeOK'
  <2>1. \A reg \in RawValues : ReadValue(call, reg) \in Int
    BY ReadValueType
  <2>2. value' \in [Clients -> Int] /\ rv' \in [Clients -> Codes \cup {"none"}]
    BY <1>3, <2>1 DEF TypeOK, Read, Return, Codes
  <2>3. faults' \in 0 .. MaxFaults
    BY <1>3, FaultType DEF TypeOK, Read
  <2> QED  BY <1>3, <2>2, <2>3 DEF TypeOK, Codes, Channel!Outcomes, channelVars,
      callVars, boundVars, histVars, Read, Return
<1>4. ASSUME NEW c \in Clients, Leave(c)
      PROVE  TypeOK'
  BY <1>4 DEF TypeOK, Codes, Channel!Outcomes, Leave, channelVars, callVars,
      boundVars, histVars
<1>5. ASSUME NEW c \in Clients, CheckAbsent(c)
      PROVE  TypeOK'
  <2>1. Convert(op[c], 0) \in Int
    BY ConvertType
  <2> QED  BY <1>5, <2>1 DEF TypeOK, Codes, Channel!Outcomes, channelVars,
      callVars, boundVars, histVars, CheckAbsent, Return
<1>6. ASSUME NEW c \in Clients, CheckPresent(c)
      PROVE  TypeOK'
  BY <1>6 DEF TypeOK, Codes, Channel!Outcomes, CheckPresent, Channel!Ask,
      channelVars, callVars, boundVars, histVars
<1>7. ASSUME NEW c \in Clients, CheckFails(c)
      PROVE  TypeOK'
  <2>1. faults' \in 0 .. MaxFaults
    BY <1>7, FaultType DEF CheckFails
  <2> QED  BY <1>7, <2>1 DEF TypeOK, Codes, Channel!Outcomes, channelVars,
      callVars, boundVars, histVars, CheckFails, Return
<1>8. ASSUME NEW c \in Clients, MessageReturns(c)
      PROVE  TypeOK'
  BY <1>8 DEF TypeOK, Codes, Channel!Outcomes, MessageReturns, Return, Told,
      channelVars, callVars, boundVars, histVars
<1>9. ASSUME NEW c \in Clients, SecondLed(c)
      PROVE  TypeOK'
  BY <1>9 DEF TypeOK, Codes, Channel!Outcomes, SecondLed, Channel!Ask, Told,
      channelVars, callVars, boundVars, histVars
<1>10. ASSUME NEW c \in Clients, LedReturns(c)
       PROVE  TypeOK'
  BY <1>10 DEF TypeOK, Codes, Channel!Outcomes, LedReturns, Return, Told,
      LedRunning, channelVars, callVars, boundVars, histVars
<1>11. ASSUME NEW c \in Clients, GiveUp(c)
       PROVE  TypeOK'
  BY <1>11 DEF TypeOK, Codes, Channel!Outcomes, GiveUp, Channel!GiveUp,
      channelVars, callVars, boundVars, histVars
<1>12. ASSUME NEW c \in Clients, Serve(c)
       PROVE  TypeOK'
  BY <1>12 DEF TypeOK, Codes, Channel!Outcomes, Serve, Channel!Serve, channelVars,
      callVars, boundVars, histVars
<1>13. ASSUME Executes
       PROVE  TypeOK'
  <2>1. test_mode' \in [{0, 1} -> BOOLEAN]
    BY <1>13, ModeSetType DEF Executes
  <2> QED  BY <1>13, <2>1 DEF TypeOK, Codes, Channel!Outcomes, channelVars,
      callVars, boundVars, histVars, Executes, Channel!Execute
<1>14. ASSUME Rejects
       PROVE  TypeOK'
  <2>1. faults' \in 0 .. MaxFaults
    BY <1>14, FaultType DEF Rejects
  <2> QED  BY <1>14, <2>1 DEF TypeOK, Codes, Channel!Outcomes, channelVars,
      callVars, boundVars, histVars, Rejects, Channel!Execute
<1>15. ASSUME Replies
       PROVE  TypeOK'
  <2>1. served \in Clients
    BY <1>15 DEF TypeOK, Replies, Channel!Reply
  <2>2. answer \in Int
    BY RawType DEF TypeOK
  <2>3. Convert(op[served], answer) \in Int
    BY <2>2, ConvertType
  <2>4. value' \in [Clients -> Int]
    BY <1>15, <2>1, <2>3 DEF TypeOK, Replies
  <2>5. result' \in [Clients -> Codes \cup {"none"}]
    BY <1>15, <2>1 DEF TypeOK, Replies, Channel!Reply, Channel!Replies, Codes
  <2> QED  BY <1>15, <2>1, <2>4, <2>5 DEF TypeOK, Codes, Channel!Outcomes,
      channelVars, callVars, boundVars, histVars, Replies, Channel!Reply
<1>16. ASSUME RepliesEio
       PROVE  TypeOK'
  <2>1. faults' \in 0 .. MaxFaults
    BY <1>16, FaultType DEF RepliesEio
  <2>2. served \in Clients /\ result' \in [Clients -> Codes \cup {"none"}]
    BY <1>16 DEF TypeOK, RepliesEio, Channel!Reply, Channel!Replies, Codes
  <2>3. test_mode' \in [{0, 1} -> BOOLEAN] /\ split' \in BOOLEAN
    BY <1>16, ModeSetType DEF TypeOK, RepliesEio
  <2> QED  BY <1>16, <2>1, <2>2, <2>3 DEF TypeOK, Codes, Channel!Outcomes, channelVars,
      callVars, boundVars, histVars, RepliesEio, Channel!Reply
<1>17. ASSUME Swap
       PROVE  TypeOK'
  <2>1. swaps' \in 0 .. MaxSwaps /\ present' \in BOOLEAN
    BY <1>17, PowerAssumption DEF TypeOK, Swap
  <2>2. unplugged' \in BOOLEAN
    BY <1>17 DEF TypeOK, Swap
  <2> QED  BY <1>17, <2>1, <2>2 DEF TypeOK, Swap, channelVars, callVars
<1>18. CASE UNCHANGED vars
  BY <1>18 DEF TypeOK, Codes, Channel!Outcomes, vars, channelVars, callVars,
      boundVars, histVars
<1> QED
  BY <1>1, <1>2, <1>3, <1>4, <1>5, <1>6, <1>7, <1>8,
     <1>9, <1>10, <1>11, <1>12, <1>13, <1>14, <1>15, <1>16,
     <1>17, <1>18
     DEF Next, Task, Chip

(* Every action keeps the channel and the calls in step.                    *)
LEMMA CallStep ==
    ASSUME TypeOK, CallInv, [Next]_vars
    PROVE  CallInv'
<1>1. ASSUME NEW c \in Clients, NEW call \in Calls \cap Messages, BeginMessage(c,
    call)
      PROVE  CallInv'
  BY <1>1 DEF TypeOK, Codes, Channel!Outcomes, CallInv, Busy, Waits, BeginMessage,
      channelVars, callVars, boundVars, histVars
<1>2. ASSUME NEW c \in Clients, NEW call \in Calls \cap LedCalls, BeginLed(c, call)
      PROVE  CallInv'
  BY <1>2 DEF TypeOK, Codes, Channel!Outcomes, CallInv, Busy, Waits, BeginLed,
      Channel!Ask, LedRunning, channelVars, callVars, boundVars, histVars
<1>3. ASSUME NEW c \in Clients, NEW call \in Calls \cap Reads, Read(c, call)
      PROVE  CallInv'
  BY <1>3 DEF TypeOK, Codes, Channel!Outcomes, CallInv, Busy, Waits, Read, Return,
      Fault, channelVars, callVars, boundVars, histVars
<1>4. ASSUME NEW c \in Clients, Leave(c)
      PROVE  CallInv'
  BY <1>4 DEF TypeOK, Codes, Channel!Outcomes, CallInv, Busy, Waits, Leave,
      channelVars, callVars, boundVars, histVars
<1>5. ASSUME NEW c \in Clients, CheckAbsent(c)
      PROVE  CallInv'
  BY <1>5 DEF TypeOK, Codes, Channel!Outcomes, CallInv, Busy, Waits, CheckAbsent,
      Return, channelVars, callVars, boundVars, histVars
<1>6. ASSUME NEW c \in Clients, CheckPresent(c)
      PROVE  CallInv'
  BY <1>6 DEF TypeOK, Codes, Channel!Outcomes, CallInv, Busy, Waits, CheckPresent,
      Channel!Ask, channelVars, callVars, boundVars, histVars
<1>7. ASSUME NEW c \in Clients, CheckFails(c)
      PROVE  CallInv'
  BY <1>7 DEF TypeOK, Codes, Channel!Outcomes, CallInv, Busy, Waits, CheckFails,
      Return, Fault, channelVars, callVars, boundVars, histVars
<1>8. ASSUME NEW c \in Clients, MessageReturns(c)
      PROVE  CallInv'
  BY <1>8 DEF TypeOK, Codes, Channel!Outcomes, CallInv, Busy, Waits,
      MessageReturns, Return, Told, channelVars, callVars, boundVars, histVars
<1>9. ASSUME NEW c \in Clients, SecondLed(c)
      PROVE  CallInv'
  BY <1>9 DEF TypeOK, Codes, Channel!Outcomes, CallInv, Busy, Waits, SecondLed,
      Channel!Ask, Told, channelVars, callVars, boundVars, histVars
<1>10. ASSUME NEW c \in Clients, LedReturns(c)
       PROVE  CallInv'
  BY <1>10 DEF TypeOK, Codes, Channel!Outcomes, CallInv, Busy, Waits, LedReturns,
      Return, Told, LedRunning, channelVars, callVars, boundVars, histVars
<1>11. ASSUME NEW c \in Clients, GiveUp(c)
       PROVE  CallInv'
  BY <1>11, NobodyIsNoTask DEF TypeOK, Codes, Channel!Outcomes, CallInv, Busy,
      Waits, channelVars, callVars, boundVars, histVars, GiveUp, Channel!GiveUp
<1>12. ASSUME NEW c \in Clients, Serve(c)
       PROVE  CallInv'
  BY <1>12, NobodyIsNoTask DEF TypeOK, Codes, Channel!Outcomes, CallInv, Busy,
      Waits, channelVars, callVars, boundVars, histVars, Serve, Channel!Serve
<1>13. ASSUME Executes
       PROVE  CallInv'
  BY <1>13, NobodyIsNoTask DEF TypeOK, Codes, Channel!Outcomes, CallInv, Busy,
      Waits, channelVars, callVars, boundVars, histVars, Executes, Channel!Execute
<1>14. ASSUME Rejects
       PROVE  CallInv'
  BY <1>14, NobodyIsNoTask DEF TypeOK, Codes, Channel!Outcomes, CallInv, Busy,
      Waits, channelVars, callVars, boundVars, histVars, Rejects, Channel!Execute,
      Fault
<1>15. ASSUME Replies
       PROVE  CallInv'
  BY <1>15, NobodyIsNoTask DEF TypeOK, Codes, Channel!Outcomes, CallInv, Busy,
      Waits, channelVars, callVars, boundVars, histVars, Replies, Channel!Reply,
      Channel!Replies
<1>16. ASSUME RepliesEio
       PROVE  CallInv'
  BY <1>16, NobodyIsNoTask DEF TypeOK, Codes, Channel!Outcomes, CallInv, Busy,
      Waits, channelVars, callVars, boundVars, histVars, RepliesEio,
      Channel!Reply, Channel!Replies, Fault
<1>17. ASSUME Swap
       PROVE  CallInv'
  BY <1>17 DEF TypeOK, Codes, Channel!Outcomes, CallInv, Busy, Waits, Swap,
      channelVars, callVars, boundVars, histVars
<1>18. CASE UNCHANGED vars
  BY <1>18 DEF TypeOK, Codes, Channel!Outcomes, CallInv, Busy, Waits, vars,
      channelVars, callVars, boundVars, histVars
<1> QED
  BY <1>1, <1>2, <1>3, <1>4, <1>5, <1>6, <1>7, <1>8,
     <1>9, <1>10, <1>11, <1>12, <1>13, <1>14, <1>15, <1>16,
     <1>17, <1>18
     DEF Next, Task, Chip

(* Every action keeps the battery's answers.                                *)
LEMMA AnswerStep ==
    ASSUME TypeOK, CallInv, AnswerInv, [Next]_vars
    PROVE  AnswerInv'
<1>1. ASSUME NEW c \in Clients, NEW call \in Calls \cap Messages, BeginMessage(c,
    call)
      PROVE  AnswerInv'
  BY <1>1 DEF TypeOK, CallInv, AnswerInv, Busy, Waits, LedRunning, Messages,
      LedCalls, BeginMessage, channelVars, callVars, boundVars, histVars
<1>2. ASSUME NEW c \in Clients, NEW call \in Calls \cap LedCalls, BeginLed(c, call)
      PROVE  AnswerInv'
  BY <1>2 DEF TypeOK, CallInv, AnswerInv, Busy, Waits, LedRunning, Messages,
      LedCalls, BeginLed, Channel!Ask, LedRunning, channelVars, callVars,
      boundVars, histVars
<1>3. ASSUME NEW c \in Clients, NEW call \in Calls \cap Reads, Read(c, call)
      PROVE  AnswerInv'
  BY <1>3 DEF TypeOK, CallInv, AnswerInv, Busy, Waits, LedRunning, Messages,
      LedCalls, channelVars, callVars, boundVars, histVars, Reads, Read, Return
<1>4. ASSUME NEW c \in Clients, Leave(c)
      PROVE  AnswerInv'
  BY <1>4 DEF TypeOK, CallInv, AnswerInv, Busy, Waits, LedRunning, Messages,
      LedCalls, Leave, channelVars, callVars, boundVars, histVars
<1>5. ASSUME NEW c \in Clients, CheckAbsent(c)
      PROVE  AnswerInv'
  <2>1. op[c] = "temp" => Convert(op[c], 0) = -2732
    BY ConvertTemp
  <2>2. value' = [value EXCEPT ![c] = Convert(op[c], 0)]
    BY <1>5 DEF CheckAbsent
  <2> DEFINE zero == Convert(op[c], 0)
  <2> HIDE DEF zero
  <2> QED  BY <1>5, <2>1, <2>2 DEF TypeOK, CallInv, AnswerInv, Busy, Waits,
      LedRunning, Messages, LedCalls, channelVars, callVars, boundVars, histVars,
      CheckAbsent, Return
<1>6. ASSUME NEW c \in Clients, CheckPresent(c)
      PROVE  AnswerInv'
  BY <1>6 DEF TypeOK, CallInv, AnswerInv, Busy, Waits, LedRunning, Messages,
      LedCalls, CheckPresent, Channel!Ask, channelVars, callVars, boundVars,
      histVars
<1>7. ASSUME NEW c \in Clients, CheckFails(c)
      PROVE  AnswerInv'
  BY <1>7 DEF TypeOK, CallInv, AnswerInv, Busy, Waits, LedRunning, Messages,
      LedCalls, CheckFails, Return, Fault, channelVars, callVars, boundVars,
      histVars
<1>8. ASSUME NEW c \in Clients, MessageReturns(c)
      PROVE  AnswerInv'
  BY <1>8 DEF TypeOK, CallInv, AnswerInv, Busy, Waits, LedRunning, Messages,
      LedCalls, MessageReturns, Return, Told, channelVars, callVars, boundVars,
      histVars
<1>9. ASSUME NEW c \in Clients, SecondLed(c)
      PROVE  AnswerInv'
  BY <1>9 DEF TypeOK, CallInv, AnswerInv, Busy, Waits, LedRunning, Messages,
      LedCalls, SecondLed, Channel!Ask, Told, channelVars, callVars, boundVars,
      histVars
<1>10. ASSUME NEW c \in Clients, LedReturns(c)
       PROVE  AnswerInv'
  BY <1>10 DEF TypeOK, CallInv, AnswerInv, Busy, Waits, LedRunning, Messages,
      LedCalls, LedReturns, Return, Told, LedRunning, channelVars, callVars,
      boundVars, histVars
<1>11. ASSUME NEW c \in Clients, GiveUp(c)
       PROVE  AnswerInv'
  BY <1>11, NobodyIsNoTask DEF TypeOK, CallInv, AnswerInv, Busy, Waits,
      LedRunning, Messages, LedCalls, channelVars, callVars, boundVars, histVars,
      GiveUp, Channel!GiveUp
<1>12. ASSUME NEW c \in Clients, Serve(c)
       PROVE  AnswerInv'
  BY <1>12, NobodyIsNoTask DEF TypeOK, CallInv, AnswerInv, Busy, Waits,
      LedRunning, Messages, LedCalls, channelVars, callVars, boundVars, histVars,
      Serve, Channel!Serve
<1>13. ASSUME Executes
       PROVE  AnswerInv'
  BY <1>13, NobodyIsNoTask DEF TypeOK, CallInv, AnswerInv, Busy, Waits,
      LedRunning, Messages, LedCalls, channelVars, callVars, boundVars, histVars,
      Executes, Channel!Execute
<1>14. ASSUME Rejects
       PROVE  AnswerInv'
  BY <1>14, NobodyIsNoTask DEF TypeOK, CallInv, AnswerInv, Busy, Waits,
      LedRunning, Messages, LedCalls, channelVars, callVars, boundVars, histVars,
      Rejects, Channel!Execute, Fault
<1>15. ASSUME Replies
       PROVE  AnswerInv'
  <2>1. served \in Clients /\ served' = NoClient /\ UNCHANGED <<op, pc, rv,
      asking, absent>>
    BY <1>15 DEF TypeOK, Replies, Channel!Reply
  <2>2. \A d \in Clients : d # served => result'[d] = result[d] /\ value'[d] =
      value[d]
    BY <1>15, <2>1 DEF TypeOK, Replies, Channel!Reply
  <2>3. ASSUME pc[served] = "msg", result'[served] = "ok", op[served] = "temp"
        PROVE  value'[served] > -2732
    <3>1. done = "ok" /\ value' = [value EXCEPT ![served] = Convert(op[served],
        answer)]
      BY <1>15, <2>1, <2>3 DEF TypeOK, Replies, Channel!Reply, Channel!Replies
    <3>2. value'[served] = answer - 2732
      BY <2>1, <2>3, <3>1, ConvertTemp DEF TypeOK
    <3>3. answer \in Int /\ 1 <= answer
      BY <2>1, <2>3, <3>1, RawType, NobodyIsNoTask DEF AnswerInv
    <3> QED  BY <3>2, <3>3
  <2> QED  BY <2>1, <2>2, <2>3, NobodyIsNoTask DEF TypeOK, CallInv, AnswerInv,
      Busy, Waits, LedRunning
<1>16. ASSUME RepliesEio
       PROVE  AnswerInv'
  BY <1>16, NobodyIsNoTask DEF TypeOK, CallInv, AnswerInv, Busy, Waits,
      LedRunning, Messages, LedCalls, channelVars, callVars, boundVars, histVars,
      RepliesEio, Channel!Reply, Channel!Replies, Fault
<1>17. ASSUME Swap
       PROVE  AnswerInv'
  BY <1>17 DEF TypeOK, CallInv, AnswerInv, Busy, Waits, LedRunning, Messages,
      LedCalls, Swap, channelVars, callVars, boundVars, histVars
<1>18. CASE UNCHANGED vars
  BY <1>18 DEF TypeOK, CallInv, AnswerInv, Busy, Waits, LedRunning, Messages,
      LedCalls, vars, channelVars, callVars, boundVars, histVars
<1> QED
  BY <1>1, <1>2, <1>3, <1>4, <1>5, <1>6, <1>7, <1>8,
     <1>9, <1>10, <1>11, <1>12, <1>13, <1>14, <1>15, <1>16,
     <1>17, <1>18
     DEF Next, Task, Chip

(* Every action keeps the test mode.                                        *)
LEMMA LedStep ==
    ASSUME TypeOK, CallInv, AnswerInv, LedInv, [Next]_vars
    PROVE  LedInv'
<1>1. ASSUME NEW c \in Clients, NEW call \in Calls \cap Messages, BeginMessage(c,
    call)
      PROVE  LedInv'
  BY <1>1 DEF TypeOK, CallInv, LedInv, Busy, Waits, LedRunning, Acted, Changed0,
      Changed1, BeginMessage, channelVars, callVars, boundVars, histVars
<1>2. ASSUME NEW c \in Clients, NEW call \in Calls \cap LedCalls, BeginLed(c, call)
      PROVE  LedInv'
  BY <1>2 DEF TypeOK, CallInv, LedInv, Busy, Waits, LedRunning, Acted, Changed0,
      Changed1, BeginLed, Channel!Ask, LedRunning, channelVars, callVars,
      boundVars, histVars
<1>3. ASSUME NEW c \in Clients, NEW call \in Calls \cap Reads, Read(c, call)
      PROVE  LedInv'
  BY <1>3 DEF TypeOK, CallInv, LedInv, Busy, Waits, LedRunning, Acted, Changed0,
      Changed1, Read, Return, Fault, channelVars, callVars, boundVars, histVars
<1>4. ASSUME NEW c \in Clients, Leave(c)
      PROVE  LedInv'
  BY <1>4 DEF TypeOK, CallInv, LedInv, Busy, Waits, LedRunning, Acted, Changed0,
      Changed1, Leave, channelVars, callVars, boundVars, histVars
<1>5. ASSUME NEW c \in Clients, CheckAbsent(c)
      PROVE  LedInv'
  BY <1>5 DEF TypeOK, CallInv, LedInv, Busy, Waits, LedRunning, Acted, Changed0,
      Changed1, CheckAbsent, Return, channelVars, callVars, boundVars, histVars
<1>6. ASSUME NEW c \in Clients, CheckPresent(c)
      PROVE  LedInv'
  BY <1>6 DEF TypeOK, CallInv, LedInv, Busy, Waits, LedRunning, Acted, Changed0,
      Changed1, CheckPresent, Channel!Ask, channelVars, callVars, boundVars,
      histVars
<1>7. ASSUME NEW c \in Clients, CheckFails(c)
      PROVE  LedInv'
  BY <1>7 DEF TypeOK, CallInv, LedInv, Busy, Waits, LedRunning, Acted, Changed0,
      Changed1, CheckFails, Return, Fault, channelVars, callVars, boundVars,
      histVars
<1>8. ASSUME NEW c \in Clients, MessageReturns(c)
      PROVE  LedInv'
  BY <1>8 DEF TypeOK, CallInv, LedInv, Busy, Waits, LedRunning, Acted, Changed0,
      Changed1, MessageReturns, Return, Told, channelVars, callVars, boundVars,
      histVars
<1>9. ASSUME NEW c \in Clients, SecondLed(c)
      PROVE  LedInv'
  BY <1>9 DEF TypeOK, CallInv, LedInv, Busy, Waits, LedRunning, Acted, Changed0,
      Changed1, SecondLed, Channel!Ask, Told, channelVars, callVars, boundVars,
      histVars
<1>10. ASSUME NEW c \in Clients, LedReturns(c)
       PROVE  LedInv'
  BY <1>10 DEF TypeOK, CallInv, LedInv, Busy, Waits, LedRunning, Acted, Changed0,
      Changed1, LedReturns, Return, Told, LedRunning, channelVars, callVars,
      boundVars, histVars
<1>11. ASSUME NEW c \in Clients, GiveUp(c)
       PROVE  LedInv'
  BY <1>11, NobodyIsNoTask DEF TypeOK, CallInv, LedInv, Busy, Waits, LedRunning,
      Acted, Changed0, Changed1, channelVars, callVars, boundVars, histVars,
      GiveUp, Channel!GiveUp
<1>12. ASSUME NEW c \in Clients, Serve(c)
       PROVE  LedInv'
  BY <1>12, NobodyIsNoTask DEF TypeOK, CallInv, LedInv, Busy, Waits, LedRunning,
      Acted, Changed0, Changed1, channelVars, callVars, boundVars, histVars,
      Serve, Channel!Serve
<1>13. ASSUME Executes
       PROVE  LedInv'
  BY <1>13, NobodyIsNoTask DEF TypeOK, CallInv, LedInv, Busy, Waits, LedRunning,
      Acted, Changed0, Changed1, channelVars, callVars, boundVars, histVars,
      Executes, ModeSet, Channel!Execute
<1>14. ASSUME Rejects
       PROVE  LedInv'
  BY <1>14, NobodyIsNoTask DEF TypeOK, CallInv, LedInv, Busy, Waits, LedRunning,
      Acted, Changed0, Changed1, channelVars, callVars, boundVars, histVars,
      Rejects, Channel!Execute, Fault
<1>15. ASSUME Replies
       PROVE  LedInv'
  BY <1>15, NobodyIsNoTask DEF TypeOK, CallInv, LedInv, Busy, Waits, LedRunning,
      Acted, Changed0, Changed1, channelVars, callVars, boundVars, histVars,
      Replies, Channel!Reply, Channel!Replies
<1>16. ASSUME RepliesEio
       PROVE  LedInv'
  <2>1. /\ served \in Clients /\ served' = NoClient /\ asking' = asking
        /\ result' = [result EXCEPT ![served] = "EIO"]
        /\ UNCHANGED <<op, pc, overlap>>
    BY <1>16 DEF TypeOK, RepliesEio, Channel!Reply, callVars
  <2>2. \A c \in Clients : /\ LedRunning(c)' = LedRunning(c)
                           /\ Acted(c)' => Acted(c) /\ c # served
    BY <2>1, NobodyIsNoTask DEF TypeOK, LedRunning, Acted, Waits
  <2>3. CASE test_mode' = test_mode
    <3>1. split' = split /\ ~(done = "ok" /\ LedRunning(served))
      BY <1>16, <2>3 DEF TypeOK, RepliesEio, LedRunning
    <3>2. \A c \in Clients : Changed0(c)' <=> Changed0(c)
      BY <2>1, <2>2, <3>1, NobodyIsNoTask
         DEF Changed0, Acted, LedRunning, Waits, TypeOK
    <3> QED  BY <2>1, <2>2, <2>3, <3>1, <3>2 DEF LedInv, Changed1
  <2>4. CASE test_mode' # test_mode
    <3>1. test_mode' = ModeSet /\ split' = TRUE /\ LedRunning(served)
      BY <1>16, <2>4 DEF RepliesEio, ModeSet, LedRunning
    <3>2. ASSUME NEW c \in Clients, LedRunning(c)', c \notin overlap'
          PROVE  /\ \A d \in Clients : LedRunning(d)' => d = c
                 /\ Changed0(c)' => test_mode'[0] = (op'[c] = "enable")
                 /\ Changed1(c)' => test_mode'[1] = (op'[c] = "enable")
      <4>1. c = served /\ \A d \in Clients : LedRunning(d)' => d = c
        BY <2>1, <2>2, <3>1, <3>2 DEF LedInv
      <4>2. ~Changed1(c)' /\ (Changed0(c)' => pc[c] = "led1")
        BY <2>1, <2>2, <4>1 DEF Changed0, Changed1
      <4>3. pc[c] = "led1" => test_mode'[0] = (op'[c] = "enable")
        BY <2>1, <2>2, <3>1, <3>2, <4>1 DEF LedInv, Changed0, ModeSet, TypeOK
      <4> QED  BY <4>1, <4>2, <4>3
    <3> QED  BY <3>1, <3>2 DEF LedInv
  <2> QED  BY <2>3, <2>4
<1>17. ASSUME Swap
       PROVE  LedInv'
  BY <1>17 DEF TypeOK, CallInv, LedInv, Busy, Waits, LedRunning, Acted, Changed0,
      Changed1, Swap, channelVars, callVars, boundVars, histVars
<1>18. CASE UNCHANGED vars
  BY <1>18 DEF TypeOK, CallInv, LedInv, Busy, Waits, LedRunning, Acted, Changed0,
      Changed1, vars, channelVars, callVars, boundVars, histVars
<1> QED
  BY <1>1, <1>2, <1>3, <1>4, <1>5, <1>6, <1>7, <1>8,
     <1>9, <1>10, <1>11, <1>12, <1>13, <1>14, <1>15, <1>16,
     <1>17, <1>18
     DEF Next, Task, Chip

(* Only a call that sees the battery sends a message.                       *)
LEMMA BatteryStep ==
    ASSUME TypeOK, BatteryInv, [Next]_vars
    PROVE  BatteryInv'
<1> DEFINE Keeps == /\ UNCHANGED <<present, unplugged>>
                    /\ \A c \in Clients : pc[c]' = "msg" => pc[c] = "msg"
<1> USE DEF callVars, boundVars, histVars
<1>1. CASE Keeps
  BY <1>1 DEF BatteryInv
<1>2. ASSUME NEW c \in Clients, CheckPresent(c)
      PROVE  BatteryInv'
  BY <1>2 DEF CheckPresent, BatteryInv
<1>3. CASE Swap
  BY <1>3 DEF Swap, BatteryInv, TypeOK
<1>4. ASSUME NEW c \in Clients, NEW call,
             BeginMessage(c, call) \/ BeginLed(c, call) \/ Read(c, call)
      PROVE  Keeps
  BY <1>4 DEF BeginMessage, BeginLed, Read, Return, TypeOK
<1>5. ASSUME NEW c \in Clients,
             CheckAbsent(c) \/ CheckFails(c) \/ MessageReturns(c) \/ SecondLed(c)
      PROVE  Keeps
  BY <1>5 DEF CheckAbsent, CheckFails, MessageReturns, SecondLed, Return, TypeOK
<1>6. ASSUME NEW c \in Clients, LedReturns(c) \/ Leave(c)
      PROVE  Keeps
  BY <1>6 DEF LedReturns, Leave, Return, TypeOK
<1>7. ASSUME NEW c \in Clients, GiveUp(c) \/ Serve(c)
      PROVE  Keeps
  BY <1>7 DEF GiveUp, Serve
<1>8. ASSUME Chip \/ RepliesEio
      PROVE  Keeps
  BY <1>8 DEF Chip, Executes, Rejects, Replies, RepliesEio
<1>9. ASSUME UNCHANGED vars
      PROVE  Keeps
  BY <1>9 DEF vars
<1> HIDE DEF Keeps
<1> QED
  BY <1>1, <1>2, <1>3, <1>4, <1>5, <1>6, <1>7, <1>8, <1>9 DEF Next, Task

-----------------------------------------------------------------------------
(* Theorems *)

LEMMA NextKeeps == IInv /\ [Next]_vars => IInv'
BY TypeStep, CallStep, AnswerStep, LedStep, BatteryStep DEF IInv

(* The invariant holds in every reachable state.                            *)
THEOREM Inductive == Spec => []IInv
<1>1. Init => IInv
  BY InitIInv
<1>2. IInv /\ [Next]_vars => IInv'
  BY NextKeeps
<1> QED  BY <1>1, <1>2, PTL DEF Spec

(* Every variable keeps its type; a value reported is an integer whatever   *)
(* the register or the battery answered.                                    *)
THEOREM TypeCorrect == Spec => []TypeOK
<1>1. IInv => TypeOK
  BY DEF IInv
<1> QED  BY <1>1, Inductive, PTL

(* A call is told success exactly when none of its transfers and commands   *)
(* failed and it was not interrupted, for any number of tasks and faults.   *)
THEOREM SuccessMeansServedAlways == Spec => []SuccessMeansServed
<1>1. IInv => SuccessMeansServed
  BY DEF IInv, CallInv, SuccessMeansServed
<1> QED  BY <1>1, Inductive, PTL

(* LEDs 0 and 1 are in the same test mode between calls, unless a call was  *)
(* split; the ioctl of leicaefi-chr-led.c:21-43 holds no lock across its    *)
(* two commands.                                                            *)
THEOREM LedTestAgreesAlways == Spec => []LedTestAgrees
<1>1. IInv => LedTestAgrees
  BY DEF IInv, LedInv, LedTestAgrees, Changed0, LedRunning
<1> QED  BY <1>1, Inductive, PTL

(* A temperature tells a missing battery from a cold one, whatever non-zero *)
(* values batteries answer.                                                 *)
THEOREM AbsentToldAlways == Spec => []AbsentTold
<1>1. IInv => AbsentTold
  BY DEF IInv, AnswerInv, AbsentTold
<1> QED  BY <1>1, Inductive, PTL

(* The chip is stuck in a command, and the channel with it, only when the   *)
(* battery went while a message was under way.                              *)
THEOREM BlockedOnlyUnpluggedAlways == Spec => []BlockedOnlyUnplugged
<1>1. IInv => BlockedOnlyUnplugged
  BY DEF IInv, TypeOK, BatteryInv, BlockedOnlyUnplugged, Blocked
<1> QED  BY <1>1, Inductive, PTL

-----------------------------------------------------------------------------
(* The calls keep the rules of the channel they share.                      *)
THEOREM UsesChannelAlways == Spec => UsesChannel
<1>1. Init => Channel!Init
  BY DEF Init
<1>2. [Next]_vars => [Channel!Next]_(Channel!vars)
  <2> SUFFICES ASSUME [Next]_vars
               PROVE  Channel!Next \/ UNCHANGED channelVars
    BY DEF Channel!vars, channelVars
  <2> USE DEF Channel!Next
  <2>1. ASSUME NEW c \in Clients, NEW call,
               BeginMessage(c, call) \/ BeginLed(c, call) \/ Read(c, call)
        PROVE  Channel!Next \/ UNCHANGED channelVars
    BY <2>1 DEF BeginMessage, BeginLed, Read
  <2>2. ASSUME NEW c \in Clients, Task(c)
        PROVE  Channel!Next \/ UNCHANGED channelVars
    BY <2>2 DEF Task, CheckAbsent, CheckPresent, CheckFails, MessageReturns,
        SecondLed, LedReturns, Leave
  <2>3. ASSUME NEW c \in Clients, GiveUp(c) \/ Serve(c)
        PROVE  Channel!Next
    BY <2>3 DEF GiveUp, Serve
  <2>4. CASE Chip \/ RepliesEio
    BY <2>4 DEF Chip, Executes, Rejects, Replies, RepliesEio
  <2>5. CASE Swap \/ UNCHANGED vars
    BY <2>5 DEF Swap, vars
  <2> QED
    BY <2>1, <2>2, <2>3, <2>4, <2>5 DEF Next
<1> QED  BY <1>1, <1>2, PTL DEF Spec, UsesChannel, Channel!Spec

-----------------------------------------------------------------------------
(* The rank of the liveness argument: what is left to do becomes less.      *)

(* What a call costs is in its own progress and in the channel's.           *)
LEMMA StepsLeftType ==
    ASSUME NEW c \in Clients
    PROVE  /\ ChannelSteps(c) \in 0 .. 3
           /\ StepsLeft(c) \in 0 .. 9
           /\ pc[c] = "idle" => StepsLeft(c) = 0
BY DEF ChannelSteps, StepsLeft

LEMMA StepsRunDown ==
    ASSUME TypeOK, CallInv, [Next]_vars
    PROVE  \/ \E c \in Clients :
                 /\ \/ StepsLeft(c)' < StepsLeft(c)
                    \/ pc[c] = "idle" /\ StepsLeft(c)' <= 9
                 /\ \A d \in Clients \ {c} : StepsLeft(d)' = StepsLeft(d)
           \/ swaps' = swaps + 1 /\ UNCHANGED <<pc, channelVars>>
           \/ UNCHANGED vars
<1> DEFINE Others(c) == \A d \in Clients \ {c} : StepsLeft(d)' = StepsLeft(d)
           Less(c) == StepsLeft(c)' < StepsLeft(c) /\ Others(c)
           Begun(c) == pc[c] = "idle" /\ StepsLeft(c)' <= 9 /\ Others(c)
           Swapped == swaps' = swaps + 1 /\ UNCHANGED <<pc, channelVars>>
<1> USE NobodyIsNoTask DEF TypeOK, StepsLeft, ChannelSteps, channelVars, callVars
<1>1. ASSUME NEW c \in Clients, NEW call, BeginMessage(c, call) \/ Read(c, call)
      PROVE  Begun(c)
  BY <1>1 DEF BeginMessage, Read, Return
<1>2. ASSUME NEW c \in Clients, NEW call, BeginLed(c, call)
      PROVE  Begun(c)
  BY <1>2 DEF BeginLed, Channel!Ask
<1>3. ASSUME NEW c \in Clients, CheckAbsent(c) \/ CheckFails(c)
      PROVE  Less(c)
  BY <1>3 DEF CheckAbsent, CheckFails, Return
<1>4. ASSUME NEW c \in Clients, CheckPresent(c)
      PROVE  Less(c)
  BY <1>4 DEF CheckPresent, Channel!Ask
<1>5. ASSUME NEW c \in Clients, MessageReturns(c) \/ LedReturns(c)
      PROVE  Less(c)
  BY <1>5 DEF MessageReturns, LedReturns, LedRunning, Return, Told
<1>6. ASSUME NEW c \in Clients, SecondLed(c)
      PROVE  Less(c)
  BY <1>6 DEF SecondLed, Told, Channel!Ask
<1>7. ASSUME NEW c \in Clients, Leave(c)
      PROVE  Less(c)
  BY <1>7 DEF Leave
<1>8. ASSUME NEW c \in Clients, GiveUp(c)
      PROVE  Less(c)
  BY <1>8 DEF GiveUp, Channel!GiveUp, CallInv, Busy, Waits
<1>9. ASSUME NEW c \in Clients, Serve(c)
      PROVE  Less(c)
  BY <1>9 DEF Serve, Channel!Serve, CallInv, Busy, Waits
<1>10. ASSUME NEW c \in Clients, c = served, Executes \/ Rejects
       PROVE  Less(c)
  BY <1>10 DEF Executes, Rejects, Channel!Execute, CallInv, Busy, Waits
<1>11. ASSUME NEW c \in Clients, c = served, Replies \/ RepliesEio
       PROVE  Less(c)
  <2>1. served' = NoClient /\ UNCHANGED <<pc, asking>>
    BY <1>11 DEF Replies, RepliesEio, Channel!Reply
  <2>2. c \notin asking /\ Busy(c)
    BY <1>11 DEF CallInv, Waits
  <2>3. StepsLeft(c)' < StepsLeft(c)
    BY <1>11, <2>1, <2>2 DEF Busy
  <2>4. Others(c)
    BY <1>11, <2>1
  <2> QED  BY <2>3, <2>4
<1>12. CASE Swap
  BY <1>12 DEF Swap
<1>13. CASE \E c \in Clients : Less(c) \/ Begun(c)
  BY <1>13
<1>14. Chip \/ RepliesEio => \E c \in Clients : c = served
  BY DEF Chip, Executes, Rejects, Replies, RepliesEio, Channel!Execute,
         Channel!Reply
<1> HIDE DEF TypeOK, StepsLeft, Less, Begun
<1> QED
  BY <1>1, <1>2, <1>3, <1>4, <1>5, <1>6, <1>7, <1>8, <1>9, <1>10, <1>11, <1>12,
     <1>13, <1>14 DEF Next, Task, Chip

(* Every call runs down, whatever the other calls do and whatever fails.    *)
THEOREM RunsDownAlways == Spec => RunsDown
<1>1. IInv /\ [Next]_vars =>
        [\/ \E c \in Clients :
               /\ \/ StepsLeft(c)' < StepsLeft(c)
                  \/ pc[c] = "idle" /\ StepsLeft(c)' <= 9
               /\ \A d \in Clients \ {c} : StepsLeft(d)' = StepsLeft(d)
         \/ swaps' = swaps + 1 /\ UNCHANGED <<pc, channelVars>>]_vars
  BY StepsRunDown DEF IInv
<1> QED  BY <1>1, Inductive, PTL DEF Spec, RunsDown
=============================================================================

--------------------------- MODULE RegistersProofs ---------------------------
(***************************************************************************)
(* Theorems about the command byte and the identification word.            *)
(***************************************************************************)
EXTENDS Registers, TLAPS

(* The chip takes out of a command byte what leicaefi_chip_make_command put  *)
(* into it: the register, and either bit without the other.                 *)
THEOREM CommandTakenApart ==
    ASSUME NEW reg_no \in Bytes, NEW rwbit \in {0, ReadBit},
           NEW scbit \in {0, SetBit}
    PROVE  LET byte == MakeCommand(reg_no, rwbit, scbit)
           IN  /\ byte \in Bytes
               /\ RegNo(byte) = RegNo(reg_no)
               /\ Reads(byte) <=> rwbit = ReadBit
               /\ Sets(byte) <=> scbit = SetBit
<1> DEFINE n == RegNo(reg_no)
<1>1. n \in 0 .. 63
  BY DEF Bytes, RegNo, RegNoMask
<1>2. MakeCommand(reg_no, rwbit, scbit) = n + rwbit + scbit
  BY DEF MakeCommand
<1> HIDE DEF n
<1>3. n + rwbit + scbit \in Bytes
  BY <1>1 DEF Bytes, ReadBit, SetBit
<1>4. RegNo(n + rwbit + scbit) = n
  BY <1>1 DEF RegNo, RegNoMask, ReadBit, SetBit
<1>5. Reads(n + rwbit + scbit) <=> rwbit = ReadBit
  BY <1>1 DEF Reads, ReadBit, SetBit
<1>6. Sets(n + rwbit + scbit) <=> scbit = SetBit
  BY <1>1 DEF Sets, ReadBit, SetBit
<1> QED  BY <1>2, <1>3, <1>4, <1>5, <1>6 DEF n

(* Whatever number a user passes to a register ioctl (chr/leicaefi-chr-     *)
(* reg.c), the byte that is sent is for the register in its low six bits;   *)
(* only READ reads, so that no other ioctl clears pending events, and       *)
(* WRITE_RAW sets bits exactly when bit 6 asks for it.                      *)
THEOREM IoctlReachesRegister ==
    ASSUME NEW ioctl \in Ioctls, NEW reg_no \in Bytes
    PROVE  LET byte == SentByte(ioctl, reg_no)
           IN  /\ byte \in Bytes
               /\ RegNo(byte) = RegNo(reg_no)
               /\ Reads(byte) <=> ioctl = "read"
               /\ Sets(byte) <=> \/ ioctl = "bits_set"
                                 \/ ioctl = "write_raw" /\ Sets(reg_no)
<1> DEFINE passed == PassedNumber(ioctl, reg_no)
           rwbit == IF ioctl = "read" THEN ReadBit ELSE 0
           setting == \/ ioctl = "bits_set"
                      \/ ioctl = "write_raw" /\ Sets(reg_no)
           scbit == IF setting THEN SetBit ELSE 0
<1>1. passed \in Bytes /\ RegNo(passed) = RegNo(reg_no)
  BY DEF PassedNumber, Bytes, RegNo, RegNoMask
<1>2. SentByte(ioctl, reg_no) = MakeCommand(passed, rwbit, scbit)
  BY DEF SentByte
<1>3. rwbit \in {0, ReadBit} /\ scbit \in {0, SetBit}
  OBVIOUS
<1>4. (rwbit = ReadBit <=> ioctl = "read") /\ (scbit = SetBit <=> setting)
  BY DEF ReadBit, SetBit
<1> HIDE DEF passed, rwbit, scbit
<1> QED  BY <1>1, <1>2, <1>3, <1>4, CommandTakenApart

(* An ioctl is refused exactly when its number has a bit beyond the mask,   *)
(* and WRITE_RAW, which masks the number itself, never.                     *)
THEOREM RefusedExactly ==
    ASSUME NEW ioctl \in Ioctls, NEW reg_no \in Bytes
    PROVE  Accepted(ioctl, reg_no) <=> ioctl = "write_raw" \/ reg_no \in 0 .. RegNoMask
BY DEF Accepted, PassedNumber, IsValidRegisterNumber, RegNo, RegNoMask, Bytes

(* WRITE sends the same byte as BITS_CLEAR (LEICAEFI_SCBIT_UNUSED is 0): on  *)
(* IE the chip can only take it for clearing bits.                          *)
THEOREM WriteIsClear ==
    ASSUME NEW reg_no \in Bytes
    PROVE  SentByte("write", reg_no) = SentByte("bits_clear", reg_no)
BY DEF SentByte, PassedNumber

(* Loader and firmware, which differ in bit 15 of the identification word,  *)
(* pass the hardware check alike, so the driver binds in either mode.       *)
THEOREM ModeNotChecked ==
    ASSUME NEW mod_id \in 0 .. 32767
    PROVE  HwAccepted(mod_id + 32768) <=> HwAccepted(mod_id)
<1>1. Platform(mod_id + 32768) = Platform(mod_id)
  BY DEF Platform
<1>2. Project(mod_id + 32768) = Project(mod_id)
  BY DEF Project
<1>3. Processor(mod_id + 32768) = Processor(mod_id)
  BY DEF Processor
<1> QED  BY <1>1, <1>2, <1>3 DEF HwAccepted
=============================================================================

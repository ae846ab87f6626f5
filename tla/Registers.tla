------------------------------ MODULE Registers ------------------------------
(***************************************************************************)
(* The command byte of an I2C transfer, core/leicaefi-chip.c:55-67: bits 0  *)
(* to 5 are the register number, bit 6 tells setting from clearing and bit 7 *)
(* reading from writing.  The drivers compose it; the chip takes it apart.  *)
(* And the fields of the identification word the probe looks at.            *)
(***************************************************************************)
EXTENDS Integers

Bytes == 0 .. 255
Words == 0 .. 65535

(* Registers of include/leicaefi-defs.h with an effect beyond their content *)
RegIE      == 8
RegIFG     == 9
RegERR     == 10
RegCmdCtrl == 12
RegCmdData == 13
RegKeyData == 14

RegNoMask == 63     \* LEICAEFI_REGNO_MASK
SetBit    == 64     \* LEICAEFI_SCBIT_SET; clearing and "unused" are both 0
ReadBit   == 128    \* LEICAEFI_RWBIT_READ; writing is 0

RegNo(byte) == byte % (RegNoMask + 1)

(* leicaefi_chip_is_valid_register_number *)
IsValidRegisterNumber(reg_no) == RegNo(reg_no) = reg_no

(* leicaefi_chip_make_command; or-ing bits outside the mask is adding them. *)
MakeCommand(reg_no, rwbit, scbit) == RegNo(reg_no) + rwbit + scbit

(* What the chip takes out of the byte.                                     *)
Reads(byte) == byte >= ReadBit
Sets(byte)  == (byte \div SetBit) % 2 = 1

-----------------------------------------------------------------------------
(* The register ioctls, chr/leicaefi-chr-reg.c *)

Ioctls == {"read", "write", "bits_set", "bits_clear", "write_raw"}

(* Every ioctl passes the caller's number on as it is, except WRITE_RAW,    *)
(* which takes bit 6 for the operation and masks the rest.                  *)
PassedNumber(ioctl, reg_no) ==
    IF ioctl = "write_raw" THEN RegNo(reg_no) ELSE reg_no

(* leicaefi_chip_read, .._write, .._set_bits, .._clear_bits: whether the    *)
(* transfer takes place, and with which byte.                               *)
Accepted(ioctl, reg_no) == IsValidRegisterNumber(PassedNumber(ioctl, reg_no))

SentByte(ioctl, reg_no) ==
    MakeCommand(PassedNumber(ioctl, reg_no),
                IF ioctl = "read" THEN ReadBit ELSE 0,
                IF \/ ioctl = "bits_set"
                   \/ ioctl = "write_raw" /\ Sets(reg_no)
                THEN SetBit ELSE 0)

-----------------------------------------------------------------------------
(* leicaefi_i2c_hwcheck: bits 12-14 platform, 4-7 project, 0-3 processor;   *)
(* the mode in bit 15 is only printed, bits 8-11 are not looked at.         *)
Platform(mod_id)  == (mod_id \div 4096) % 8
Project(mod_id)   == (mod_id \div 16) % 16
Processor(mod_id) == mod_id % 16

HwAccepted(mod_id) ==
    Platform(mod_id) = 1 /\ Project(mod_id) = 6 /\ Processor(mod_id) = 1
=============================================================================

-------------------------------- MODULE Keys --------------------------------
(***************************************************************************)
(* The key driver, keys/leicaefi-keys.c.  KEY_DATA holds up to two events,  *)
(* one byte each, 0 for none; bit 7 is set for a release, the rest is the   *)
(* key's code.  The nested interrupt handler reads the register, which      *)
(* empties it, and reports both bytes, high byte first, to the input layer. *)
(* The keys and the register are external.                                  *)
(***************************************************************************)
EXTENDS Integers

CONSTANT Codes      \* codes of the keys the chip reports

VARIABLES
    down,           \* which keys are held down
    key_data,       \* KEY_DATA: <<high byte, low byte>>
    input,          \* what the input layer holds for KEY_POWER and KEY_F1,
                    \* by the codes the chip has for them
    key_read,       \* the handler runs and is about to read KEY_DATA
    key_fault       \* history: a read of the handler failed ("kept"), or
                    \* events left the register unseen ("dropped")

KeyAssumption == Codes \subseteq 1 .. 127

Reported == {1, 2}
NoEvents == <<0, 0>>

TypeOK ==
    /\ down \in [Codes -> BOOLEAN]
    /\ key_data \in (0 .. 255) \X (0 .. 255)
    /\ input \in [Reported -> BOOLEAN]
    /\ key_read \in BOOLEAN
    /\ key_fault \subseteq {"kept", "dropped"}

Init ==
    /\ down = [c \in Codes |-> FALSE]
    /\ key_data = NoEvents
    /\ input = [k \in Reported |-> FALSE]
    /\ key_read = FALSE
    /\ key_fault = {}

-----------------------------------------------------------------------------
(* The chip *)

EventByte(code, pressed) == IF pressed THEN code ELSE code + 128

(* A key changes.  The older event is in the high byte; a single one may be *)
(* in either, as the driver skips a zero byte.  A third one finds no room.  *)
Toggle(c) ==
    LET event == EventByte(c, ~down[c])
    IN  /\ down' = [down EXCEPT ![c] = ~@]
        /\ \/ key_data = NoEvents /\ key_data' \in {<<event, 0>>, <<0, event>>}
           \/ /\ key_data[1] # 0 /\ key_data[2] = 0
              /\ key_data' = <<key_data[1], event>>
           \/ /\ key_data[1] = 0 /\ key_data[2] # 0
              /\ key_data' = <<key_data[2], event>>
           \/ key_data[1] # 0 /\ key_data[2] # 0 /\ key_data' = key_data
        /\ key_fault' = IF key_data[1] # 0 /\ key_data[2] # 0
                        THEN key_fault \cup {"dropped"} ELSE key_fault
        /\ UNCHANGED <<input, key_read>>

(* A read empties the register.                                             *)
Empty == key_data' = NoEvents

-----------------------------------------------------------------------------
(* The driver *)

KeyCode(byte) == byte % 128
Pressed(byte) == byte < 128

(* leicaefi_process_key_event; an unknown code, or none, is not reported.   *)
ProcessEvent(byte, state) ==
    IF KeyCode(byte) \in Reported
    THEN [state EXCEPT ![KeyCode(byte)] = Pressed(byte)] ELSE state

(* Faulty variant: the low byte is processed first.                         *)
ReportLowFirst == ProcessEvent(key_data[1], ProcessEvent(key_data[2], input))

Report == ProcessEvent(key_data[2], ProcessEvent(key_data[1], input))

(* leicaefi_keys_irq_handler with the outcome o of its read: a failed read  *)
(* ends it, with the events still in the register or not.                   *)
Handler(o) ==
    /\ key_read
    /\ key_read' = FALSE
    /\ IF o = "lost" THEN key_data' = key_data ELSE Empty
    /\ input' = IF o = "ok" THEN Report ELSE input
    /\ key_fault' = CASE o = "ok"   -> key_fault
                      [] o = "lost" -> key_fault \cup {"kept"}
                      [] OTHER      -> key_fault \cup {"dropped"}
    /\ down' = down

-----------------------------------------------------------------------------
(* With KEY_DATA empty the input layer knows every key as it is, in         *)
(* whatever order keys were pressed and released and interrupts coalesced,  *)
(* unless events left the register without being reported.                  *)
KeysFollow ==
    "dropped" \notin key_fault /\ key_data = NoEvents =>
        \A c \in Codes \cap Reported : input[c] = down[c]

(* The inductive form: reporting what the register holds would make the     *)
(* input layer agree with the keys, and the older event is in the high byte.*)
KeysInv ==
    /\ key_data[1] \in {0} \cup {EventByte(c, p) : c \in Codes, p \in BOOLEAN}
    /\ key_data[2] \in {0} \cup {EventByte(c, p) : c \in Codes, p \in BOOLEAN}
    /\ "dropped" \notin key_fault =>
          \A c \in Codes \cap Reported : Report[c] = down[c]
=============================================================================

------------------------------- MODULE MCLeds -------------------------------
(***************************************************************************)
(* TLC instances of Leds: LEDs 0 and 1 share an icon and a register, LED 2  *)
(* is a battery LED on the other register.  A delay of 0 becomes one        *)
(* interval, 6 is capped at two, 7 overflows the word of 8 values.          *)
(***************************************************************************)
EXTENDS Leds

MCLedRegister == [i \in 0 .. LedCount - 1 |-> IF i < 2 THEN 1 ELSE 2]
=============================================================================

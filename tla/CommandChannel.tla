--------------------------- MODULE CommandChannel ---------------------------
(***************************************************************************)
(* What leicaefi_chip_gencmd promises its callers, free of locks, states    *)
(* and interrupts: the chip serves one caller's command at a time, executes *)
(* it at most once, and the caller learns what became of its own command.   *)
(***************************************************************************)
CONSTANTS
    Clients,    \* callers of leicaefi_chip_gencmd
    NoClient    \* nobody is served

VARIABLES
    asking,     \* callers whose command has not been taken up
    served,     \* the caller whose command is being served
    done,       \* what the chip made of the served command
    result      \* what each caller was last told

vars == <<asking, served, done, result>>

Outcomes == {"none", "ok", "fail"}

(* What a caller may be told, given what became of its command: success and *)
(* command failure are reliable, an I/O error leaves the outcome open.      *)
Replies(outcome) ==
    {"EIO"} \cup (IF outcome = "ok" THEN {"ok"} ELSE {})
            \cup (IF outcome = "fail" THEN {"EGENCMDFAIL"} ELSE {})

Init ==
    /\ asking = {} /\ served = NoClient /\ done = "none"
    /\ result = [c \in Clients |-> "none"]

Ask(c) ==
    /\ c \notin asking /\ c # served
    /\ asking' = asking \cup {c}
    /\ result' = [result EXCEPT ![c] = "none"]
    /\ UNCHANGED <<served, done>>

(* The caller is interrupted before its command was taken up.               *)
GiveUp(c) ==
    /\ c \in asking
    /\ asking' = asking \ {c}
    /\ result' = [result EXCEPT ![c] = "EINTR"]
    /\ UNCHANGED <<served, done>>

Serve(c) ==
    /\ served = NoClient /\ c \in asking
    /\ served' = c /\ asking' = asking \ {c}
    /\ UNCHANGED <<done, result>>

Execute ==
    /\ served # NoClient /\ done = "none"
    /\ done' \in {"ok", "fail"}
    /\ UNCHANGED <<asking, served, result>>

Reply ==
    /\ served # NoClient
    /\ \E r \in Replies(done) : result' = [result EXCEPT ![served] = r]
    /\ served' = NoClient /\ done' = "none"
    /\ asking' = asking

Next ==
    \/ \E c \in Clients : Ask(c) \/ GiveUp(c) \/ Serve(c)
    \/ Execute
    \/ Reply

Spec == Init /\ [][Next]_vars
=============================================================================

---------------------------- MODULE FlashDevice ----------------------------
(***************************************************************************)
(* What the flash ioctls promise, free of locks, states and interrupts: a   *)
(* memory, a running mode and a write enable bit, changed by one caller's   *)
(* request at a time, and a reply that tells the truth about them.          *)
(***************************************************************************)
CONSTANTS
    Clients,            \* processes with the character device open
    NoClient,           \* nobody is served
    Addresses,          \* flash addresses
    Firmware, Loader,   \* the two modes, and the two flash partitions
    NoArg               \* the argument of a request that has none

VARIABLES
    asking,     \* callers whose request has not been taken up
    served,     \* the caller whose request is being served
    request,    \* its request
    done,       \* what the chip made of it: "none", "ok" or "fail"
    answer,     \* what the caller is told: code and value
    store,      \* content of the flash memory
    mode,       \* the partition the chip runs from
    wren        \* flash writes are enabled

vars == <<asking, served, request, done, answer, store, mode, wren>>

Modes == {Firmware, Loader}

Requests ==
    [kind : {"read", "iread", "write", "erase"}, arg : Addresses]
    \cup [kind : {"check", "set_mode"}, arg : Modes]
    \cup [kind : {"get_mode", "enable", "disable", "invalid"}, arg : {NoArg}]

NoRequest == [kind |-> "none", arg |-> NoArg]
NoAnswer  == <<"none", "none">>

Init ==
    /\ asking = {} /\ served = NoClient /\ request = NoRequest
    /\ done = "none" /\ answer = NoAnswer
    /\ store \in [Addresses -> {"blank", "data"}]
    /\ mode \in Modes /\ wren \in BOOLEAN

Ask(c) ==
    /\ c \notin asking /\ c # served
    /\ asking' = asking \cup {c}
    /\ UNCHANGED <<served, request, done, answer, store, mode, wren>>

GiveUp(c) ==
    /\ c \in asking
    /\ asking' = asking \ {c}
    /\ UNCHANGED <<served, request, done, answer, store, mode, wren>>

Serve(c) ==
    /\ served = NoClient /\ c \in asking
    /\ served' = c /\ asking' = asking \ {c}
    /\ request' \in Requests
    /\ UNCHANGED <<done, answer, store, mode, wren>>

(* The write enable bit is changed at once ...                              *)
Enable ==
    /\ answer = NoAnswer
    /\ \/ request.kind = "enable"  /\ wren' = TRUE
       \/ request.kind = "disable" /\ wren' = FALSE
    /\ answer' \in {<<"ok", "none">>, <<"EIO", "none">>}
    /\ UNCHANGED <<asking, served, request, done, store, mode>>

(* ... and the chip executes the other requests that change something, once *)
(* and for one caller, or says that it did not.                             *)
Execute ==
    /\ served # NoClient /\ done = "none" /\ answer = NoAnswer
    /\ \/ /\ done' = "ok"
          /\ \/ /\ request.kind = "write" /\ mode' = mode
                /\ store' = [store EXCEPT ![request.arg] = "data"]
             \/ /\ request.kind = "erase" /\ mode' = mode
                /\ store' = [store EXCEPT ![request.arg] = "blank"]
             \/ /\ request.kind = "set_mode" /\ mode # request.arg
                /\ mode' = request.arg /\ store' = store
             \/ /\ request.kind = "check" /\ mode # request.arg
                /\ UNCHANGED <<store, mode>>
       \/ /\ done' = "fail"
          /\ request.kind \in {"write", "erase", "set_mode", "check"}
          /\ UNCHANGED <<store, mode>>
    /\ UNCHANGED <<asking, served, request, answer, wren>>

Tell(code, value) == answer' = <<code, value>>

(* Success is reliable and comes with the value asked for; an I/O error     *)
(* leaves open whether the request took effect.                             *)
Reply ==
    /\ served # NoClient /\ answer = NoAnswer
    /\ \/ request.kind = "invalid" /\ Tell("EINVAL", "none")
       \/ request.kind # "invalid" /\ Tell("EIO", "none")
       \/ request.kind = "read" /\ Tell("ok", store[request.arg])
       \/ request.kind = "iread" /\ Tell("ok", request.arg)
       \/ request.kind = "get_mode" /\ Tell("ok", mode)
       \/ /\ request.kind = "write" /\ store[request.arg] = "data"
          /\ done = "ok" /\ Tell("ok", "none")
       \/ /\ request.kind = "erase" /\ store[request.arg] = "blank"
          /\ done = "ok" /\ Tell("ok", "none")
       \/ /\ request.kind \in {"write", "erase"}
          /\ done = "fail" /\ Tell("EFLASHACCESS", "none")
       \/ request.kind = "set_mode" /\ mode = request.arg /\ Tell("ok", "none")
       \/ request.kind = "set_mode" /\ done = "fail" /\ Tell("EOPFAIL", "none")
       \/ /\ request.kind = "check" /\ mode = request.arg
          /\ Tell("EBADMODE", "none")
       \/ request.kind = "check" /\ done = "ok" /\ Tell("ok", "intact")
       \/ request.kind = "check" /\ done = "fail" /\ Tell("ok", "broken")
    /\ UNCHANGED <<asking, served, request, done, store, mode, wren>>

Leave ==
    /\ served # NoClient /\ answer # NoAnswer
    /\ served' = NoClient /\ request' = NoRequest
    /\ done' = "none" /\ answer' = NoAnswer
    /\ UNCHANGED <<asking, store, mode, wren>>

Next ==
    \/ \E c \in Clients : Ask(c) \/ GiveUp(c) \/ Serve(c)
    \/ Enable
    \/ Execute
    \/ Reply
    \/ Leave

Spec == Init /\ [][Next]_vars
=============================================================================

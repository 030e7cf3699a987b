---------------------------- MODULE SessionOwner ----------------------------
(***************************************************************************)
(* What a session lease promises: a session has one owner at a time, and   *)
(* passes from one owner to the next only through being free.              *)
(***************************************************************************)
CONSTANTS
    Contenders,     \* who may open the session
    None

VARIABLE owner

Init == owner = None

Grant(c) ==
    /\ owner = None
    /\ owner' = c

\* given back, or lost with the process that had it
Return ==
    /\ owner # None
    /\ owner' = None

Next == Return \/ \E c \in Contenders : Grant(c)

Spec == Init /\ [][Next]_owner
=============================================================================

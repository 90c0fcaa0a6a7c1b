----------------------------- MODULE FileSharing -----------------------------
(***************************************************************************)
(* What an application may expect of files that several of its handles     *)
(* share: a file is opened once, stays open as long as anything of it is   *)
(* held, and is closed with the last thing that is let go.                 *)
(***************************************************************************)
EXTENDS Integers

CONSTANT Files

VARIABLES
    open,        \* the file is open
    holders      \* handles of the file and of objects in it

vars == <<open, holders>>

Init == open = [f \in Files |-> FALSE] /\ holders = [f \in Files |-> 0]

OpenFile(f) ==
    /\ ~open[f]
    /\ open' = [open EXCEPT ![f] = TRUE] /\ holders' = [holders EXCEPT ![f] = 1]

Acquire(f) ==
    /\ open[f]
    /\ holders' = [holders EXCEPT ![f] = @ + 1] /\ UNCHANGED open

Release(f) ==
    /\ open[f] /\ holders[f] > 0
    /\ holders' = [holders EXCEPT ![f] = @ - 1]
    /\ open' = [open EXCEPT ![f] = holders[f] > 1]

Next == \E f \in Files : OpenFile(f) \/ Acquire(f) \/ Release(f)

Spec == Init /\ [][Next]_vars
=============================================================================

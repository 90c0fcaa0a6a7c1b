----------------------------- MODULE MCLogFile -----------------------------
(* Instances of LogFile for TLC: two datasets, three blocks at most. *)
EXTENDS LogFile, TLC

CONSTANTS a, b

\* a is one element of dataset 0, b two elements of dataset 1.
MCDset == a :> 0 @@ b :> 1
MCDsetOne == a :> 0
MCSize == a :> 1 @@ b :> 2
MCSizeOne == a :> 1
=============================================================================

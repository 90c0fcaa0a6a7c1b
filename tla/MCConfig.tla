------------------------------- MODULE MCConfig -------------------------------
(* Values for checking Config. *)
EXTENDS Config

\* One subfile per node, none, two.
MCCounts == {-1, 0, 2}
=============================================================================

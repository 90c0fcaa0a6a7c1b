------------------------------ MODULE MCSubfiles ------------------------------
(* Values for checking Subfiles: three processes; a node has the first and  *)
(* the last of them.                                                       *)
EXTENDS Subfiles

MCPlacements == {<<1, 2, 1>>}
MCPlaced == {[r \in Ranks |-> p[r + 1]] : p \in MCPlacements}

\* One subfile per node; two of unequal size; one per process.
MCAsked == {-1, 2, 3}
=============================================================================

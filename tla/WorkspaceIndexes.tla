-------------------------- MODULE WorkspaceIndexes --------------------------
(***************************************************************************)
(* What the workspace keeps about the source trees: the symbol index, the  *)
(* structural graphs and the SCIP index, side by side.                     *)
(***************************************************************************)
EXTENDS WorkspaceIndex, CodeGraph, ScipIndex

\* No index, graph or SCIP file vouches for a tree it is not of, and a sync or
\* an indexer that ends well has made it so.
IndexesSafety == IndexSafety /\ GraphSafety /\ ScipSafety
=============================================================================

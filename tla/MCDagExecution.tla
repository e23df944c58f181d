--------------------------- MODULE MCDagExecution ---------------------------
(* Small instance of DagExecution: a node that writes, then side by side    *)
(* one that clicks, after asking a human, and one that writes again; both   *)
(* writes are undone by the same tool, and the click by a tool without side *)
(* effects.                                                                 *)
EXTENDS DagExecution, TLC

CONSTANTS first, click, second, write, gui, remove, reset

MCTool    == (first :> write) @@ (click :> gui) @@ (second :> write)
MCDeps    == (first :> {}) @@ (click :> {first}) @@ (second :> {first})
MCUndo    == (first :> remove) @@ (click :> reset) @@ (second :> remove)
MCRetries == (first :> 1) @@ (click :> 0) @@ (second :> 0)
=============================================================================

---------------------------- MODULE SagaPattern ----------------------------
(***************************************************************************)
(* What the executor of a plan promises, whatever its goroutines, waves,   *)
(* retries and tool calls look like: it goes forward along the             *)
(* dependencies until a node has failed, and then back against them, over  *)
(* every node that succeeded and can be undone.  It never does both at a   *)
(* time, and a crash is the end of this execution.                         *)
(***************************************************************************)
CONSTANTS Nodes, Deps, Undoable

VARIABLES mode, work

sagaVars == <<mode, work>>

AllIdle == [n \in Nodes |-> "idle"]

\* A node that succeeded without an output is "mute": nothing builds on it.
SomeFailed  == \E n \in Nodes : work[n] = "failed"
NoneRunning == \A n \in Nodes : work[n] # "running"
ToUndo(n)   == n \in Undoable /\ work[n] \in {"done", "mute"}
Startable(n) == work[n] = "idle" /\ \A m \in Deps[n] : work[m] = "done"

SagaInit == mode = "off" /\ work = AllIdle

BeginSaga ==
    /\ mode \in {"off", "returned", "gaveUp"}
    /\ mode' = "forward" /\ work' = AllIdle

StartNode(n) ==
    /\ mode = "forward" /\ ~SomeFailed
    /\ Startable(n)
    /\ work' = [work EXCEPT ![n] = "running"]
    /\ UNCHANGED mode

FinishNode(n) ==
    /\ mode = "forward"
    /\ work[n] = "running"
    /\ \E outcome \in {"done", "mute", "failed"} : work' = [work EXCEPT ![n] = outcome]
    /\ UNCHANGED mode

\* All has been done that could be done.
Succeed ==
    /\ mode = "forward" /\ ~SomeFailed /\ NoneRunning
    /\ \A n \in Nodes : ~Startable(n)
    /\ mode' = "returned"
    /\ UNCHANGED work

TurnBack ==
    /\ mode = "forward" /\ SomeFailed /\ NoneRunning
    /\ mode' = "backward"
    /\ UNCHANGED work

\* What depends on the node is undone before it.
UndoNode(n) ==
    /\ mode = "backward"
    /\ ToUndo(n)
    /\ \A k \in Nodes : n \in Deps[k] => ~ToUndo(k)
    /\ work' = [work EXCEPT ![n] = "undone"]
    /\ UNCHANGED mode

Undone ==
    /\ mode = "backward"
    /\ \A n \in Nodes : ~ToUndo(n)
    /\ mode' = "returned"
    /\ UNCHANGED work

\* The time for it is over, and something is left.
GiveUp ==
    /\ mode = "backward"
    /\ \E n \in Nodes : ToUndo(n)
    /\ mode' = "gaveUp"
    /\ UNCHANGED work

Die ==
    /\ mode \in {"forward", "backward"}
    /\ mode' = "off" /\ work' = AllIdle

SagaNext ==
    \/ BeginSaga \/ Succeed \/ TurnBack \/ Undone \/ GiveUp \/ Die
    \/ \E n \in Nodes : StartNode(n) \/ FinishNode(n) \/ UndoNode(n)

SagaSpec == SagaInit /\ [][SagaNext]_sagaVars
=============================================================================

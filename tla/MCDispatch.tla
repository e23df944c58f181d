----------------------------- MODULE MCDispatch -----------------------------
EXTENDS Dispatch

CONSTANTS t1, t2, a1, a2

MCTasks == {t1, t2}
MCAgents == {a1, a2}
MCSubTasks == <<t1, t2>>

\* The second agent lacks the skill for the first task.
MCCapable == [t \in MCTasks |-> IF t = t1 THEN {a1} ELSE {a1, a2}]
=============================================================================

----------------------------- MODULE DagExecution -----------------------------
(***************************************************************************)
(* The execution of a plan: DAGExecutor.Execute                            *)
(* (pkg/cognition/kernel/dag_executor.go), which runs the nodes of a graph *)
(* in waves of goroutines and compensates in reverse order when one fails, *)
(* and the tool call that runExecuteDAG (agent_execute.go) gives to it,    *)
(* which keeps an action log in the episodic memory against crashes.       *)
(*                                                                         *)
(* The log's entries are looked up by the tool's name alone: arguments,    *)
(* node and task are not compared, and the session id the query asks for   *)
(* is never set.  A tool acts on the world when it has side effects; that  *)
(* it acted and that its call returned are told apart.  The agent executes *)
(* one plan at a time (module AgentKernel, OneDriver), again and again.    *)
(*                                                                         *)
(* Replay mode, in which no tool is called, and the branch for a surprise  *)
(* index above 0.7 (it is 0.5 in all calls) are not modelled.              *)
(***************************************************************************)
EXTENDS Naturals, Sequences, FiniteSets

CONSTANTS
    Nodes,           \* the nodes of the plan
    Saga,            \* the goroutine of Execute, which calls the undo actions
    Tools,
    NoTool,          \* the node has no compensation
    Tool,            \* the tool of each node
    Deps,            \* DependsOn
    Undo,            \* the tool of each node's compensation
    Retries,         \* MaxRetry of each node
    Effectful,       \* tools with side effects
    Gated,           \* tools that ask a human first (computer_use, browser_use)
    MaxConcurrency,  \* nodes that run at a time (4)
    MaxExecutions,   \* bound: executions of the plan
    MaxCrashes,      \* bound: crashes of the process
    MaxLogFaults     \* bound: reads and writes of the log that fail

ASSUME PlanAssumption ==
    /\ IsFiniteSet(Nodes) /\ Saga \notin Nodes
    /\ NoTool \notin Tools
    /\ Tool \in [Nodes -> Tools]
    /\ Undo \in [Nodes -> Tools \cup {NoTool}]
    /\ Retries \in [Nodes -> Nat]
    /\ Effectful \subseteq Tools /\ Gated \subseteq Tools
    /\ MaxConcurrency \in Nat \ {0}
    /\ {MaxExecutions, MaxCrashes, MaxLogFaults} \subseteq Nat

\* validateDAGTopology: dependencies exist and there are no cycles.
ASSUME AcyclicAssumption ==
    /\ Deps \in [Nodes -> SUBSET Nodes]
    /\ \E rank \in [Nodes -> 1 .. Cardinality(Nodes)] :
          \A n \in Nodes : \A m \in Deps[n] : rank[m] < rank[n]

VARIABLES
    exec,       \* Execute: where it is, and how often it was called
    node,       \* the nodes' goroutines; "waiting" is not in e.completed
    attempts,   \* executeNode: calls made for each node
    call,       \* the tool calls under way
    undo,       \* executedUndo, as the nodes whose actions it holds
    undone,     \* history: nodes whose compensation was called
    log,        \* the action log: pending and done entries
    effects,    \* history: how often each tool with side effects acted
    succeeded,  \* history: tools that were called and succeeded
    faulty,     \* history: tools with a failed read or write of the log
    crashes

dagVars == <<exec, node, attempts, call, undo, undone, log, effects, succeeded, faulty,
             crashes>>

Callers == Nodes \cup {Saga}

NoCall == [pc |-> "idle", tool |-> NoTool, result |-> "none"]

DagTypeOK ==
    /\ exec \in [pc : {"off", "waves", "compensate", "returned", "gaveUp"}, number : Nat]
    /\ node \in [Nodes -> {"waiting", "scheduled", "running", "done", "empty", "failed",
                           "skipped"}]
    /\ attempts \in [Nodes -> Nat]
    /\ \A n \in Nodes : attempts[n] <= Retries[n] + 1
    /\ call \in [Callers -> [pc : {"idle", "query", "append", "execute", "settle",
                                   "returned"},
                             tool : Tools \cup {NoTool},
                             result : {"none", "ok", "empty", "failed"}]]
    /\ undo \in Seq(Nodes)
    /\ undone \subseteq Nodes
    /\ log \subseteq {"pending", "done"} \X Effectful
    /\ effects \in [Tools -> Nat]
    /\ succeeded \subseteq Tools /\ faulty \subseteq Tools
    /\ crashes \in 0 .. MaxCrashes

\* When Execute begins: nothing is completed yet.
AllWaiting == [n \in Nodes |-> "waiting"]
NoAttempts == [n \in Nodes |-> 0]
NoCalls    == [c \in Callers |-> NoCall]

DagInit ==
    /\ exec = [pc |-> "off", number |-> 0]
    /\ node = AllWaiting
    /\ attempts = NoAttempts
    /\ call = NoCalls
    /\ undo = <<>>
    /\ undone = {}
    /\ log = {}
    /\ effects = [t \in Tools |-> 0]
    /\ succeeded = {}
    /\ faulty = {}
    /\ crashes = 0

World == <<log, effects, succeeded, faulty, crashes>>

-----------------------------------------------------------------------------
(* toolExecFn: the tool call of caller c, a node or the saga *)

Calling(c, t) ==
    call' = [call EXCEPT ![c] = [pc |-> "query", tool |-> t, result |-> "none"]]

GoOn(c, pc) == call' = [call EXCEPT ![c].pc = pc]

Ends(c, pc, result) ==
    call' = [call EXCEPT ![c] = [pc |-> pc, tool |-> @.tool, result |-> result]]

Return(c, result) == Ends(c, "returned", result)

Here(c, pc) == call[c].pc = pc

CallOnly == UNCHANGED <<exec, node, attempts, undo, undone, crashes>>

HasPending(t) == <<"pending", t>> \in log
HasDone(t)    == <<"done", t>> \in log

LogFault(t) ==
    /\ Cardinality(faulty) < MaxLogFaults
    /\ faulty' = faulty \cup {t}

\* Bug: the pending entry is not looked for.
QueryDoneOnly(c) ==
    LET t == call[c].tool IN
    /\ Here(c, "query")
    /\ \/ t \notin Effectful /\ GoOn(c, "execute") /\ UNCHANGED faulty
       \/ t \in Effectful /\ HasDone(t) /\ Return(c, "ok") /\ UNCHANGED faulty
       \/ t \in Effectful /\ ~HasDone(t) /\ GoOn(c, "append") /\ UNCHANGED faulty
       \/ t \in Effectful /\ LogFault(t) /\ GoOn(c, "append")
    /\ UNCHANGED <<log, effects, succeeded>>
    /\ CallOnly

\* A tool with side effects is looked up in the log: a call that was interrupted
\* is refused, one that ended counts as this one's success, and when there is
\* none, or the log cannot be read, the call goes on.
Query(c) ==
    LET t == call[c].tool IN
    /\ Here(c, "query")
    /\ \/ t \notin Effectful /\ GoOn(c, "execute") /\ UNCHANGED faulty
       \/ /\ t \in Effectful
          /\ \/ HasDone(t) /\ Return(c, "ok")
             \/ HasPending(t) /\ ~HasDone(t) /\ Return(c, "failed")
             \/ ~HasPending(t) /\ ~HasDone(t) /\ GoOn(c, "append")
          /\ UNCHANGED faulty
       \/ t \in Effectful /\ LogFault(t) /\ GoOn(c, "append")
    /\ UNCHANGED <<log, effects, succeeded>>
    /\ CallOnly

\* Errors of Append are ignored.
AppendLog(kind, t) ==
    \/ log' = log \cup {<<kind, t>>} /\ UNCHANGED faulty
    \/ LogFault(t) /\ UNCHANGED log

AppendPending(c) ==
    /\ Here(c, "append")
    /\ AppendLog("pending", call[c].tool)
    /\ GoOn(c, "execute")
    /\ UNCHANGED <<effects, succeeded>>
    /\ CallOnly

\* interceptComputerUse: a human says no, or nothing in time.  The pending entry
\* stays without an end.
Deny(c) ==
    /\ Here(c, "execute")
    /\ call[c].tool \in Gated
    /\ Return(c, "failed")
    /\ UNCHANGED <<log, effects, succeeded, faulty>>
    /\ CallOnly

\* The tool is executed.  It may fail before or after it has acted, and may
\* succeed without an output.
ExecuteTool(c) ==
    LET t == call[c].tool IN
    /\ Here(c, "execute")
    /\ \E result \in {"ok", "empty", "failed"}, acts \in BOOLEAN :
          /\ result # "failed" => acts
          /\ effects' = IF acts /\ t \in Effectful THEN [effects EXCEPT ![t] = @ + 1]
                        ELSE effects
          /\ succeeded' = IF result # "failed" THEN succeeded \cup {t} ELSE succeeded
          /\ Ends(c, IF t \in Effectful THEN "settle" ELSE "returned", result)
    /\ UNCHANGED <<log, faulty>>
    /\ CallOnly

\* The done entry is written whether the tool succeeded or failed.
AppendDone(c) ==
    /\ Here(c, "settle")
    /\ AppendLog("done", call[c].tool)
    /\ GoOn(c, "returned")
    /\ UNCHANGED <<effects, succeeded>>
    /\ CallOnly

-----------------------------------------------------------------------------
(* Execute: waves of nodes *)

\* Bug: wg.Done is not deferred, and a node that is skipped does not call it.
WaveOverNoSkip == \A n \in Nodes : node[n] \notin {"scheduled", "running", "skipped"}

\* wg.Wait is over.
WaveOver == \A n \in Nodes : node[n] \notin {"scheduled", "running"}

Failed == \E n \in Nodes : node[n] = "failed"

\* Bug: a dependency that was never scheduled is not missed.
ReadyWhenMissing ==
    {n \in Nodes : node[n] = "waiting" /\ \A m \in Deps[n] : node[m] \in {"waiting", "done"}}

\* findReadyNodes: all dependencies have an output; one that succeeded without
\* an output looks as if it were still in progress.
Ready == {n \in Nodes : node[n] = "waiting" /\ \A m \in Deps[n] : node[m] = "done"}

Reset ==
    /\ node' = AllWaiting
    /\ attempts' = NoAttempts
    /\ call' = NoCalls
    /\ undo' = <<>>
    /\ undone' = {}

\* The agent executes its plan, for the first time or after a replan or for
\* another task.
Begin ==
    /\ exec.pc \in {"off", "returned", "gaveUp"}
    /\ exec.number < MaxExecutions
    /\ exec' = [pc |-> "waves", number |-> exec.number + 1]
    /\ Reset
    /\ UNCHANGED World

Schedule ==
    /\ exec.pc = "waves"
    /\ WaveOver /\ ~Failed
    /\ Ready # {}
    /\ node' = [n \in Nodes |-> IF n \in Ready THEN "scheduled" ELSE node[n]]
    /\ UNCHANGED <<exec, attempts, call, undo, undone>>
    /\ UNCHANGED World

Running == {n \in Nodes : node[n] = "running"}

\* A goroutine gets through the semaphore and starts its node ...
Start(n) ==
    /\ node[n] = "scheduled"
    /\ Cardinality(Running) < MaxConcurrency
    /\ ~Failed
    /\ node' = [node EXCEPT ![n] = "running"]
    /\ attempts' = [attempts EXCEPT ![n] = 1]
    /\ Calling(n, Tool[n])
    /\ UNCHANGED <<exec, undo, undone>>
    /\ UNCHANGED World

\* ... or finds that another one has failed.
Skip(n) ==
    /\ node[n] = "scheduled"
    /\ Cardinality(Running) < MaxConcurrency
    /\ Failed
    /\ node' = [node EXCEPT ![n] = "skipped"]
    /\ UNCHANGED <<exec, attempts, call, undo, undone>>
    /\ UNCHANGED World

MayRetry(n) == attempts[n] < Retries[n] + 1

\* executeNode calls the tool again after a failure.
Retry(n) ==
    /\ Here(n, "returned") /\ call[n].result = "failed"
    /\ MayRetry(n)
    /\ attempts' = [attempts EXCEPT ![n] = @ + 1]
    /\ Calling(n, Tool[n])
    /\ UNCHANGED <<exec, node, undo, undone>>
    /\ UNCHANGED World

\* executeNode gives up: no attempt is left, or its time is over.
NodeFails(n) ==
    /\ Here(n, "returned") /\ call[n].result = "failed"
    /\ node' = [node EXCEPT ![n] = "failed"]
    /\ call' = [call EXCEPT ![n] = NoCall]
    /\ UNCHANGED <<exec, attempts, undo, undone>>
    /\ UNCHANGED World

\* Bug: the undo queue is in the order of completion.
PushedLast(n) == IF Undo[n] = NoTool THEN undo ELSE Append(undo, n)

\* The undo action goes to the front of the queue.
Pushed(n) == IF Undo[n] = NoTool THEN undo ELSE <<n>> \o undo

\* Bug: a node that succeeds after another one has failed is forgotten.
NodeSucceedsInTime(n) ==
    /\ Here(n, "returned") /\ call[n].result \in {"ok", "empty"}
    /\ node' = [node EXCEPT ![n] = IF call[n].result = "ok" THEN "done" ELSE "empty"]
    /\ call' = [call EXCEPT ![n] = NoCall]
    /\ undo' = IF Failed THEN undo ELSE Pushed(n)
    /\ UNCHANGED <<exec, attempts, undone>>
    /\ UNCHANGED World

NodeSucceeds(n) ==
    /\ Here(n, "returned") /\ call[n].result \in {"ok", "empty"}
    /\ node' = [node EXCEPT ![n] = IF call[n].result = "ok" THEN "done" ELSE "empty"]
    /\ call' = [call EXCEPT ![n] = NoCall]
    /\ undo' = Pushed(n)
    /\ UNCHANGED <<exec, attempts, undone>>
    /\ UNCHANGED World

\* No node is ready: Execute returns without an error.
AllDone ==
    /\ exec.pc = "waves"
    /\ WaveOver /\ ~Failed
    /\ Ready = {}
    /\ exec' = [exec EXCEPT !.pc = "returned"]
    /\ UNCHANGED <<node, attempts, call, undo, undone>>
    /\ UNCHANGED World

-----------------------------------------------------------------------------
(* Execute: compensation *)

Compensate ==
    /\ exec.pc = "waves"
    /\ WaveOver /\ Failed
    /\ exec' = [exec EXCEPT !.pc = "compensate"]
    /\ UNCHANGED <<node, attempts, call, undo, undone>>
    /\ UNCHANGED World

\* The next undo action is called ...
CallUndo ==
    /\ exec.pc = "compensate"
    /\ Here(Saga, "idle")
    /\ undo # <<>>
    /\ Calling(Saga, Undo[Head(undo)])
    /\ undone' = undone \cup {Head(undo)}
    /\ undo' = Tail(undo)
    /\ UNCHANGED <<exec, node, attempts>>
    /\ UNCHANGED World

\* ... and whatever comes of it the saga goes on.
UndoReturns ==
    /\ Here(Saga, "returned")
    /\ call' = [call EXCEPT ![Saga] = NoCall]
    /\ UNCHANGED <<exec, node, attempts, undo, undone>>
    /\ UNCHANGED World

\* Execute returns the first node's error: all is undone, or the 30 seconds of
\* the saga are over.
Compensated ==
    /\ exec.pc = "compensate"
    /\ Here(Saga, "idle")
    /\ \/ undo = <<>> /\ exec' = [exec EXCEPT !.pc = "returned"]
       \/ undo # <<>> /\ exec' = [exec EXCEPT !.pc = "gaveUp"]
    /\ UNCHANGED <<node, attempts, call, undo, undone>>
    /\ UNCHANGED World

-----------------------------------------------------------------------------
\* The process dies while a plan is executed.  The log and the world remain.
Crash ==
    /\ exec.pc \in {"waves", "compensate"}
    /\ crashes < MaxCrashes
    /\ crashes' = crashes + 1
    /\ exec' = [exec EXCEPT !.pc = "off"]
    /\ Reset
    /\ UNCHANGED <<log, effects, succeeded, faulty>>

Executor ==
    \/ Schedule \/ AllDone \/ Compensate \/ CallUndo \/ UndoReturns \/ Compensated
    \/ \E n \in Nodes : Start(n) \/ Skip(n) \/ Retry(n) \/ NodeFails(n) \/ NodeSucceeds(n)

ToolCall(c) ==
    \/ Query(c) \/ AppendPending(c) \/ Deny(c) \/ ExecuteTool(c) \/ AppendDone(c)

DagNext ==
    \/ Begin \/ Executor \/ Crash
    \/ \E c \in Callers : ToolCall(c)

DagSpec == DagInit /\ [][DagNext]_dagVars

\* Goroutines are scheduled and tools return, if only because of their timeout.
DagFairSpec ==
    /\ DagSpec
    /\ WF_dagVars(Executor)
    /\ \A c \in Callers : WF_dagVars(ToolCall(c))
-----------------------------------------------------------------------------
(* Properties *)

\* No two calls for the tool can be under way at a time: the nodes that use it
\* depend on each other.
Serial(t) ==
    \A m, n \in {k \in Nodes : Tool[k] = t} : m = n \/ m \in Deps[n] \/ n \in Deps[m]

\* A tool with side effects acts at most once, over retries, replans and crashes
\* at any point, for an interrupted or ended call is never repeated
\* (agent_execute.go:401) as long as the log works.
AtMostOnce ==
    \A t \in Effectful \ faulty : Serial(t) => effects[t] <= 1

Succeeded(n) == node[n] \in {"done", "empty"}

\* While a node runs, what it depends on has succeeded, and is not undone yet:
\* compensation waits for every node (M04-Agent-Kernel.md:152).
RunsOnSolidGround ==
    \A n \in Running : undone = {} /\ \A m \in Deps[n] : Succeeded(m)

\* Compensation goes against the dependencies: whenever a node's action is being
\* undone, those of the nodes that depend on it are undone already.
UndoneInReverse ==
    \A m, n \in Nodes :
        m \in Deps[n] /\ m \in undone /\ Succeeded(n) /\ Undo[n] # NoTool
            => n \in undone

\* When Execute returns an error, every node that succeeded had its compensation
\* called, also one that came to its end after the failure; unless the time for
\* it was over.
AllUndone ==
    exec.pc = "returned" /\ Failed =>
        \A n \in Nodes : Succeeded(n) /\ Undo[n] # NoTool => n \in undone

SagaMode ==
    CASE exec.pc = "waves" -> "forward" [] exec.pc = "compensate" -> "backward"
      [] OTHER -> exec.pc

SagaWork ==
    [n \in Nodes |->
        CASE n \in undone -> "undone"
          [] n \notin undone /\ node[n] \in {"waiting", "scheduled", "skipped"} -> "idle"
          [] n \notin undone /\ node[n] = "empty" -> "mute"
          [] OTHER -> node[n]]

TwoWay == INSTANCE SagaPattern WITH
    Undoable <- {n \in Nodes : Undo[n] # NoTool}, mode <- SagaMode, work <- SagaWork

\* The executor is a saga (M04-Agent-Kernel.md:152): forward along the
\* dependencies until a node has failed, then back against them over all that
\* succeeded, each node once; nothing is started any more, and nothing undone
\* while a node is running.
SagaRefinement == TwoWay!SagaSpec

\* Execute returns: no wave waits for a node that does not come to its end.
Returns == exec.pc \in {"waves", "compensate"} ~> exec.pc \notin {"waves", "compensate"}
-----------------------------------------------------------------------------
(* What the documents say and the code does not do *)

\* A call that is answered from the log was executed successfully before
\* (agent_execute.go:405): a node that succeeded is one whose tool has succeeded
\* at some time.
SuccessIsReal ==
    \A n \in Nodes : Succeeded(n) => Tool[n] \in succeeded
=============================================================================

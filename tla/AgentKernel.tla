----------------------------- MODULE AgentKernel -----------------------------
(***************************************************************************)
(* An agent: its state machine, the loop Agent.Run and the effects it runs *)
(* (pkg/cognition/kernel: agent.go, state_machine.go, transitions.go,      *)
(* agent_execute.go), driven by a swarm worker (pkg/swarm/worker.go) and   *)
(* interrupted by users (Agent.Interrupt, called by the gateway).          *)
(*                                                                         *)
(* An effect ends by starting a goroutine that sends the next trigger into *)
(* the agent's channel; SendIntent drops a trigger when the channel is     *)
(* full.  The state changes in Run's goroutine only.                       *)
(*                                                                         *)
(* What a plan says is abstracted; how it is executed is module            *)
(* DagExecution.  The fast path of the effects needs a surprise index      *)
(* below 0.3, and ComputeBasic yields 0.5 in all calls; the token budget   *)
(* is never set: neither is modelled.                                      *)
(***************************************************************************)
EXTENDS Naturals, Sequences

CONSTANTS
    MaxReplan,      \* sCtx.MaxReplan (3 in NewAgent)
    MaxSteps,       \* Config.MaxSteps (10 by default)
    ChCap,          \* capacity of the intent channel (10)
    Watchdog,       \* is there an L3 watchdog (SystemTier >= 1)
    MaxTasks,       \* bound: tasks the worker gives to the agent
    MaxInterrupts   \* bound: interrupts by users

ASSUME KernelAssumption ==
    /\ {MaxReplan, MaxSteps, ChCap} \subseteq Nat \ {0}
    /\ {MaxTasks, MaxInterrupts} \subseteq Nat
    /\ Watchdog \in BOOLEAN

VARIABLES
    sm,          \* the state machine: current, interruptFrom, replanCount
    budget,      \* StepsUsed and MaxStepsLimit
    intent,      \* the intent channel
    sends,       \* how many goroutines are about to send each trigger
    run,         \* Agent.Run: not running, at its select, in an effect
    plan,        \* DAGModel; "approved" is history: validated as it is
    executions,  \* history: how often a plan has been executed
    task,        \* the worker's task, and how many there were
    interrupts   \* history: interrupts so far

vars == <<sm, budget, intent, sends, run, plan, executions, task, interrupts>>

Terminal == {"Complete", "Failed"}

LLMStates == {"Perceive", "Plan", "Reflect"}

States == {"Idle", "Validate", "Execute", "Replan", "Rollback", "Interrupt"}
          \cup LLMStates \cup Terminal

\* The triggers that effects send to drive the machine forward ...
Driving == {"PerceiveDone", "PlanDone", "ValidateOk", "ValidateFail", "ExecuteDone",
            "ExecuteFail", "ReflectDone", "RollbackDone", "ReplanDone",
            "ReplanExhausted"}

\* ... and all triggers.
Triggers == Driving \cup {"IntentReceived", "InterruptReceived", "InterruptResume",
                          "InterruptAbort"}

TypeOK ==
    /\ sm \in [current : States, from : States \ Terminal, replans : 0 .. MaxReplan]
    /\ budget \in [used : Nat, limit : 1 .. MaxSteps]
    /\ intent \in Seq(Triggers) /\ Len(intent) <= ChCap
    /\ sends \in [Triggers -> Nat]
    /\ run \in {"off", "select", "effect"}
    /\ plan \in {"none", "drafted", "approved"}
    /\ executions \in Nat
    /\ task \in [st : {"none", "working", "done", "failed", "abandoned"},
                 number : 0 .. MaxTasks]
    /\ interrupts \in 0 .. MaxInterrupts

Init ==
    /\ sm = [current |-> "Idle", from |-> "Idle", replans |-> 0]
    /\ budget = [used |-> 0, limit |-> MaxSteps]
    /\ intent = <<>>
    /\ sends = [g \in Triggers |-> 0]
    /\ run = "off"
    /\ plan = "none"
    /\ executions = 0
    /\ task = [st |-> "none", number |-> 0]
    /\ interrupts = 0

-----------------------------------------------------------------------------
(* Triggers *)

\* SendIntent: a trigger that finds the channel full is dropped.
Sent(queue, g) == IF Len(queue) < ChCap THEN Append(queue, g) ELSE queue

\* go a.SendIntent(g), n times.
Spawn(g, n) == sends' = [sends EXCEPT ![g] = @ + n]

\* A goroutine sends its trigger.
Deliver(g) ==
    /\ sends[g] > 0
    /\ sends' = [sends EXCEPT ![g] = @ - 1]
    /\ intent' = Sent(intent, g)
    /\ UNCHANGED <<sm, budget, run, plan, executions, task, interrupts>>

\* A user interrupts the agent: to resume or redirect it, or to abort.  (A
\* redirection changes the intent's text and then resumes.)
Interrupt(answer) ==
    /\ interrupts < MaxInterrupts
    /\ interrupts' = interrupts + 1
    /\ intent' = Sent(intent, "InterruptReceived")
    /\ Spawn(answer, 1)
    /\ UNCHANGED <<sm, budget, run, plan, executions, task>>

-----------------------------------------------------------------------------
(* The worker *)

\* tryClaimAndExecute: the task is claimed, the intent is sent and Run starts.
StartTask ==
    /\ task.st # "working" /\ task.st # "abandoned"
    /\ task.number < MaxTasks
    /\ task' = [st |-> "working", number |-> task.number + 1]
    /\ intent' = Sent(intent, "IntentReceived")
    /\ run' = "select"
    /\ UNCHANGED <<sm, budget, sends, plan, executions, interrupts>>

\* Run has returned: the task is settled by the state it left.
EndTask ==
    /\ task.st = "working" /\ run = "off"
    /\ task' = [task EXCEPT !.st = IF sm.current = "Failed" THEN "failed" ELSE "done"]
    /\ UNCHANGED <<sm, budget, intent, sends, run, plan, executions, interrupts>>

\* The context is done: the worker and Run end where they are.
Shutdown ==
    /\ task.st = "working"
    /\ task' = [task EXCEPT !.st = "abandoned"]
    /\ run' = "off"
    /\ UNCHANGED <<sm, budget, intent, sends, plan, executions, interrupts>>

-----------------------------------------------------------------------------
(* The transition table, and Run with Dispatch *)

Transitions ==
    {<<"Idle",     "IntentReceived",  "Perceive">>,
     <<"Perceive", "PerceiveDone",    "Plan">>,
     <<"Plan",     "PlanDone",        "Validate">>,
     <<"Validate", "ValidateOk",      "Execute">>,
     <<"Validate", "ValidateFail",    "Replan">>,
     <<"Execute",  "ExecuteDone",     "Reflect">>,
     <<"Execute",  "ExecuteFail",     "Rollback">>,
     <<"Reflect",  "ReflectDone",     "Complete">>,
     <<"Rollback", "RollbackDone",    "Replan">>,
     <<"Replan",   "ReplanDone",      "Plan">>,
     <<"Replan",   "ReplanExhausted", "Failed">>,
     <<"Perceive", "ReplanExhausted", "Failed">>,
     <<"Plan",     "ReplanExhausted", "Failed">>,
     <<"Reflect",  "ReplanExhausted", "Failed">>}

\* Run takes a trigger and has steps left for it.
Take(g) ==
    /\ run = "select"
    /\ intent # <<>>
    /\ g = Head(intent)
    /\ intent' = Tail(intent)
    /\ budget.used + 1 <= budget.limit
    /\ budget' = [budget EXCEPT !.used = @ + 1]
    /\ UNCHANGED <<sends, plan, executions, task, interrupts>>

\* Run takes a trigger and has no steps left.
MaxStepsExceeded ==
    /\ run = "select"
    /\ intent # <<>>
    /\ intent' = Tail(intent)
    /\ budget.used + 1 > budget.limit
    /\ budget' = [budget EXCEPT !.used = @ + 1]
    /\ sm' = [sm EXCEPT !.current = "Failed"]
    /\ run' = "off"
    /\ UNCHANGED <<sends, plan, executions, task, interrupts>>

\* Bug: the terminal states can be interrupted.
InterruptibleAlways == sm.current # "Interrupt"

\* Any state but the terminal ones and S_INTERRUPT can be interrupted.
Interruptible == sm.current \notin Terminal \cup {"Interrupt"}

EnterInterrupt ==
    /\ Take("InterruptReceived")
    /\ Interruptible
    /\ sm' = [sm EXCEPT !.current = "Interrupt", !.from = sm.current]
    /\ UNCHANGED run

Resume ==
    /\ Take("InterruptResume")
    /\ sm.current = "Interrupt"
    /\ sm' = [sm EXCEPT !.current = sm.from]
    /\ UNCHANGED run

Abort ==
    /\ Take("InterruptAbort")
    /\ sm.current = "Interrupt"
    /\ sm' = [sm EXCEPT !.current = "Failed"]
    /\ run' = "off"

\* Bug: the machine goes to S_REPLAN without counting.
AdvancedUncounted(to) == [sm EXCEPT !.current = to]

\* The machine enters a state; S_REPLAN is counted, and is S_FAILED when the
\* count reaches the limit.
Advanced(to) ==
    IF to = "Replan"
    THEN [sm EXCEPT !.current = IF sm.replans + 1 >= MaxReplan THEN "Failed" ELSE to,
                    !.replans = @ + 1]
    ELSE [sm EXCEPT !.current = to]

\* A transition of the table, its guard included.  Its effect runs next, unless
\* the state is terminal and Run returns.
Step ==
    /\ \E t \in Transitions :
          /\ t[1] = sm.current
          /\ Take(t[2])
          /\ t[3] = "Replan" => sm.replans < MaxReplan
          /\ sm' = Advanced(t[3])
    /\ run' = IF sm'.current \in Terminal THEN "off" ELSE "effect"

Accepts(g) ==
    \/ g = "InterruptReceived" /\ Interruptible
    \/ sm.current = "Interrupt" /\ g \in {"InterruptResume", "InterruptAbort"}
    \/ \E t \in Transitions : /\ t[1] = sm.current /\ t[2] = g
                              /\ t[3] = "Replan" => sm.replans < MaxReplan

\* Bug: a trigger that has no transition is ignored, and the loop goes on.
RejectAndGoOn ==
    /\ \E g \in Triggers : Take(g) /\ ~Accepts(g)
    /\ UNCHANGED <<sm, run>>

\* No transition, or its guard says no: Dispatch returns an error and so does
\* Run.
Reject ==
    /\ \E g \in Triggers : Take(g) /\ ~Accepts(g)
    /\ run' = "off"
    /\ UNCHANGED sm

-----------------------------------------------------------------------------
(* Effects: the state that was entered says which *)

InEffect(state) ==
    /\ run = "effect"
    /\ sm.current = state

EffectEnds ==
    /\ run' = "select"
    /\ UNCHANGED <<sm, intent, task, interrupts>>

OnSuccess == [Perceive |-> "PerceiveDone", Plan |-> "PlanDone", Reflect |-> "ReflectDone"]

\* The model answers, and a plan is drafted (or, when the answer is no valid
\* plan, the one before is kept); or the call or the parsing fails.  The call has
\* no deadline: while it is under way the machine stays in its effect.  (Every
\* agent in production has the router as its provider; without one Run would end
\* with an error.)
LLMFill(state) ==
    /\ InEffect(state)
    /\ \/ /\ Spawn(OnSuccess[state], 1)
          /\ plan' = IF state = "Plan" THEN "drafted" ELSE plan
       \/ /\ Spawn("ReplanExhausted", 1)
          /\ UNCHANGED plan
    /\ EffectEnds
    /\ UNCHANGED <<budget, executions>>

\* The watchdog's callbacks send the trigger, and executeEffect sends the one of
\* the state they return.
Copies == IF Watchdog THEN 2 ELSE 1

\* Bug: after a failure the function goes on to its end, and sends ValidateOk.
ValidateBothWays ==
    /\ InEffect("Validate")
    /\ \/ Spawn("ValidateOk", 1) /\ plan' = "approved"
       \/ /\ sends' = [sends EXCEPT !["ValidateOk"] = @ + 1, !["ValidateFail"] = @ + 1]
          /\ UNCHANGED plan
    /\ EffectEnds
    /\ UNCHANGED <<budget, executions>>

\* runValidateDAG: the plan passes all layers, or one of them denies it.
Validate ==
    /\ InEffect("Validate")
    /\ \/ Spawn("ValidateOk", Copies) /\ plan' = "approved"
       \/ /\ \E n \in {1, Copies} : Spawn("ValidateFail", n)
          /\ UNCHANGED plan
    /\ EffectEnds
    /\ UNCHANGED <<budget, executions>>

\* adjustMaxSteps after a tool call with a low score.
Shrunk(limit) == IF limit > 1 THEN limit - limit \div 10 ELSE limit

LowScore ==
    /\ InEffect("Execute")
    /\ budget.limit # Shrunk(budget.limit)
    /\ budget' = [budget EXCEPT !.limit = Shrunk(@)]
    /\ UNCHANGED <<sm, intent, sends, run, plan, executions, task, interrupts>>

\* Bug: after a failure the function goes on to its end, and sends ExecuteDone.
ExecuteBothWays ==
    /\ InEffect("Execute")
    /\ executions' = executions + 1
    /\ \/ \E g \in {"ExecuteDone", "InterruptReceived"} : Spawn(g, 1)
       \/ sends' = [sends EXCEPT !["ExecuteFail"] = @ + 1, !["ExecuteDone"] = @ + 1]
    /\ EffectEnds
    /\ UNCHANGED <<budget, plan>>

\* runExecuteDAG: the plan is executed, or fails, or needs a tool that does not
\* exist: then the machine is interrupted.
Execute ==
    /\ InEffect("Execute")
    /\ executions' = executions + 1
    /\ \E g \in {"ExecuteDone", "ExecuteFail", "InterruptReceived"} : Spawn(g, 1)
    /\ EffectEnds
    /\ UNCHANGED <<budget, plan>>

\* rollbackSaga and the effect of S_REPLAN do nothing but go on.
Recover ==
    /\ \/ InEffect("Rollback") /\ Spawn("RollbackDone", 1)
       \/ InEffect("Replan") /\ Spawn("ReplanDone", 1)
    /\ EffectEnds
    /\ UNCHANGED <<budget, plan, executions>>

-----------------------------------------------------------------------------
Loop ==
    \/ EnterInterrupt \/ Resume \/ Abort \/ Step \/ Reject \/ MaxStepsExceeded
    \/ Validate \/ Execute \/ Recover

Next ==
    \/ Loop \/ LowScore
    \/ \E state \in LLMStates : LLMFill(state)
    \/ \E g \in Triggers : Deliver(g)
    \/ \E answer \in {"InterruptResume", "InterruptAbort"} : Interrupt(answer)
    \/ StartTask \/ EndTask \/ Shutdown

Spec == Init /\ [][Next]_vars

\* Goroutines are scheduled, and a plan's execution returns, as the calls of
\* tools have a timeout.  A call of the model need not return.
FairSpec ==
    /\ Spec
    /\ WF_vars(Loop)
    /\ \A g \in Triggers : WF_vars(Deliver(g))
    /\ WF_vars(EndTask)
-----------------------------------------------------------------------------
(* Properties *)

\* Driving triggers in the channel, and those a goroutine is about to send.
Queued  == {n \in DOMAIN intent : intent[n] \in Driving}
Sending == {g \in Driving : sends[g] > 0}

\* There is one line of control: at most one effect is running or has its
\* trigger under way, whatever users, interrupts and earlier tasks do
\* (agent_execute.go:76).
OneDriver ==
    /\ \A m, n \in Queued : m = n
    /\ \A g, h \in Sending : g = h /\ sends[g] = 1
    /\ Queued = {} \/ Sending = {}
    /\ run = "effect" => Queued = {} /\ Sending = {}

\* No plan is executed before it has been validated as it is: a plan drafted
\* after the validation is not (agent_execute.go:73).
ExecutesValidated == InEffect("Execute") => plan = "approved"

\* The side effects of plans are repeated only by counted replanning, and never
\* more often than MaxReplan allows (M04-Agent-Kernel.md:48).
ExecutionsBounded ==
    /\ executions <= sm.replans + 1
    /\ executions <= MaxReplan

\* An agent that has completed or failed does no more work: no trigger that is
\* still under way makes it leave its terminal states or run an effect.
TerminalStays ==
    [][sm.current \in Terminal => sm'.current \in Terminal /\ run' # "effect"]_vars

\* A driving trigger is dropped only when users or tasks have filled the channel:
\* each interrupt accounts for two of its places at most and each task for one,
\* the driver's own (agent.go:234).
DriverHeard ==
    Sending # {} /\ Len(intent) = ChCap => 2 * interrupts + task.number > ChCap

\* A task that a worker starts comes to an end, as long as no user interrupts
\* and no missing tool suspends it (M04-Agent-Kernel.md:22), unless a call of
\* the model never returns.
TaskEnds ==
    \/ task.st = "working" ~>
          (task.st # "working" \/ interrupts > 0 \/ sm.current = "Interrupt")
    \/ <>[](\E state \in LLMStates : InEffect(state))
-----------------------------------------------------------------------------
(* What the documents say and the code does not do *)

\* Run blocks until the machine has come to COMPLETE or FAILED (worker.go:105)
\* and an aborted task goes to S_FAILED (M04-Agent-Kernel.md:56): a task is
\* reported as done only when its machine is in S_COMPLETE.
DoneMeansComplete == task.st = "done" => sm.current = "Complete"
=============================================================================

---------------------------- MODULE AgentProofs -----------------------------
(***************************************************************************)
(* Theorems about the agents: AgentKernel, DagExecution and Dispatch.      *)
(*                                                                         *)
(* AgentKernel, for any limits of replanning and steps, any capacity of    *)
(* the channel and any number of tasks and interrupts.  The theorems about *)
(* the line of control assume what production has: no L3 watchdog.         *)
(*                                                                         *)
(* DagExecution, for any graph of nodes, any tools and compensations and   *)
(* any numbers of crashes and faults of the log: where the goroutines can  *)
(* be (Places), what the nodes stand on (Grounded), what the saga still    *)
(* has to undo (UndoQueue), and that an effect is logged before the tool   *)
(* runs (LoggedFirst).                                                     *)
(*                                                                         *)
(* Dispatch, for any tasks, agents and skills: the pattern's account of    *)
(* the tasks it has posted is right (PatternInv), and no more is asked of  *)
(* the blackboard than the lease it keeps (UsesLease).                     *)
(***************************************************************************)
EXTENDS AgentKernel, DagExecution, Dispatch, TLAPS, FiniteSetTheorems

\* Where the machine is when an interruption is looked through.
Home == IF sm.current = "Interrupt" THEN sm.from ELSE sm.current

\* No driving trigger is under way.
Quiet == Queued = {} /\ Sending = {}

-----------------------------------------------------------------------------
(* The channel *)

\* What is sent fits the channel, and is its last element if it is not dropped.
LEMMA SentFits ==
    ASSUME NEW q \in Seq(Triggers), Len(q) <= ChCap, NEW g \in Triggers
    PROVE  /\ Sent(q, g) \in Seq(Triggers)
           /\ Len(Sent(q, g)) <= ChCap
           /\ \A n \in DOMAIN Sent(q, g) :
                 \/ n \in DOMAIN q /\ Sent(q, g)[n] = q[n]
                 \/ n = Len(q) + 1 /\ Sent(q, g)[n] = g
  BY KernelAssumption DEF Sent

\* What is left after a receive: every trigger one place further to the front.
LEMMA TailShifts ==
    ASSUME NEW q \in Seq(Triggers), q # <<>>
    PROVE  /\ Tail(q) \in Seq(Triggers)
           /\ Len(Tail(q)) = Len(q) - 1
           /\ Head(q) = q[1] /\ 1 \in DOMAIN q /\ q[1] \in Triggers
           /\ \A n \in DOMAIN Tail(q) : n + 1 \in DOMAIN q /\ n # 0 /\ Tail(q)[n] = q[n + 1]
  OBVIOUS

\* A goroutine more for a trigger is counted.
LEMMA SpawnTypes ==
    ASSUME NEW g \in Triggers, NEW n \in Nat, sends \in [Triggers -> Nat], Spawn(g, n)
    PROVE  sends' \in [Triggers -> Nat]
  BY DEF Spawn

\* The names of triggers that the proofs need.
LEMMA TriggerNames ==
    /\ Driving \subseteq Triggers
    /\ {"IntentReceived", "InterruptReceived", "InterruptResume", "InterruptAbort"}
          \subseteq Triggers \ Driving
    /\ \A t \in Transitions : t[2] \in Triggers /\ t[3] \in States \ {"Idle", "Interrupt"}
    /\ \A state \in LLMStates : OnSuccess[state] \in Driving \ {"ValidateOk"}
  BY DEF Driving, Triggers, Transitions, States, LLMStates, Terminal, OnSuccess

-----------------------------------------------------------------------------
\* Every variable keeps its type through every step.
THEOREM TypeCorrect == Spec => []TypeOK
<1>1. Init => TypeOK
  BY KernelAssumption DEF Init, TypeOK, States, Terminal
<1>2. TypeOK /\ [Next]_vars => TypeOK'
  <2> SUFFICES ASSUME TypeOK, [Next]_vars PROVE TypeOK'
    OBVIOUS
  <2>1. ASSUME NEW g \in Triggers, Take(g)
        PROVE  /\ intent' \in Seq(Triggers) /\ Len(intent') <= ChCap
               /\ budget' \in [used : Nat, limit : 1 .. MaxSteps]
    <3>1. intent' \in Seq(Triggers) /\ Len(intent') <= ChCap
      BY <2>1, TailShifts, KernelAssumption DEF TypeOK, Take
    <3>2. budget \in [used : Nat, limit : 1 .. MaxSteps]
      BY DEF TypeOK
    <3>3. budget' = [budget EXCEPT !.used = budget.used + 1]
      BY <2>1 DEF Take
    <3>4. budget' \in [used : Nat, limit : 1 .. MaxSteps]
      BY <3>2, <3>3
    <3>5. QED
      BY <3>1, <3>4
  <2>2. CASE EnterInterrupt
    BY <2>1, <2>2, TriggerNames DEF EnterInterrupt, Interruptible, Take, TypeOK, States, Terminal
  <2>3. CASE Resume
    BY <2>1, <2>3, TriggerNames DEF Resume, Take, TypeOK, States, Terminal
  <2>4. CASE Abort
    BY <2>1, <2>4, TriggerNames DEF Abort, Take, TypeOK, States, Terminal
  <2>5. CASE Step
    <3>1. PICK t \in Transitions : /\ t[1] = sm.current
                                   /\ Take(t[2])
                                   /\ t[3] = "Replan" => sm.replans < MaxReplan
                                   /\ sm' = Advanced(t[3])
      BY <2>5 DEF Step
    <3>2. t[2] \in Triggers /\ t[3] \in States
      BY TriggerNames
    <3>3. sm' \in [current : States, from : States \ Terminal, replans : 0 .. MaxReplan]
      <4>1. sm \in [current : States, from : States \ Terminal, replans : 0 .. MaxReplan]
        BY DEF TypeOK
      <4>2. "Failed" \in States
        BY DEF States, Terminal
      <4>3. CASE t[3] = "Replan"
        <5> DEFINE next == IF sm.replans + 1 >= MaxReplan THEN "Failed" ELSE t[3]
        <5>1. sm' = [sm EXCEPT !.current = next, !.replans = sm.replans + 1]
          BY <3>1, <4>3 DEF Advanced
        <5>2. next \in States /\ sm.replans + 1 \in 0 .. MaxReplan
          BY <3>1, <3>2, <4>1, <4>2, <4>3, KernelAssumption
        <5> HIDE DEF next
        <5>3. QED
          BY <4>1, <5>1, <5>2
      <4>4. CASE t[3] # "Replan"
        BY <3>1, <3>2, <4>1, <4>4 DEF Advanced
      <4>5. QED
        BY <4>3, <4>4
    <3>4. run' \in {"off", "select", "effect"}
      BY <2>5 DEF Step
    <3>5. /\ intent' \in Seq(Triggers) /\ Len(intent') <= ChCap
          /\ budget' \in [used : Nat, limit : 1 .. MaxSteps]
      BY <2>1, <3>1, <3>2
    <3>6. QED
      BY <3>1, <3>3, <3>4, <3>5 DEF Take, TypeOK
  <2>6. CASE Reject
    BY <2>1, <2>6 DEF Reject, Take, TypeOK
  <2>7. CASE MaxStepsExceeded
    <3>1. intent' \in Seq(Triggers) /\ Len(intent') <= ChCap
      BY <2>7, TailShifts, KernelAssumption DEF TypeOK, MaxStepsExceeded
    <3>2. sm' \in [current : States, from : States \ Terminal, replans : 0 .. MaxReplan]
      <4>1. "Failed" \in States
        BY DEF States, Terminal
      <4>2. QED
        BY <2>7, <4>1 DEF MaxStepsExceeded, TypeOK
    <3>3. budget' \in [used : Nat, limit : 1 .. MaxSteps]
      <4>1. /\ budget \in [used : Nat, limit : 1 .. MaxSteps]
            /\ budget' = [budget EXCEPT !.used = budget.used + 1]
        BY <2>7 DEF MaxStepsExceeded, TypeOK
      <4>2. QED
        BY <4>1
    <3>4. QED
      BY <2>7, <3>1, <3>2, <3>3 DEF MaxStepsExceeded, TypeOK
  <2>8. ASSUME NEW state \in LLMStates, LLMFill(state) PROVE TypeOK'
    <3>1. OnSuccess[state] \in Triggers /\ "ReplanExhausted" \in Triggers
      BY TriggerNames DEF Driving
    <3>2. sends' \in [Triggers -> Nat]
      BY <2>8, <3>1, SpawnTypes DEF LLMFill, TypeOK
    <3>3. QED
      BY <2>8, <3>2 DEF LLMFill, EffectEnds, TypeOK
  <2>9. CASE Validate
    <3>1. {"ValidateOk", "ValidateFail"} \subseteq Triggers /\ Copies \in Nat
      BY DEF Triggers, Driving, Copies
    <3>2. sends' \in [Triggers -> Nat]
      BY <2>9, <3>1, SpawnTypes DEF Validate, TypeOK
    <3>3. QED
      BY <2>9, <3>2 DEF Validate, EffectEnds, TypeOK
  <2>10. CASE Execute
    <3>1. {"ExecuteDone", "ExecuteFail", "InterruptReceived"} \subseteq Triggers
      BY DEF Triggers, Driving
    <3>2. sends' \in [Triggers -> Nat]
      BY <2>10, <3>1, SpawnTypes DEF Execute, TypeOK
    <3>3. QED
      BY <2>10, <3>2 DEF Execute, EffectEnds, TypeOK
  <2>11. CASE Recover
    <3>1. {"RollbackDone", "ReplanDone"} \subseteq Triggers
      BY DEF Triggers, Driving
    <3>2. sends' \in [Triggers -> Nat]
      BY <2>11, <3>1, SpawnTypes DEF Recover, TypeOK
    <3>3. QED
      BY <2>11, <3>2 DEF Recover, EffectEnds, TypeOK
  <2>12. CASE LowScore
    <3>1. Shrunk(budget.limit) \in 1 .. MaxSteps
      BY KernelAssumption DEF Shrunk, TypeOK
    <3>2. QED
      BY <2>12, <3>1 DEF LowScore, TypeOK
  <2>13. ASSUME NEW g \in Triggers, Deliver(g) PROVE TypeOK'
    <3>1. sends[g] - 1 \in Nat /\ sends' = [sends EXCEPT ![g] = sends[g] - 1]
      BY <2>13 DEF Deliver, TypeOK
    <3>2. sends' \in [Triggers -> Nat]
      BY <3>1 DEF TypeOK
    <3>3. QED
      BY <2>13, <3>2, SentFits DEF Deliver, TypeOK
  <2>14. ASSUME NEW answer \in {"InterruptResume", "InterruptAbort"}, Interrupt(answer)
         PROVE TypeOK'
    <3>1. answer \in Triggers /\ "InterruptReceived" \in Triggers
      BY TriggerNames
    <3>2. sends' \in [Triggers -> Nat]
      BY <2>14, <3>1, SpawnTypes DEF Interrupt, TypeOK
    <3>3. interrupts' \in 0 .. MaxInterrupts
      BY <2>14, KernelAssumption DEF Interrupt, TypeOK
    <3>4. QED
      BY <2>14, <3>1, <3>2, <3>3, SentFits DEF Interrupt, TypeOK
  <2>15. CASE StartTask
    <3>1. task' \in [st : {"none", "working", "done", "failed", "abandoned"},
                     number : 0 .. MaxTasks]
      BY <2>15, KernelAssumption DEF StartTask, TypeOK
    <3>2. QED
      BY <2>15, <3>1, TriggerNames, SentFits DEF StartTask, TypeOK
  <2>16. CASE EndTask
    BY <2>16 DEF EndTask, TypeOK
  <2>17. CASE Shutdown
    BY <2>17 DEF Shutdown, TypeOK
  <2>18. CASE UNCHANGED vars
    BY <2>18 DEF vars, TypeOK
  <2>19. CASE Loop
    BY <2>2, <2>3, <2>4, <2>5, <2>6, <2>7, <2>9, <2>10, <2>11, <2>19 DEF Loop
  <2>20. QED
    BY <2>8, <2>12, <2>13, <2>14, <2>15, <2>16, <2>17, <2>18, <2>19 DEF Next
<1>3. QED
  BY <1>1, <1>2, PTL DEF Spec

-----------------------------------------------------------------------------
(* Terminal states and executions: whatever triggers are under way *)

\* Where a transition of the table leads to, and from where.
LEMMA TableShape ==
    \A t \in Transitions :
        /\ t[1] \notin Terminal \cup {"Interrupt"}
        /\ t[3] \notin {"Idle", "Interrupt"}
        /\ t[1] = "Idle" \/ t[2] \in Driving
        /\ t[3] = "Perceive" => t[1] = "Idle"
        /\ t[3] = "Plan" => t[1] \in {"Perceive", "Replan"}
        /\ t[3] = "Validate" => t[1] = "Plan"
        /\ t[3] = "Execute" => t[1] = "Validate" /\ t[2] = "ValidateOk"
        /\ t[3] = "Replan" => t[1] \in {"Validate", "Rollback"}
  BY DEF Transitions, Terminal, Driving

\* What a transition does to the machine and the loop.
LEMMA StepTo ==
    ASSUME TypeOK, Step
    PROVE  \E t \in Transitions :
              /\ t[1] = sm.current
              /\ Take(t[2])
              /\ sm'.replans = IF t[3] = "Replan" THEN sm.replans + 1 ELSE sm.replans
              /\ \/ sm'.current = t[3] /\ (t[3] = "Replan" => sm.replans + 1 < MaxReplan)
                 \/ sm'.current = "Failed"
              /\ sm'.from = sm.from
              /\ run' = IF sm'.current \in Terminal THEN "off" ELSE "effect"
<1>1. PICK t \in Transitions : /\ t[1] = sm.current
                               /\ Take(t[2])
                               /\ t[3] = "Replan" => sm.replans < MaxReplan
                               /\ sm' = Advanced(t[3])
  BY DEF Step
<1>2. run' = IF sm'.current \in Terminal THEN "off" ELSE "effect"
  BY DEF Step
<1>3. sm \in [current : States, from : States \ Terminal, replans : 0 .. MaxReplan]
  BY DEF TypeOK
<1>4. CASE t[3] = "Replan"
  BY <1>1, <1>2, <1>3, <1>4, KernelAssumption DEF Advanced
<1>5. CASE t[3] # "Replan"
  BY <1>1, <1>2, <1>3, <1>5 DEF Advanced
<1>6. QED
  BY <1>4, <1>5

\* An effect runs for a state that has one; a plan that is still to be executed
\* has its replanning counted already, and only S_FAILED has the full count.
Pending == \/ Home \in {"Idle", "Perceive", "Plan", "Validate", "Replan"}
           \/ Home = "Execute" /\ run = "effect"

CountInv ==
    /\ run = "effect" => sm.current \notin Terminal \cup {"Idle", "Interrupt"}
    /\ executions <= sm.replans + 1
    /\ executions <= MaxReplan
    /\ Pending => executions <= sm.replans
    /\ Home # "Failed" => sm.replans < MaxReplan

\* Steps that execute nothing, move the machine nowhere but into and out of
\* S_INTERRUPT or to S_FAILED, and start no effect, keep the counts.
LEMMA CountsKept ==
    ASSUME TypeOK, CountInv, executions' = executions,
           sm'.replans = sm.replans,
           \/ run' = run /\ sm' = sm
           \/ run' # "effect" /\ (Home' = Home \/ Home' = "Failed")
    PROVE  CountInv'
  BY DEF CountInv, Pending, Home

\* The counting invariant holds in every reachable state.
THEOREM CountsInductive == Spec => []CountInv
<1>1. Init => CountInv
  BY KernelAssumption DEF Init, CountInv, Pending, Home
<1>2. TypeOK /\ CountInv /\ [Next]_vars => CountInv'
  <2> SUFFICES ASSUME TypeOK, CountInv, [Next]_vars PROVE CountInv'
    OBVIOUS
  <2> USE DEF TypeOK
  <2>1. CASE EnterInterrupt
    <3>1. executions' = executions /\ run' # "effect"
      BY <2>1 DEF EnterInterrupt, Take
    <3>2. sm'.replans = sm.replans /\ Home' = Home
      BY <2>1 DEF EnterInterrupt, Interruptible, Home
    <3>3. QED
      BY <3>1, <3>2, CountsKept
  <2>2. CASE Resume
    <3>1. executions' = executions /\ run' # "effect"
      BY <2>2 DEF Resume, Take
    <3>2. sm'.replans = sm.replans /\ Home' = Home
      BY <2>2 DEF Resume, Home
    <3>3. QED
      BY <3>1, <3>2, CountsKept
  <2>3. CASE Abort
    <3>1. executions' = executions /\ run' # "effect"
      BY <2>3 DEF Abort, Take
    <3>2. sm'.replans = sm.replans /\ Home' = "Failed"
      BY <2>3 DEF Abort, Home
    <3>3. QED
      BY <3>1, <3>2, CountsKept
  <2>4. CASE MaxStepsExceeded
    <3>1. executions' = executions /\ run' # "effect"
      BY <2>4 DEF MaxStepsExceeded
    <3>2. sm'.replans = sm.replans /\ Home' = "Failed"
      BY <2>4 DEF MaxStepsExceeded, Home
    <3>3. QED
      BY <3>1, <3>2, CountsKept
  <2>5. CASE Reject
    <3>1. executions' = executions /\ run' # "effect" /\ sm' = sm
      BY <2>5 DEF Reject, Take
    <3>2. QED
      BY <3>1, CountsKept DEF Home
  <2>6. CASE Step
    <3>1. PICK t \in Transitions :
              /\ t[1] = sm.current
              /\ Take(t[2])
              /\ sm'.replans = IF t[3] = "Replan" THEN sm.replans + 1 ELSE sm.replans
              /\ \/ sm'.current = t[3] /\ (t[3] = "Replan" => sm.replans + 1 < MaxReplan)
                 \/ sm'.current = "Failed"
              /\ sm'.from = sm.from
              /\ run' = IF sm'.current \in Terminal THEN "off" ELSE "effect"
      BY <2>6, StepTo
    <3>2. executions' = executions
      BY <3>1 DEF Take
    <3>3. /\ t[1] \notin Terminal \cup {"Interrupt"}
          /\ t[3] \notin {"Idle", "Interrupt"}
          /\ t[3] = "Perceive" => t[1] = "Idle"
          /\ t[3] = "Plan" => t[1] \in {"Perceive", "Replan"}
          /\ t[3] = "Validate" => t[1] = "Plan"
          /\ t[3] = "Execute" => t[1] = "Validate"
      BY TableShape
    <3>4. Home = t[1] /\ sm.replans < MaxReplan
      BY <3>1, <3>3 DEF Home, CountInv, Terminal
    <3>5. CASE t[3] = "Replan"
      BY <3>1, <3>2, <3>4, <3>5, KernelAssumption DEF CountInv, Pending, Home, Terminal
    <3>6. CASE t[3] # "Replan"
      <4>1. sm'.replans = sm.replans
        BY <3>1, <3>6
      <4>2. t[3] \in {"Perceive", "Plan", "Validate", "Execute"} => executions <= sm.replans
        BY <3>3, <3>4 DEF CountInv, Pending
      <4>3. Home' = sm'.current /\ sm'.current \in {t[3], "Failed"}
        BY <3>1, <3>3 DEF Home
      <4>4. QED
        BY <3>1, <3>2, <3>3, <3>4, <3>6, <4>1, <4>2, <4>3 DEF CountInv, Pending, Terminal
    <3>7. QED
      BY <3>5, <3>6
  <2>7. CASE Execute
    <3>1. /\ executions' = executions + 1 /\ sm' = sm /\ run' = "select"
          /\ Home = "Execute" /\ run = "effect"
      BY <2>7 DEF Execute, InEffect, EffectEnds, Home
    <3>2. executions <= sm.replans /\ sm.replans < MaxReplan
      BY <3>1 DEF CountInv, Pending
    <3>3. Home' = "Execute"
      BY <3>1 DEF Home
    <3>4. QED
      BY <3>1, <3>2, <3>3, KernelAssumption DEF CountInv, Pending
  <2>8. CASE \/ \E state \in LLMStates : LLMFill(state)
             \/ Validate
             \/ Recover
    <3>1. executions' = executions /\ run' # "effect" /\ sm' = sm
      BY <2>8 DEF LLMFill, Validate, Recover, EffectEnds
    <3>2. QED
      BY <3>1, CountsKept DEF Home
  <2>9. CASE \/ LowScore
             \/ \E g \in Triggers : Deliver(g)
             \/ \E answer \in {"InterruptResume", "InterruptAbort"} : Interrupt(answer)
             \/ EndTask
             \/ UNCHANGED vars
    <3>1. executions' = executions /\ run' = run /\ sm' = sm
      BY <2>9 DEF LowScore, Deliver, Interrupt, EndTask, vars
    <3>2. QED
      BY <3>1, CountsKept
  <2>10. CASE StartTask \/ Shutdown
    <3>1. executions' = executions /\ run' # "effect" /\ sm' = sm
      BY <2>10 DEF StartTask, Shutdown
    <3>2. QED
      BY <3>1, CountsKept DEF Home
  <2>11. QED
    BY <2>1, <2>2, <2>3, <2>4, <2>5, <2>6, <2>7, <2>8, <2>9, <2>10 DEF Next, Loop
<1>3. QED
  BY <1>1, <1>2, TypeCorrect, PTL DEF Spec

\* The side effects of plans are repeated only by counted replanning
\* (the counter of S_REPLAN, state_machine.go:234).
THEOREM ExecutionsAlwaysBounded == Spec => []ExecutionsBounded
<1>1. CountInv => ExecutionsBounded
  BY DEF CountInv, ExecutionsBounded
<1>2. QED
  BY <1>1, CountsInductive, PTL

\* No trigger that is still under way makes a completed or failed agent leave
\* its terminal states or run an effect (state_machine.go:187, agent.go:119).
THEOREM TerminalAlwaysStays == Spec => TerminalStays
<1> DEFINE TStep == sm.current \in Terminal => sm'.current \in Terminal /\ run' # "effect"
<1>1. TypeOK /\ CountInv /\ [Next]_vars => [TStep]_vars
  <2> SUFFICES ASSUME TypeOK, CountInv, Next, sm.current \in Terminal
               PROVE  sm'.current \in Terminal /\ run' # "effect"
    OBVIOUS
  <2>1. run # "effect"
    BY DEF CountInv
  <2>2. ~Step
    BY StepTo, TableShape
  <2>3. ~EnterInterrupt /\ ~Resume /\ ~Abort
    BY DEF EnterInterrupt, Interruptible, Resume, Abort, Terminal
  <2>4. CASE Reject \/ MaxStepsExceeded
    BY <2>4 DEF Reject, MaxStepsExceeded, Take, Terminal, TypeOK
  <2>5. ~(\E state \in LLMStates : LLMFill(state)) /\ ~Validate /\ ~Execute /\ ~Recover
    BY <2>1 DEF LLMFill, Validate, Execute, Recover, InEffect
  <2>6. CASE \/ LowScore \/ StartTask \/ EndTask \/ Shutdown
             \/ \E g \in Triggers : Deliver(g)
             \/ \E answer \in {"InterruptResume", "InterruptAbort"} : Interrupt(answer)
    BY <2>1, <2>6 DEF LowScore, StartTask, EndTask, Shutdown, Deliver, Interrupt
  <2>7. QED
    BY <2>2, <2>3, <2>4, <2>5, <2>6 DEF Next, Loop
<1>2. QED
  BY <1>1, TypeCorrect, CountsInductive, PTL DEF Spec, TerminalStays

-----------------------------------------------------------------------------
(* The line of control, without the watchdog *)

UnderWay(g) == sends[g] > 0 \/ \E n \in DOMAIN intent : intent[n] = g

\* OneDriver, and what keeps it so: an idle agent has no driving trigger under
\* way, and while ValidateOk is under way the plan is the validated one.
Control ==
    /\ OneDriver
    /\ Home = "Idle" => Quiet /\ run # "effect"
    /\ UnderWay("ValidateOk") => plan = "approved"
    /\ ExecutesValidated

\* A receive takes the one driving trigger, or leaves it where it is.
LEMMA Received ==
    ASSUME TypeOK, OneDriver, run # "effect", intent # <<>>, intent' = Tail(intent),
           sends' = sends
    PROVE  /\ \A m, n \in Queued' : m = n
           /\ \A g, h \in Sending' : g = h /\ sends'[g] = 1
           /\ Queued' = {} \/ Sending' = {}
           /\ Quiet => Quiet'
           /\ Head(intent) \in Driving => Quiet'
           /\ UnderWay(Head(intent))
           /\ \A g \in Triggers : UnderWay(g)' => UnderWay(g)
<1>1. /\ intent \in Seq(Triggers)
      /\ Head(intent) = intent[1] /\ 1 \in DOMAIN intent
      /\ \A n \in DOMAIN intent' : n + 1 \in DOMAIN intent /\ n # 0 /\ intent'[n] = intent[n + 1]
      /\ DOMAIN intent \subseteq Nat /\ DOMAIN intent' \subseteq Nat
  BY TailShifts DEF TypeOK
<1>2. \A n \in Queued' : n \in Nat /\ n # 0 /\ n + 1 \in Queued
  BY <1>1 DEF Queued
<1>3. Sending' = Sending
  BY DEF Sending
<1>4. \A m, n \in Queued' : m = n
  BY <1>2 DEF OneDriver
<1>5. Queued' = {} \/ Sending' = {}
  BY <1>2, <1>3 DEF OneDriver
<1>6. ASSUME Head(intent) \in Driving PROVE Quiet'
  <2>1. 1 \in Queued
    BY <1>1, <1>6 DEF Queued
  <2>2. Sending' = {}
    BY <2>1, <1>3 DEF OneDriver
  <2>3. Queued' = {}
    BY <2>1, <1>2 DEF OneDriver
  <2>4. QED
    BY <2>2, <2>3 DEF Quiet
<1>7. Quiet => Quiet'
  BY <1>2, <1>3 DEF Quiet
<1>8. UnderWay(Head(intent)) /\ \A g \in Triggers : UnderWay(g)' => UnderWay(g)
  BY <1>1 DEF UnderWay
<1>9. QED
  BY <1>3, <1>4, <1>5, <1>6, <1>7, <1>8 DEF OneDriver

\* A trigger that drives nothing changes nothing about those that do.
LEMMA Joined ==
    ASSUME TypeOK, NEW g \in Triggers \ Driving, intent' = Sent(intent, g)
    PROVE  /\ Queued' \subseteq Queued
           /\ \A h \in Driving : (\E n \in DOMAIN intent' : intent'[n] = h)
                                  => \E n \in DOMAIN intent : intent[n] = h
<1>1. \A n \in DOMAIN intent' : \/ n \in DOMAIN intent /\ intent'[n] = intent[n]
                                \/ intent'[n] = g
  BY SentFits DEF TypeOK
<1>2. QED
  BY <1>1 DEF Queued

\* The end of an effect puts the one trigger under way that it sends.
LEMMA Started ==
    ASSUME TypeOK, OneDriver, run = "effect", NEW g \in Triggers, Spawn(g, 1),
           run' = "select", intent' = intent
    PROVE  /\ OneDriver'
           /\ \A h \in Driving : UnderWay(h)' => h = g
<1>1. Queued = {} /\ Sending = {}
  BY DEF OneDriver
<1>2. Queued' = {}
  BY <1>1 DEF Queued
<1>3. \A h \in Driving : sends[h] = 0 /\ h \in Triggers
  BY <1>1, TriggerNames DEF Sending, TypeOK
<1>4. sends' = [sends EXCEPT ![g] = sends[g] + 1] /\ sends \in [Triggers -> Nat]
  BY DEF Spawn, TypeOK
<1>5. \A h \in Driving : sends'[h] > 0 => h = g /\ sends'[h] = 1
  BY <1>3, <1>4
<1>6. OneDriver'
  BY <1>2, <1>5 DEF OneDriver, Sending
<1>7. \A h \in Driving : UnderWay(h)' => h = g
  <2> SUFFICES ASSUME NEW h \in Driving, UnderWay(h)' PROVE h = g
    OBVIOUS
  <2>1. ~ \E n \in DOMAIN intent' : intent'[n] = h
    BY <1>2 DEF Queued
  <2>2. sends'[h] > 0
    BY <2>1 DEF UnderWay
  <2>3. QED
    BY <2>2, <1>5
<1>8. QED
  BY <1>6, <1>7

\* A goroutine's send moves its trigger from one place to the other.
LEMMA Delivered ==
    ASSUME TypeOK, OneDriver, NEW g \in Triggers, Deliver(g)
    PROVE  /\ OneDriver'
           /\ Quiet => Quiet'
           /\ \A h \in Triggers : UnderWay(h)' => UnderWay(h)
<1>1. /\ \A n \in DOMAIN intent' :
            \/ n \in DOMAIN intent /\ intent'[n] = intent[n]
            \/ n = Len(intent) + 1 /\ intent'[n] = g
  BY SentFits DEF Deliver, TypeOK
<1>2. /\ sends \in [Triggers -> Nat] /\ sends[g] > 0 /\ run' = run
      /\ sends' = [sends EXCEPT ![g] = sends[g] - 1]
  BY DEF Deliver, TypeOK
<1>3. \A h \in Triggers : UnderWay(h)' => UnderWay(h)
  BY <1>1, <1>2 DEF UnderWay
<1>4. CASE g \in Driving
  <2>1. g \in Sending
    BY <1>2, <1>4 DEF Sending
  <2>2. Sending = {g} /\ sends[g] = 1 /\ Queued = {} /\ run # "effect"
    BY <2>1 DEF OneDriver
  <2>3. Sending' = {}
    <3> SUFFICES ASSUME NEW h \in Sending' PROVE FALSE
      OBVIOUS
    <3>1. h \in Driving /\ h \in Triggers /\ sends'[h] > 0
      BY TriggerNames DEF Sending
    <3>2. CASE h = g
      BY <1>2, <2>2, <3>1, <3>2
    <3>3. CASE h # g
      BY <1>2, <2>2, <3>1, <3>3 DEF Sending
    <3>4. QED
      BY <3>2, <3>3
  <2>4. \A n \in Queued' : n = Len(intent) + 1
    BY <1>1, <2>2 DEF Queued
  <2>5. ~Quiet
    BY <2>1 DEF Quiet
  <2>6. QED
    BY <1>2, <1>3, <2>2, <2>3, <2>4, <2>5 DEF OneDriver
<1>5. CASE g \notin Driving
  <2>1. Queued' \subseteq Queued
    BY <1>5, Joined DEF Deliver
  <2>2. \A h \in Driving : h \in Triggers /\ sends'[h] = sends[h]
    BY <1>2, <1>5, TriggerNames
  <2>3. Sending' = Sending
    BY <2>2 DEF Sending
  <2>4. \A h \in Sending : sends'[h] = sends[h]
    BY <2>2 DEF Sending
  <2>5. QED
    BY <1>2, <1>3, <2>1, <2>3, <2>4 DEF OneDriver, Quiet
<1>6. QED
  BY <1>4, <1>5

\* A receive that starts no effect and moves the machine nowhere but into and
\* out of S_INTERRUPT or to S_FAILED.
LEMMA ReceivedInPlace ==
    ASSUME TypeOK, Control, run # "effect", intent # <<>>, intent' = Tail(intent),
           sends' = sends, plan' = plan, run' # "effect", Home' = Home \/ Home' = "Failed"
    PROVE  Control'
<1>1. OneDriver
  BY DEF Control
<1>2. OneDriver' /\ (Quiet => Quiet')
  BY <1>1, Received DEF OneDriver
<1>3. UnderWay("ValidateOk")' => UnderWay("ValidateOk")
  BY <1>1, Received, TriggerNames DEF Driving
<1>4. QED
  BY <1>2, <1>3 DEF Control, ExecutesValidated, InEffect

\* The end of an effect that sends one trigger.
LEMMA EndedWithOne ==
    ASSUME TypeOK, Control, run = "effect", NEW g \in Triggers, Spawn(g, 1), EffectEnds,
           g = "ValidateOk" => plan' = "approved"
    PROVE  Control'
<1>1. OneDriver /\ Home # "Idle"
  BY DEF Control
<1>2. run' = "select" /\ intent' = intent /\ sm' = sm
  BY DEF EffectEnds
<1>3. OneDriver' /\ \A h \in Driving : UnderWay(h)' => h = g
  BY <1>1, <1>2, Started
<1>4. UnderWay("ValidateOk")' => plan' = "approved"
  BY <1>3 DEF Driving
<1>5. QED
  BY <1>1, <1>2, <1>3, <1>4 DEF Control, ExecutesValidated, InEffect, Home

\* A step that only adds triggers that drive nothing, or none at all.
LEMMA Undisturbed ==
    ASSUME TypeOK, Control, sm' = sm, plan' = plan, run' = run \/ run' # "effect",
           \A h \in Driving : sends'[h] = sends[h],
           intent' = intent \/ \E g \in Triggers \ Driving : intent' = Sent(intent, g)
    PROVE  Control'
<1>1. /\ Queued' \subseteq Queued
      /\ \A h \in Driving : (\E n \in DOMAIN intent' : intent'[n] = h)
                             => \E n \in DOMAIN intent : intent[n] = h
  BY Joined DEF Queued
<1>2. Sending' = Sending /\ \A h \in Sending : sends'[h] = sends[h]
  BY DEF Sending
<1>3. OneDriver' /\ (Quiet => Quiet')
  BY <1>1, <1>2 DEF Control, OneDriver, Quiet
<1>4. UnderWay("ValidateOk")' => UnderWay("ValidateOk")
  BY <1>1 DEF UnderWay, Driving
<1>5. QED
  BY <1>3, <1>4 DEF Control, ExecutesValidated, InEffect, Home

\* The control invariant holds in every reachable state, the watchdog being off.
THEOREM ControlInductive == ~Watchdog => (Spec => []Control)
<1> SUFFICES ASSUME ~Watchdog PROVE Spec => []Control
  OBVIOUS
<1>1. Init => Control
  BY DEF Init, Control, OneDriver, Queued, Sending, Quiet, UnderWay, ExecutesValidated,
         InEffect, Home, Driving, Triggers
<1>2. TypeOK /\ Control /\ [Next]_vars => Control'
  <2> SUFFICES ASSUME TypeOK, Control, [Next]_vars PROVE Control'
    OBVIOUS
  <2>1. CASE EnterInterrupt
    <3>1. Home' = Home /\ run' # "effect" /\ Take("InterruptReceived")
      BY <2>1 DEF EnterInterrupt, Interruptible, Take, Home, TypeOK
    <3>2. QED
      BY <3>1, ReceivedInPlace DEF Take
  <2>2. CASE Resume
    <3>1. Home' = Home /\ run' # "effect" /\ Take("InterruptResume")
      <4>1. sm \in [current : States, from : States \ Terminal, replans : 0 .. MaxReplan]
        BY DEF TypeOK
      <4>2. QED
        BY <2>2, <4>1 DEF Resume, Take, Home
    <3>2. QED
      BY <3>1, ReceivedInPlace DEF Take
  <2>3. CASE Abort
    <3>1. Home' = "Failed" /\ run' # "effect" /\ Take("InterruptAbort")
      BY <2>3 DEF Abort, Home, TypeOK
    <3>2. QED
      BY <3>1, ReceivedInPlace DEF Take
  <2>4. CASE Reject
    <3>1. PICK g \in Triggers : Take(g)
      BY <2>4 DEF Reject
    <3>2. Home' = Home /\ run' # "effect"
      BY <2>4 DEF Reject, Home
    <3>3. QED
      BY <3>1, <3>2, ReceivedInPlace DEF Take
  <2>5. CASE MaxStepsExceeded
    <3>1. Home' = "Failed" /\ run' # "effect"
      BY <2>5 DEF MaxStepsExceeded, Home, TypeOK
    <3>2. QED
      BY <2>5, <3>1, ReceivedInPlace DEF MaxStepsExceeded
  <2>6. CASE Step
    <3>1. PICK t \in Transitions :
              /\ t[1] = sm.current
              /\ Take(t[2])
              /\ sm'.current = t[3] \/ sm'.current = "Failed"
      BY <2>6, StepTo
    <3>2. /\ t[1] # "Interrupt" /\ t[3] \notin {"Idle", "Interrupt"}
          /\ t[1] = "Idle" \/ t[2] \in Driving
          /\ t[3] = "Execute" => t[2] = "ValidateOk"
      BY TableShape
    <3>3. /\ run = "select" /\ intent # <<>> /\ Head(intent) = t[2]
          /\ intent' = Tail(intent) /\ sends' = sends /\ plan' = plan
      BY <3>1 DEF Take
    <3>4. Quiet'
      <4>1. CASE t[2] \in Driving
        BY <3>3, <4>1, Received DEF Control
      <4>2. CASE t[1] = "Idle"
        <5>1. Quiet
          BY <3>1, <4>2 DEF Control, Home
        <5>2. QED
          BY <3>3, <5>1, Received DEF Control
      <4>3. QED
        BY <3>2, <4>1, <4>2
    <3>5. OneDriver' /\ ~UnderWay("ValidateOk")'
      BY <3>4 DEF Quiet, OneDriver, UnderWay, Queued, Sending, Driving
    <3>6. Home' # "Idle"
      BY <3>1, <3>2 DEF Home
    <3>7. UnderWay(t[2])
      BY <3>3, Received DEF Control
    <3>8. ExecutesValidated'
      BY <3>1, <3>2, <3>3, <3>7 DEF ExecutesValidated, InEffect, Control
    <3>9. QED
      BY <3>5, <3>6, <3>8 DEF Control
  <2>7. ASSUME NEW state \in LLMStates, LLMFill(state) PROVE Control'
    <3>1. OnSuccess[state] \in Triggers \ {"ValidateOk"}
      BY TriggerNames
    <3>2. "ReplanExhausted" \in Triggers \ {"ValidateOk"}
      BY DEF Triggers, Driving
    <3>3. PICK g \in Triggers \ {"ValidateOk"} : Spawn(g, 1)
      BY <2>7, <3>1, <3>2 DEF LLMFill
    <3>4. QED
      BY <2>7, <3>3, EndedWithOne DEF LLMFill, InEffect
  <2>8. CASE Validate
    <3>1. Copies = 1
      BY KernelAssumption DEF Copies
    <3>2. PICK g \in {"ValidateOk", "ValidateFail"} :
              Spawn(g, 1) /\ (g = "ValidateOk" => plan' = "approved")
      BY <2>8, <3>1 DEF Validate
    <3>3. g \in Triggers
      BY DEF Triggers, Driving
    <3>4. QED
      BY <2>8, <3>2, <3>3, EndedWithOne DEF Validate, InEffect
  <2>9. CASE Execute
    <3>1. PICK g \in {"ExecuteDone", "ExecuteFail", "InterruptReceived"} : Spawn(g, 1)
      BY <2>9 DEF Execute
    <3>2. g \in Triggers /\ g # "ValidateOk"
      BY DEF Triggers, Driving
    <3>3. QED
      BY <2>9, <3>1, <3>2, EndedWithOne DEF Execute, InEffect
  <2>10. CASE Recover
    <3>1. PICK g \in {"RollbackDone", "ReplanDone"} : Spawn(g, 1)
      BY <2>10 DEF Recover
    <3>2. g \in Triggers /\ g # "ValidateOk"
      BY DEF Triggers, Driving
    <3>3. QED
      BY <2>10, <3>1, <3>2, EndedWithOne DEF Recover, InEffect
  <2>11. ASSUME NEW g \in Triggers, Deliver(g) PROVE Control'
    <3>1. /\ OneDriver' /\ (Quiet => Quiet')
          /\ UnderWay("ValidateOk")' => UnderWay("ValidateOk")
      BY <2>11, Delivered, TriggerNames DEF Control, Driving
    <3>2. sm' = sm /\ run' = run /\ plan' = plan
      BY <2>11 DEF Deliver
    <3>3. QED
      BY <3>1, <3>2 DEF Control, Home, ExecutesValidated, InEffect
  <2>12. ASSUME NEW answer \in {"InterruptResume", "InterruptAbort"}, Interrupt(answer)
         PROVE Control'
    <3>1. \A h \in Driving : h \in Triggers /\ h # answer
      BY TriggerNames
    <3>2. \A h \in Driving : sends'[h] = sends[h]
      BY <2>12, <3>1 DEF Interrupt, Spawn, TypeOK
    <3>3. QED
      BY <2>12, <3>2, TriggerNames, Undisturbed DEF Interrupt
  <2>13. CASE StartTask
    BY <2>13, TriggerNames, Undisturbed DEF StartTask
  <2>14. CASE LowScore \/ EndTask \/ Shutdown \/ UNCHANGED vars
    <3>1. /\ sm' = sm /\ plan' = plan /\ (run' = run \/ run' # "effect")
          /\ intent' = intent /\ sends' = sends
      BY <2>14 DEF LowScore, EndTask, Shutdown, vars
    <3>2. QED
      BY <3>1, Undisturbed
  <2>15. QED
    BY <2>1, <2>2, <2>3, <2>4, <2>5, <2>6, <2>7, <2>8, <2>9, <2>10, <2>11, <2>12, <2>13,
       <2>14 DEF Next, Loop
<1>3. QED
  BY <1>1, <1>2, TypeCorrect, PTL DEF Spec

\* There is one line of control, whatever users, interrupts and earlier tasks do
\* (agent_execute.go:76), as long as there is no L3 watchdog.
THEOREM AlwaysOneDriver == ~Watchdog => (Spec => []OneDriver)
<1> SUFFICES ASSUME ~Watchdog PROVE Spec => []OneDriver
  OBVIOUS
<1>1. Control => OneDriver
  BY DEF Control
<1>2. Spec => []Control
  BY ControlInductive
<1>3. QED
  BY <1>1, <1>2, PTL

\* What is executed is what was validated (runExecuteDAG, agent_execute.go:349),
\* as long as there is no L3 watchdog.
THEOREM AlwaysExecutesValidated == ~Watchdog => (Spec => []ExecutesValidated)
<1> SUFFICES ASSUME ~Watchdog PROVE Spec => []ExecutesValidated
  OBVIOUS
<1>1. Control => ExecutesValidated
  BY DEF Control
<1>2. Spec => []Control
  BY ControlInductive
<1>3. QED
  BY <1>1, <1>2, PTL

-----------------------------------------------------------------------------
(***************************************************************************)
(* Who is under way.  A task brings one trigger and an interrupt brings    *)
(* two; the loop and its effects only turn one into another.               *)
(***************************************************************************)
SendsForward ==
    sends["PerceiveDone"] + sends["PlanDone"] + sends["ValidateOk"] + sends["ExecuteDone"]
    + sends["ReflectDone"]

SendsBack ==
    sends["ValidateFail"] + sends["ExecuteFail"] + sends["RollbackDone"]
    + sends["ReplanDone"] + sends["ReplanExhausted"]

SendsOfUsers ==
    sends["IntentReceived"] + sends["InterruptReceived"] + sends["InterruptResume"]
    + sends["InterruptAbort"]

SendsTotal == SendsForward + SendsBack + SendsOfUsers

Effects == IF run = "effect" THEN 1 ELSE 0

FewTriggers == Len(intent) + SendsTotal + Effects <= 2 * interrupts + task.number

LEMMA TotalParts ==
    ASSUME sends \in [Triggers -> Nat]
    PROVE  SendsForward \in Nat /\ SendsBack \in Nat /\ SendsOfUsers \in Nat
<1>1. \A h \in Triggers : sends[h] \in Nat
  OBVIOUS
<1>. QED BY <1>1 DEF SendsForward, SendsBack, SendsOfUsers, Triggers, Driving

\* A goroutine more or less is one more or less in total.
LEMMA TotalMoves ==
    ASSUME sends \in [Triggers -> Nat], NEW g \in Triggers, NEW k \in Int,
           sends' = [sends EXCEPT ![g] = sends[g] + k]
    PROVE  SendsTotal' = SendsTotal + k
<1>1. \A h \in Triggers : sends[h] \in Nat /\ sends'[h] = IF h = g THEN sends[h] + k ELSE sends[h]
  OBVIOUS
<1>2. SendsForward \in Nat /\ SendsBack \in Nat /\ SendsOfUsers \in Nat
  BY TotalParts
<1>3. CASE g \in {"PerceiveDone", "PlanDone", "ValidateOk", "ExecuteDone", "ReflectDone"}
  <2>1. SendsForward' = SendsForward + k
    BY <1>1, <1>3 DEF SendsForward, Triggers, Driving
  <2>2. SendsBack' = SendsBack /\ SendsOfUsers' = SendsOfUsers
    BY <1>1, <1>3 DEF SendsBack, SendsOfUsers, Triggers, Driving
  <2>. QED BY <1>2, <2>1, <2>2 DEF SendsTotal
<1>4. CASE g \in {"ValidateFail", "ExecuteFail", "RollbackDone", "ReplanDone", "ReplanExhausted"}
  <2>1. SendsBack' = SendsBack + k
    BY <1>1, <1>4 DEF SendsBack, Triggers, Driving
  <2>2. SendsForward' = SendsForward /\ SendsOfUsers' = SendsOfUsers
    BY <1>1, <1>4 DEF SendsForward, SendsOfUsers, Triggers, Driving
  <2>. QED BY <1>2, <2>1, <2>2 DEF SendsTotal
<1>5. CASE g \in {"IntentReceived", "InterruptReceived", "InterruptResume", "InterruptAbort"}
  <2>1. SendsOfUsers' = SendsOfUsers + k
    BY <1>1, <1>5 DEF SendsOfUsers, Triggers, Driving
  <2>2. SendsForward' = SendsForward /\ SendsBack' = SendsBack
    BY <1>1, <1>5 DEF SendsForward, SendsBack, Triggers, Driving
  <2>. QED BY <1>2, <2>1, <2>2 DEF SendsTotal
<1>. QED BY <1>3, <1>4, <1>5 DEF Triggers, Driving

LEMMA TotalCounts ==
    ASSUME sends \in [Triggers -> Nat]
    PROVE  SendsTotal \in Nat /\ \A g \in Triggers : SendsTotal >= sends[g]
<1>1. SendsForward \in Nat /\ SendsBack \in Nat /\ SendsOfUsers \in Nat
  BY TotalParts
<1>2. SUFFICES ASSUME NEW g \in Triggers PROVE SendsTotal >= sends[g]
  BY <1>1 DEF SendsTotal
<1>3. \A h \in Triggers : sends[h] \in Nat
  OBVIOUS
<1>4. \/ SendsForward >= sends[g] \/ SendsBack >= sends[g] \/ SendsOfUsers >= sends[g]
  BY <1>3 DEF SendsForward, SendsBack, SendsOfUsers, Triggers, Driving
<1>. QED BY <1>1, <1>3, <1>4 DEF SendsTotal

\* What is sent makes the channel longer by one at most.
LEMMA SentAddsOne ==
    ASSUME NEW q \in Seq(Triggers), NEW g \in Triggers
    PROVE  Len(Sent(q, g)) \in {Len(q), Len(q) + 1}
  BY DEF Sent

\* An effect that sends one trigger is that trigger.
LEMMA EffectIsSend ==
    ASSUME TypeOK, FewTriggers, NEW g \in Triggers, Spawn(g, 1), run = "effect",
           run' = "select", UNCHANGED <<intent, task, interrupts>>
    PROVE  FewTriggers'
<1>1. SendsTotal' = SendsTotal + 1
  <2>1. sends' = [sends EXCEPT ![g] = sends[g] + 1] /\ sends \in [Triggers -> Nat]
    BY DEF Spawn, TypeOK
  <2>2. 1 \in Int
    OBVIOUS
  <2>. QED BY <2>1, <2>2, TotalMoves
<1>2. Effects = 1 /\ Effects' = 0
  BY DEF Effects
<1>3. SendsTotal \in Nat /\ Len(intent) \in Nat
  BY TotalCounts DEF TypeOK
<1>4. interrupts \in Nat /\ task.number \in Nat
  BY KernelAssumption DEF TypeOK
<1>. QED BY <1>1, <1>2, <1>3, <1>4 DEF FewTriggers

\* A step that leaves the goroutines alone and the channel no longer.
LEMMA NoneAdded ==
    ASSUME TypeOK, FewTriggers, UNCHANGED <<sends, interrupts>>, task'.number = task.number,
           \/ intent' = intent /\ (run' = run \/ run' # "effect")
           \/ intent # <<>> /\ intent' = Tail(intent) /\ run # "effect"
    PROVE  FewTriggers'
<1>1. SendsTotal' = SendsTotal /\ SendsTotal \in Nat
  BY TotalCounts DEF TypeOK, SendsTotal, SendsForward, SendsBack, SendsOfUsers
<1>2. Len(intent) \in Nat /\ (intent # <<>> => Len(Tail(intent)) = Len(intent) - 1)
  BY TailShifts DEF TypeOK
<1>3. Effects \in {0, 1} /\ Effects' \in {0, 1} /\ (run' = run \/ run' # "effect" => Effects' <= Effects)
      /\ (run # "effect" => Effects = 0)
  BY DEF Effects
<1>4. interrupts \in Nat /\ task.number \in Nat
  BY KernelAssumption DEF TypeOK
<1>. QED BY <1>1, <1>2, <1>3, <1>4 DEF FewTriggers

LEMMA FewTriggersInductive == ~Watchdog => (Spec => []FewTriggers)
<1> SUFFICES ASSUME ~Watchdog PROVE Spec => []FewTriggers
  OBVIOUS
<1>1. Init => FewTriggers
  BY DEF Init, FewTriggers, SendsTotal, SendsForward, SendsBack, SendsOfUsers, Effects,
         Triggers, Driving
<1>2. TypeOK /\ FewTriggers /\ [Next]_vars => FewTriggers'
  <2> SUFFICES ASSUME TypeOK, FewTriggers, [Next]_vars PROVE FewTriggers'
    OBVIOUS
  <2>1. ASSUME NEW g \in Triggers, Take(g), run' \in {"select", "effect", "off"}
        PROVE FewTriggers'
    BY <2>1, NoneAdded DEF Take
  <2>2. CASE EnterInterrupt \/ Resume \/ Abort \/ Step \/ Reject
    <3>1. \E g \in Triggers : Take(g)
      BY <2>2, TriggerNames DEF EnterInterrupt, Resume, Abort, Step, Reject
    <3>2. run' \in {"select", "effect", "off"}
      BY <2>2 DEF EnterInterrupt, Resume, Abort, Step, Reject, TypeOK
    <3>. QED BY <2>1, <3>1, <3>2
  <2>3. CASE MaxStepsExceeded
    BY <2>3, NoneAdded DEF MaxStepsExceeded
  <2>4. ASSUME NEW state \in LLMStates, LLMFill(state) PROVE FewTriggers'
    <3>1. PICK g \in Triggers : Spawn(g, 1)
      BY <2>4, TriggerNames DEF LLMFill, Triggers, Driving
    <3>. QED BY <2>4, <3>1, EffectIsSend DEF LLMFill, InEffect, EffectEnds
  <2>5. CASE Validate
    <3>1. Copies = 1
      BY KernelAssumption DEF Copies
    <3>2. PICK g \in {"ValidateOk", "ValidateFail"} : Spawn(g, 1)
      BY <2>5, <3>1 DEF Validate
    <3>3. g \in Triggers
      BY DEF Triggers, Driving
    <3>. QED BY <2>5, <3>2, <3>3, EffectIsSend DEF Validate, InEffect, EffectEnds
  <2>6. CASE Execute
    <3>1. PICK g \in {"ExecuteDone", "ExecuteFail", "InterruptReceived"} : Spawn(g, 1)
      BY <2>6 DEF Execute
    <3>2. g \in Triggers
      BY DEF Triggers, Driving
    <3>. QED BY <2>6, <3>1, <3>2, EffectIsSend DEF Execute, InEffect, EffectEnds
  <2>7. CASE Recover
    <3>1. PICK g \in {"RollbackDone", "ReplanDone"} : Spawn(g, 1)
      BY <2>7 DEF Recover
    <3>2. g \in Triggers
      BY DEF Triggers, Driving
    <3>. QED BY <2>7, <3>1, <3>2, EffectIsSend DEF Recover, InEffect, EffectEnds
  <2>8. ASSUME NEW g \in Triggers, Deliver(g) PROVE FewTriggers'
    <3>1. sends' = [sends EXCEPT ![g] = sends[g] + (-1)]
      BY <2>8 DEF Deliver, TypeOK
    <3>2. SendsTotal' = SendsTotal + (-1) /\ SendsTotal \in Nat
      <4>1. sends \in [Triggers -> Nat] /\ -1 \in Int
        BY DEF TypeOK
      <4>. QED BY <3>1, <4>1, TotalMoves, TotalCounts
    <3>3. Len(intent') \in {Len(intent), Len(intent) + 1} /\ Len(intent) \in Nat
      BY <2>8, SentAddsOne DEF Deliver, TypeOK
    <3>4. Effects' = Effects /\ Effects \in {0, 1} /\ UNCHANGED <<interrupts, task>>
      BY <2>8 DEF Deliver, Effects
    <3>5. interrupts \in Nat /\ task.number \in Nat
      BY KernelAssumption DEF TypeOK
    <3>. QED BY <3>2, <3>3, <3>4, <3>5 DEF FewTriggers
  <2>9. ASSUME NEW answer \in {"InterruptResume", "InterruptAbort"}, Interrupt(answer)
        PROVE FewTriggers'
    <3>1. SendsTotal' = SendsTotal + 1 /\ SendsTotal \in Nat
      <4>1. /\ sends' = [sends EXCEPT ![answer] = sends[answer] + 1]
            /\ sends \in [Triggers -> Nat] /\ answer \in Triggers /\ 1 \in Int
        BY <2>9, TriggerNames DEF Interrupt, Spawn, TypeOK
      <4>. QED BY <4>1, TotalMoves, TotalCounts
    <3>2. Len(intent') \in {Len(intent), Len(intent) + 1} /\ Len(intent) \in Nat
      BY <2>9, TriggerNames, SentAddsOne DEF Interrupt, TypeOK
    <3>3. Effects' = Effects /\ Effects \in {0, 1} /\ interrupts' = interrupts + 1 /\ task' = task
      BY <2>9 DEF Interrupt, Effects
    <3>4. interrupts \in Nat /\ task.number \in Nat
      BY KernelAssumption DEF TypeOK
    <3>. QED BY <3>1, <3>2, <3>3, <3>4 DEF FewTriggers
  <2>10. CASE StartTask
    <3>1. SendsTotal' = SendsTotal /\ SendsTotal \in Nat
      BY <2>10, TotalCounts
         DEF StartTask, SendsTotal, SendsForward, SendsBack, SendsOfUsers, TypeOK
    <3>2. Len(intent') \in {Len(intent), Len(intent) + 1} /\ Len(intent) \in Nat
      BY <2>10, TriggerNames, SentAddsOne DEF StartTask, TypeOK
    <3>3. Effects' = 0 /\ Effects \in {0, 1} /\ interrupts' = interrupts
          /\ task'.number = task.number + 1
      BY <2>10 DEF StartTask, Effects
    <3>4. interrupts \in Nat /\ task.number \in Nat
      BY KernelAssumption DEF TypeOK
    <3>. QED BY <3>1, <3>2, <3>3, <3>4 DEF FewTriggers
  <2>11. CASE EndTask
    BY <2>11, NoneAdded DEF EndTask, TypeOK
  <2>12. CASE Shutdown
    BY <2>12, NoneAdded DEF Shutdown, TypeOK
  <2>13. CASE LowScore \/ UNCHANGED vars
    BY <2>13, NoneAdded DEF LowScore, vars
  <2>. QED
    BY <2>2, <2>3, <2>4, <2>5, <2>6, <2>7, <2>8, <2>9, <2>10, <2>11, <2>12, <2>13
       DEF Next, Loop
<1>. QED BY <1>1, <1>2, TypeCorrect, PTL DEF Spec

\* The driver of a task is dropped by a full channel (agent.go:234) only when
\* there have been as many interrupts and tasks as fill it, whatever the
\* channel's size, as long as there is no L3 watchdog.
THEOREM DriverAlwaysHeard == ~Watchdog => (Spec => []DriverHeard)
<1> SUFFICES ASSUME ~Watchdog PROVE Spec => []DriverHeard
  OBVIOUS
<1>1. TypeOK /\ FewTriggers => DriverHeard
  <2> SUFFICES ASSUME TypeOK, FewTriggers, NEW g \in Driving, sends[g] > 0,
                      Len(intent) = ChCap
               PROVE  2 * interrupts + task.number > ChCap
    BY DEF DriverHeard, Sending
  <2>1. SendsTotal >= sends[g] /\ SendsTotal \in Nat /\ sends[g] \in Nat
    BY TotalCounts, TriggerNames DEF TypeOK
  <2>2. Effects \in {0, 1}
    BY DEF Effects
  <2>3. interrupts \in Nat /\ task.number \in Nat /\ ChCap \in Nat
    BY KernelAssumption DEF TypeOK
  <2>. QED BY <2>1, <2>2, <2>3 DEF FewTriggers
<1>. QED BY <1>1, FewTriggersInductive, TypeCorrect, PTL

-----------------------------------------------------------------------------
CallPcs == {"idle", "query", "append", "execute", "settle", "returned"}

CallResults == {"none", "ok", "empty", "failed"}

Calls == [pc : CallPcs, tool : Tools \cup {NoTool}, result : CallResults]

-----------------------------------------------------------------------------
(***************************************************************************)
(* Where the goroutines can be.                                            *)
(***************************************************************************)
\* Nodes are at work in a wave only, the saga in compensation only, and each
\* calls its own tool.
Places ==
    /\ exec.pc # "waves" => WaveOver
    /\ exec.pc \in {"off", "waves"} => undone = {}
    /\ call[Saga].pc # "idle" => exec.pc = "compensate"
    /\ \A n \in Nodes : call[n].pc # "idle" <=> node[n] = "running"
    /\ \A n \in Nodes : node[n] = "running" => call[n].tool = Tool[n]
    /\ \A c \in Callers : /\ call[c].pc # "idle" => call[c].tool \in Tools
                          /\ call[c].pc \in {"append", "settle"} => call[c].tool \in Effectful

\* What a node depends on was done before the node was scheduled.
Grounded ==
    \A n \in Nodes : node[n] # "waiting" => \A m \in Deps[n] : node[m] = "done"

\* The queue holds what succeeded and is not undone, and before a node all that
\* depends on it.
UndoQueue ==
    /\ \A i \in DOMAIN undo : Undo[undo[i]] # NoTool
    /\ \A n \in Nodes : Succeeded(n) /\ Undo[n] # NoTool =>
          n \in undone \/ \E i \in DOMAIN undo : undo[i] = n
    /\ \A i \in DOMAIN undo : \A n \in Nodes :
          undo[i] \in Deps[n] /\ Succeeded(n) /\ Undo[n] # NoTool =>
             n \in undone \/ \E j \in DOMAIN undo : j < i /\ undo[j] = n
    /\ exec.pc = "returned" /\ Failed => undo = <<>>

DagInv == Places /\ Grounded /\ UndoQueue /\ UndoneInReverse

-----------------------------------------------------------------------------
\* Of a tool whose log works: it has acted only if the log says that it began,
\* and a call that got past the log is one for which it has not acted yet.
LoggedFirst ==
    \A t \in Effectful \ faulty : Serial(t) =>
        /\ effects[t] # 0 => HasPending(t)
        /\ \A c \in Callers :
              /\ Here(c, "append") /\ call[c].tool = t => effects[t] = 0
              /\ Here(c, "execute") /\ call[c].tool = t => effects[t] = 0 /\ HasPending(t)

-----------------------------------------------------------------------------
(***************************************************************************)
(* Calls.                                                                  *)
(***************************************************************************)
LEMMA PlanFacts ==
    /\ Saga \notin Nodes /\ NoTool \notin Tools
    /\ \A n \in Nodes : Tool[n] \in Tools
    /\ \A n \in Nodes : Undo[n] \in Tools \cup {NoTool}
    /\ \A n \in Nodes : Retries[n] \in Nat
    /\ \A n \in Nodes : Deps[n] \subseteq Nodes
    /\ Effectful \subseteq Tools
    /\ {MaxExecutions, MaxCrashes, MaxLogFaults} \subseteq Nat
  BY PlanAssumption, AcyclicAssumption

LEMMA CallTypes == DagTypeOK => call \in [Callers -> Calls]
  BY DEF DagTypeOK, Calls, CallPcs, CallResults

LEMMA CallGoesOn ==
    ASSUME DagTypeOK, NEW c \in Callers, NEW pc \in CallPcs, GoOn(c, pc)
    PROVE  /\ call' \in [Callers -> Calls]
           /\ \A d \in Callers \ {c} : call'[d] = call[d]
           /\ call'[c] = [pc |-> pc, tool |-> call[c].tool, result |-> call[c].result]
<1>1. call \in [Callers -> Calls]
  BY CallTypes
<1>2. call[c] = [pc |-> call[c].pc, tool |-> call[c].tool, result |-> call[c].result]
  BY <1>1 DEF Calls
<1>3. call' = [call EXCEPT ![c] = [call[c] EXCEPT !.pc = pc]]
  BY DEF GoOn
<1>4. [call[c] EXCEPT !.pc = pc]
         = [pc |-> pc, tool |-> call[c].tool, result |-> call[c].result]
  BY <1>1 DEF Calls
<1>5. [pc |-> pc, tool |-> call[c].tool, result |-> call[c].result] \in Calls
  BY <1>1 DEF Calls
<1>. QED BY <1>1, <1>3, <1>4, <1>5

LEMMA CallEnds ==
    ASSUME DagTypeOK, NEW c \in Callers, NEW res \in CallResults, NEW pc \in CallPcs,
           Ends(c, pc, res)
    PROVE  /\ call' \in [Callers -> Calls]
           /\ \A d \in Callers \ {c} : call'[d] = call[d]
           /\ call'[c] = [pc |-> pc, tool |-> call[c].tool, result |-> res]
<1>1. call \in [Callers -> Calls]
  BY CallTypes
<1>2. [pc |-> pc, tool |-> call[c].tool, result |-> res] \in Calls
  BY <1>1 DEF Calls
<1>. QED BY <1>1, <1>2 DEF Ends

LEMMA CallBegins ==
    ASSUME DagTypeOK, NEW c \in Callers, NEW t \in Tools \cup {NoTool}, Calling(c, t)
    PROVE  /\ call' \in [Callers -> Calls]
           /\ \A d \in Callers \ {c} : call'[d] = call[d]
           /\ call'[c] = [pc |-> "query", tool |-> t, result |-> "none"]
<1>1. call \in [Callers -> Calls]
  BY CallTypes
<1>2. [pc |-> "query", tool |-> t, result |-> "none"] \in Calls
  BY DEF Calls, CallPcs, CallResults
<1>. QED BY <1>1, <1>2 DEF Calling

LEMMA NoCallTypes == NoCall \in Calls /\ NoCall.pc = "idle" /\ NoCalls \in [Callers -> Calls]
  BY DEF NoCall, NoCalls, Calls, CallPcs, CallResults

\* A step of a tool call is a step of this call: it was under way and still is,
\* with its tool.
CallSteps(c, pc) ==
    /\ call' \in [Callers -> Calls]
    /\ \A d \in Callers \ {c} : call'[d] = call[d]
    /\ call[c].pc # "idle" /\ call'[c].pc = pc
    /\ call'[c].tool = call[c].tool

LEMMA ToolCallSteps ==
    ASSUME DagTypeOK, NEW c \in Callers, ToolCall(c)
    PROVE  /\ CallOnly
           /\ \E pc \in CallPcs \ {"idle"} :
                 /\ CallSteps(c, pc)
                 /\ pc \in {"append", "settle"} => call[c].tool \in Effectful
<1>1. ASSUME NEW pc \in CallPcs, GoOn(c, pc), call[c].pc # "idle" PROVE CallSteps(c, pc)
  <2>1. /\ call' \in [Callers -> Calls]
        /\ \A d \in Callers \ {c} : call'[d] = call[d]
        /\ call'[c] = [pc |-> pc, tool |-> call[c].tool, result |-> call[c].result]
    BY <1>1, CallGoesOn
  <2>. QED BY <1>1, <2>1 DEF CallSteps
<1>2. ASSUME NEW pc \in CallPcs, NEW res \in CallResults, Ends(c, pc, res),
             call[c].pc # "idle"
      PROVE  CallSteps(c, pc)
  <2>1. /\ call' \in [Callers -> Calls]
        /\ \A d \in Callers \ {c} : call'[d] = call[d]
        /\ call'[c] = [pc |-> pc, tool |-> call[c].tool, result |-> res]
    BY <1>2, CallEnds
  <2>. QED BY <1>2, <2>1 DEF CallSteps
<1>3. CASE Query(c)
  <2>1. /\ CallOnly /\ call[c].pc # "idle"
        /\ \/ GoOn(c, "execute")
           \/ Ends(c, "returned", "ok")
           \/ Ends(c, "returned", "failed")
           \/ call[c].tool \in Effectful /\ GoOn(c, "append")
    BY <1>3 DEF Query, Here, Return
  <2>2. \/ CallSteps(c, "execute")
        \/ CallSteps(c, "returned")
        \/ call[c].tool \in Effectful /\ CallSteps(c, "append")
    BY <1>1, <1>2, <2>1 DEF CallPcs, CallResults
  <2>. QED BY <2>1, <2>2 DEF CallPcs
<1>4. CASE AppendPending(c)
  <2>1. CallOnly /\ CallSteps(c, "execute")
    BY <1>1, <1>4 DEF AppendPending, Here, CallPcs
  <2>. QED BY <2>1 DEF CallPcs
<1>5. CASE Deny(c)
  <2>1. CallOnly /\ CallSteps(c, "returned")
    BY <1>2, <1>5 DEF Deny, Here, Return, CallPcs, CallResults
  <2>. QED BY <2>1 DEF CallPcs
<1>6. CASE ExecuteTool(c)
  <2>. PICK r \in {"ok", "empty", "failed"} :
         Ends(c, IF call[c].tool \in Effectful THEN "settle" ELSE "returned", r)
    BY <1>6 DEF ExecuteTool
  <2>1. r \in CallResults /\ CallOnly /\ call[c].pc # "idle"
    BY <1>6 DEF ExecuteTool, CallResults, Here
  <2>2. CallSteps(c, IF call[c].tool \in Effectful THEN "settle" ELSE "returned")
    BY <1>2, <2>1 DEF CallPcs
  <2>. QED BY <2>1, <2>2 DEF CallPcs
<1>7. CASE AppendDone(c)
  <2>1. CallOnly /\ CallSteps(c, "returned")
    BY <1>1, <1>7 DEF AppendDone, Here, CallPcs
  <2>. QED BY <2>1 DEF CallPcs
<1>. QED BY <1>3, <1>4, <1>5, <1>6, <1>7 DEF ToolCall

LEMMA SucceedsPushes ==
    ASSUME DagTypeOK, NEW n \in Nodes
    PROVE  /\ Pushed(n) \in Seq(Nodes)
           /\ Undo[n] = NoTool => Pushed(n) = undo
           /\ Undo[n] # NoTool =>
                 /\ DOMAIN Pushed(n) = 1 .. Len(undo) + 1
                 /\ Pushed(n)[1] = n
                 /\ \A i \in DOMAIN undo : Pushed(n)[i + 1] = undo[i]
                 /\ \A i \in DOMAIN Pushed(n) : i # 1 =>
                       i - 1 \in DOMAIN undo /\ Pushed(n)[i] = undo[i - 1]
<1>1. undo \in Seq(Nodes) /\ DOMAIN undo = 1 .. Len(undo) /\ Len(undo) \in Nat
  BY DEF DagTypeOK
<1>2. /\ <<n>> \o undo \in Seq(Nodes)
      /\ DOMAIN (<<n>> \o undo) = 1 .. Len(undo) + 1
      /\ (<<n>> \o undo)[1] = n
      /\ \A i \in 1 .. Len(undo) + 1 : i # 1 => (<<n>> \o undo)[i] = undo[i - 1]
  BY <1>1
<1>3. CASE Undo[n] = NoTool
  BY <1>1, <1>3 DEF Pushed
<1>4. CASE Undo[n] # NoTool
  <2>1. Pushed(n) = <<n>> \o undo
    BY <1>4 DEF Pushed
  <2>2. ASSUME NEW i \in DOMAIN undo PROVE Pushed(n)[i + 1] = undo[i]
    <3>1. i \in Nat /\ i + 1 \in 1 .. Len(undo) + 1 /\ i + 1 # 1 /\ (i + 1) - 1 = i
      BY <1>1
    <3>. QED BY <1>2, <2>1, <3>1
  <2>3. ASSUME NEW i \in DOMAIN Pushed(n), i # 1
        PROVE  i - 1 \in DOMAIN undo /\ Pushed(n)[i] = undo[i - 1]
    <3>1. i \in 1 .. Len(undo) + 1
      BY <1>2, <2>1
    <3>. QED BY <1>1, <1>2, <2>1, <2>3, <3>1
  <2>4. /\ Pushed(n) \in Seq(Nodes)
        /\ DOMAIN Pushed(n) = 1 .. Len(undo) + 1
        /\ Pushed(n)[1] = n
    BY <1>2, <2>1
  <2>. QED BY <1>4, <2>2, <2>3, <2>4
<1>. QED BY <1>3, <1>4

-----------------------------------------------------------------------------
LEMMA DagStepTypes ==
    ASSUME DagTypeOK, Places, [DagNext]_dagVars
    PROVE  DagTypeOK'
<1>0. /\ call \in [Callers -> Calls]
      /\ Nodes \subseteq Callers /\ Saga \in Callers
  BY CallTypes DEF Callers
<1>1. ASSUME Reset PROVE /\ node' \in [Nodes -> {"waiting", "scheduled", "running", "done", "empty",
                                                "failed", "skipped"}]
                         /\ attempts' \in [Nodes -> Nat]
                         /\ \A n \in Nodes : attempts'[n] <= Retries[n] + 1
                         /\ call' \in [Callers -> Calls]
                         /\ undo' \in Seq(Nodes) /\ undone' \subseteq Nodes
  BY <1>1, NoCallTypes, PlanFacts DEF Reset, AllWaiting, NoAttempts
<1>2. CASE Begin
  <2>1. exec' \in [pc : {"off", "waves", "compensate", "returned", "gaveUp"}, number : Nat]
    <3>1. exec' = [pc |-> "waves", number |-> exec.number + 1]
      BY <1>2 DEF Begin
    <3>2. exec \in [pc : {"off", "waves", "compensate", "returned", "gaveUp"}, number : Nat]
      BY DEF DagTypeOK
    <3>3. exec.number + 1 \in Nat
      BY <3>2
    <3>. QED BY <3>1, <3>3
  <2>. QED BY <1>1, <1>2, <2>1 DEF Begin, DagTypeOK, World, Calls, CallPcs, CallResults
<1>3. CASE Crash
  <2>1. crashes' \in 0 .. MaxCrashes
    BY <1>3, PlanFacts DEF Crash, DagTypeOK
  <2>. QED BY <1>1, <1>3, <2>1 DEF Crash, DagTypeOK, Calls, CallPcs, CallResults
<1>4. CASE Schedule
  BY <1>4 DEF Schedule, DagTypeOK, World
<1>5. CASE AllDone
  BY <1>5 DEF AllDone, DagTypeOK, World
<1>6. CASE Compensate
  BY <1>6 DEF Compensate, DagTypeOK, World
<1>7. CASE CallUndo
  <2>1. Head(undo) \in Nodes /\ Tail(undo) \in Seq(Nodes)
    BY <1>7 DEF CallUndo, DagTypeOK
  <2>2. call' \in [Callers -> Calls]
    BY <1>0, <1>7, <2>1, CallBegins, PlanFacts DEF CallUndo
  <2>. QED BY <1>7, <2>1, <2>2 DEF CallUndo, DagTypeOK, World, Calls, CallPcs, CallResults
<1>8. CASE UndoReturns
  <2>1. call' \in [Callers -> Calls]
    BY <1>0, <1>8, NoCallTypes DEF UndoReturns
  <2>. QED BY <1>8, <2>1 DEF UndoReturns, DagTypeOK, World, Calls, CallPcs, CallResults
<1>9. CASE Compensated
  BY <1>9 DEF Compensated, DagTypeOK, World
<1>10. ASSUME NEW n \in Nodes, Start(n) PROVE DagTypeOK'
  <2>1. call' \in [Callers -> Calls]
    BY <1>0, <1>10, CallBegins, PlanFacts DEF Start
  <2>2. /\ attempts' \in [Nodes -> Nat]
        /\ \A m \in Nodes : attempts'[m] <= Retries[m] + 1
    BY <1>10, PlanFacts DEF Start, DagTypeOK
  <2>. QED BY <1>10, <2>1, <2>2 DEF Start, DagTypeOK, World, Calls, CallPcs, CallResults
<1>11. ASSUME NEW n \in Nodes, Skip(n) PROVE DagTypeOK'
  BY <1>11 DEF Skip, DagTypeOK, World
<1>12. ASSUME NEW n \in Nodes, Retry(n) PROVE DagTypeOK'
  <2>1. call' \in [Callers -> Calls]
    BY <1>0, <1>12, CallBegins, PlanFacts DEF Retry
  <2>2. /\ attempts' \in [Nodes -> Nat]
        /\ \A m \in Nodes : attempts'[m] <= Retries[m] + 1
    BY <1>12, PlanFacts DEF Retry, MayRetry, DagTypeOK
  <2>. QED BY <1>12, <2>1, <2>2 DEF Retry, DagTypeOK, World, Calls, CallPcs, CallResults
<1>13. ASSUME NEW n \in Nodes, NodeFails(n) PROVE DagTypeOK'
  <2>1. call' \in [Callers -> Calls]
    BY <1>0, <1>13, NoCallTypes DEF NodeFails
  <2>. QED BY <1>13, <2>1 DEF NodeFails, DagTypeOK, World, Calls, CallPcs, CallResults
<1>14. ASSUME NEW n \in Nodes, NodeSucceeds(n) PROVE DagTypeOK'
  <2>1. call' \in [Callers -> Calls]
    BY <1>0, <1>14, NoCallTypes DEF NodeSucceeds
  <2>2. undo' \in Seq(Nodes)
    BY <1>14, SucceedsPushes DEF NodeSucceeds
  <2>. QED BY <1>14, <2>1, <2>2
           DEF NodeSucceeds, DagTypeOK, World, Calls, CallPcs, CallResults
<1>15. ASSUME NEW c \in Callers, ToolCall(c) PROVE DagTypeOK'
  <2>1. CallOnly /\ call' \in [Callers -> Calls]
    BY <1>15, ToolCallSteps DEF CallSteps
  <2>2. call[c].tool \in Tools \cup {NoTool} /\ (call[c].pc \in {"append", "settle"} => call[c].tool \in Effectful)
    BY <1>0 DEF Calls, Places
  <2>3. log' \subseteq {"pending", "done"} \X Effectful
    BY <1>15, <2>2 DEF ToolCall, Query, AppendPending, Deny, ExecuteTool, AppendDone,
                       AppendLog, Here, DagTypeOK
  <2>4. faulty' \subseteq Tools
    <3>1. \/ faulty' = faulty
          \/ call[c].tool \in Effectful /\ faulty' = faulty \cup {call[c].tool}
      BY <1>15, <2>2 DEF ToolCall, Query, AppendPending, Deny, ExecuteTool, AppendDone,
                         AppendLog, LogFault, Here
    <3>. QED BY <3>1, PlanFacts DEF DagTypeOK
  <2>5. effects' \in [Tools -> Nat]
    <3>1. \/ effects' = effects
          \/ call[c].tool \in Effectful
             /\ effects' = [effects EXCEPT ![call[c].tool] = @ + 1]
      BY <1>15 DEF ToolCall, Query, AppendPending, Deny, ExecuteTool, AppendDone
    <3>. QED BY <3>1, PlanFacts DEF DagTypeOK
  <2>6. succeeded' \subseteq Tools
    <3>1. \/ succeeded' = succeeded
          \/ call[c].pc # "idle" /\ succeeded' = succeeded \cup {call[c].tool}
      BY <1>15 DEF ToolCall, Query, AppendPending, Deny, ExecuteTool, AppendDone, Here
    <3>. QED BY <3>1, PlanFacts DEF DagTypeOK, Places
  <2>. QED BY <2>1, <2>3, <2>4, <2>5, <2>6
           DEF CallOnly, DagTypeOK, Calls, CallPcs, CallResults
<1>16. CASE UNCHANGED dagVars
  BY <1>16 DEF dagVars, DagTypeOK
<1>. QED BY <1>2, <1>3, <1>4, <1>5, <1>6, <1>7, <1>8, <1>9, <1>10, <1>11, <1>12, <1>13, <1>14,
            <1>15, <1>16 DEF DagNext, Executor

LEMMA Waves ==
    ASSUME Places, NEW n \in Nodes, node[n] \in {"scheduled", "running"}
    PROVE  exec.pc = "waves" /\ undone = {} /\ call[Saga].pc = "idle"
  BY DEF Places, WaveOver

LEMMA PlacesStep ==
    ASSUME DagTypeOK, Places, UndoQueue, [DagNext]_dagVars
    PROVE  Places'
<1>0. /\ Nodes \subseteq Callers /\ Saga \in Callers /\ Saga \notin Nodes
      /\ Callers = Nodes \cup {Saga}
  BY PlanFacts DEF Callers
<1>1. ASSUME Reset, exec'.pc \in {"off", "waves"} PROVE Places'
  BY <1>0, <1>1, NoCallTypes
     DEF Reset, AllWaiting, NoCalls, Places, WaveOver
<1>2. CASE Begin
  BY <1>1, <1>2 DEF Begin
<1>3. CASE Crash
  BY <1>1, <1>3 DEF Crash, DagTypeOK
<1>4. CASE Schedule
  BY <1>4 DEF Schedule, Places, World, Ready, WaveOver, DagTypeOK
<1>5. CASE AllDone
  BY <1>5 DEF AllDone, Places, World, WaveOver, DagTypeOK
<1>6. CASE Compensate
  BY <1>6 DEF Compensate, Places, World, WaveOver, DagTypeOK
<1>7. CASE CallUndo
  <2>1. /\ Head(undo) \in Nodes /\ Undo[Head(undo)] \in Tools
    BY <1>7, PlanFacts DEF CallUndo, DagTypeOK, UndoQueue
  <2>2. /\ \A d \in Nodes : call'[d] = call[d]
        /\ call'[Saga] = [pc |-> "query", tool |-> Undo[Head(undo)], result |-> "none"]
    BY <1>0, <1>7, <2>1, CallBegins DEF CallUndo
  <2>. QED BY <1>0, <1>7, <2>1, <2>2 DEF CallUndo, Places, WaveOver
<1>8. CASE UndoReturns
  <2>1. /\ \A d \in Nodes : call'[d] = call[d]
        /\ call'[Saga] = NoCall
    BY <1>0, <1>8, CallTypes DEF UndoReturns
  <2>. QED BY <1>0, <1>8, <2>1, NoCallTypes DEF UndoReturns, Places, WaveOver
<1>9. CASE Compensated
  BY <1>9 DEF Compensated, Places, World, WaveOver, DagTypeOK, Here
<1>10. ASSUME NEW n \in Nodes, Start(n) PROVE Places'
  <2>1. /\ \A d \in Callers \ {n} : call'[d] = call[d]
        /\ call'[n] = [pc |-> "query", tool |-> Tool[n], result |-> "none"]
    BY <1>0, <1>10, CallBegins, PlanFacts DEF Start
  <2>2. exec.pc = "waves"
    BY <1>10, Waves DEF Start
  <2>3. /\ UNCHANGED <<exec, undone>> /\ Tool[n] \in Tools /\ n # Saga
        /\ node'[n] = "running" /\ \A m \in Nodes \ {n} : node'[m] = node[m]
    BY <1>0, <1>10, PlanFacts DEF Start, DagTypeOK
  <2>4. /\ exec'.pc # "waves" => WaveOver'
        /\ exec'.pc \in {"off", "waves"} => undone' = {}
        /\ call'[Saga].pc # "idle" => exec'.pc = "compensate"
    BY <1>0, <2>1, <2>2, <2>3 DEF Places
  <2>5. /\ \A m \in Nodes : call'[m].pc # "idle" <=> node'[m] = "running"
        /\ \A m \in Nodes : node'[m] = "running" => call'[m].tool = Tool[m]
    BY <1>0, <2>1, <2>3 DEF Places
  <2>6. \A c \in Callers :
           /\ call'[c].pc # "idle" => call'[c].tool \in Tools
           /\ call'[c].pc \in {"append", "settle"} => call'[c].tool \in Effectful
    BY <2>1, <2>3 DEF Places
  <2>. QED BY <2>4, <2>5, <2>6 DEF Places
<1>11. ASSUME NEW n \in Nodes, Skip(n) PROVE Places'
  <2>1. exec.pc = "waves"
    BY <1>11, Waves DEF Skip
  <2>. QED BY <1>11, <2>1 DEF Skip, Places, DagTypeOK
<1>12. ASSUME NEW n \in Nodes, Retry(n) PROVE Places'
  <2>1. /\ \A d \in Callers \ {n} : call'[d] = call[d]
        /\ call'[n] = [pc |-> "query", tool |-> Tool[n], result |-> "none"]
    BY <1>0, <1>12, CallBegins, PlanFacts DEF Retry
  <2>2. node[n] = "running"
    BY <1>12 DEF Retry, Here, Places
  <2>3. UNCHANGED <<exec, node, undone>> /\ Tool[n] \in Tools /\ n # Saga
    BY <1>0, <1>12, PlanFacts DEF Retry
  <2>4. /\ exec'.pc # "waves" => WaveOver'
        /\ exec'.pc \in {"off", "waves"} => undone' = {}
        /\ call'[Saga].pc # "idle" => exec'.pc = "compensate"
    BY <1>0, <2>1, <2>3 DEF Places, WaveOver
  <2>5. /\ \A m \in Nodes : call'[m].pc # "idle" <=> node'[m] = "running"
        /\ \A m \in Nodes : node'[m] = "running" => call'[m].tool = Tool[m]
    BY <1>0, <2>1, <2>2, <2>3 DEF Places
  <2>6. \A c \in Callers :
           /\ call'[c].pc # "idle" => call'[c].tool \in Tools
           /\ call'[c].pc \in {"append", "settle"} => call'[c].tool \in Effectful
    BY <2>1, <2>3 DEF Places
  <2>. QED BY <2>4, <2>5, <2>6 DEF Places
<1>13. ASSUME NEW n \in Nodes, NodeFails(n) PROVE Places'
  <2>1. /\ \A d \in Callers \ {n} : call'[d] = call[d]
        /\ call'[n] = NoCall
    BY <1>0, <1>13, CallTypes DEF NodeFails
  <2>2. node[n] = "running"
    BY <1>13 DEF NodeFails, Here, Places
  <2>3. exec.pc = "waves"
    BY <2>2, Waves
  <2>. QED BY <1>0, <1>13, <2>1, <2>2, <2>3, NoCallTypes DEF NodeFails, Places, DagTypeOK
<1>14. ASSUME NEW n \in Nodes, NodeSucceeds(n) PROVE Places'
  <2>1. /\ \A d \in Callers \ {n} : call'[d] = call[d]
        /\ call'[n] = NoCall
    BY <1>0, <1>14, CallTypes DEF NodeSucceeds
  <2>2. node[n] = "running"
    BY <1>14 DEF NodeSucceeds, Here, Places
  <2>3. exec.pc = "waves"
    BY <2>2, Waves
  <2>4. /\ node'[n] \in {"done", "empty"}
        /\ \A m \in Nodes \ {n} : node'[m] = node[m]
    BY <1>14 DEF NodeSucceeds, DagTypeOK
  <2>5. UNCHANGED <<exec, undone>>
    BY <1>14 DEF NodeSucceeds
  <2>. QED BY <1>0, <2>1, <2>2, <2>3, <2>4, <2>5, NoCallTypes DEF Places
<1>15. ASSUME NEW c \in Callers, ToolCall(c) PROVE Places'
  <2>1. CallOnly
    BY <1>15, ToolCallSteps
  <2>2. PICK pc \in CallPcs \ {"idle"} :
           /\ CallSteps(c, pc)
           /\ pc \in {"append", "settle"} => call[c].tool \in Effectful
    BY <1>15, ToolCallSteps
  <2>. QED BY <1>0, <2>1, <2>2 DEF CallOnly, CallSteps, Places, WaveOver
<1>16. CASE UNCHANGED dagVars
  BY <1>16 DEF dagVars, Places, WaveOver
<1>. QED BY <1>2, <1>3, <1>4, <1>5, <1>6, <1>7, <1>8, <1>9, <1>10, <1>11, <1>12, <1>13, <1>14,
            <1>15, <1>16 DEF DagNext, Executor

\* While a node runs no step but its own moves it, and what is done stays done
\* as long as the same execution goes on.
LEMMA GroundedStep ==
    ASSUME DagTypeOK, Places, Grounded, [DagNext]_dagVars
    PROVE  Grounded'
<1>1. ASSUME Reset PROVE Grounded'
  BY <1>1 DEF Reset, AllWaiting, Grounded
<1>2. ASSUME NEW n \in Nodes, NEW st, node[n] # "waiting", node[n] # "done",
             node' = [node EXCEPT ![n] = st]
      PROVE  Grounded'
  BY <1>2, PlanFacts DEF Grounded, DagTypeOK
<1>3. CASE Schedule
  <2>1. \A n \in Nodes : node'[n] = IF n \in Ready THEN "scheduled" ELSE node[n]
    BY <1>3 DEF Schedule
  <2>2. \A n \in Ready : node[n] = "waiting" /\ \A m \in Deps[n] : node[m] = "done"
    BY DEF Ready
  <2>. QED BY <2>1, <2>2, PlanFacts DEF Grounded
<1>4. ASSUME NEW n \in Nodes, Start(n) \/ Skip(n) PROVE Grounded'
  BY <1>2, <1>4 DEF Start, Skip
<1>5. ASSUME NEW n \in Nodes, NodeFails(n) \/ NodeSucceeds(n) PROVE Grounded'
  <2>1. node[n] = "running"
    BY <1>5 DEF NodeFails, NodeSucceeds, Here, Places
  <2>. QED BY <1>2, <1>5, <2>1 DEF NodeFails, NodeSucceeds
<1>6. CASE UNCHANGED node
  BY <1>6 DEF Grounded
<1>7. ASSUME NEW c \in Callers, ToolCall(c) PROVE Grounded'
  BY <1>6, <1>7, ToolCallSteps DEF CallOnly
<1>. QED BY <1>1, <1>3, <1>4, <1>5, <1>6, <1>7
         DEF DagNext, Executor, Begin, Crash, AllDone, Compensate, CallUndo, UndoReturns,
             Compensated, Retry, dagVars

\* What has succeeded can be undone: by the saga's queue, against the order of
\* the dependencies.
LEMMA UndoStep ==
    ASSUME DagTypeOK, Places, Grounded, UndoQueue, UndoneInReverse, [DagNext]_dagVars
    PROVE  UndoQueue' /\ UndoneInReverse'
<1>. USE DEF Succeeded
<1>0. undo \in Seq(Nodes) /\ DOMAIN undo = 1 .. Len(undo) /\ Len(undo) \in Nat
  BY DEF DagTypeOK
<1>1. ASSUME Reset PROVE UndoQueue' /\ UndoneInReverse'
  BY <1>1 DEF Reset, AllWaiting, UndoQueue, UndoneInReverse
<1>2. ASSUME UNCHANGED <<undo, undone>>,
             \A n \in Nodes : Succeeded(n)' <=> Succeeded(n),
             exec'.pc = "returned" /\ Failed' =>
                (exec.pc = "returned" /\ Failed) \/ undo = <<>>
      PROVE  UndoQueue' /\ UndoneInReverse'
  BY <1>2 DEF UndoQueue, UndoneInReverse
<1>3. CASE Schedule
  <2>1. \A n \in Nodes : node'[n] = IF n \in Ready THEN "scheduled" ELSE node[n]
    BY <1>3 DEF Schedule
  <2>2. \A n \in Ready : node[n] = "waiting"
    BY DEF Ready
  <2>. QED BY <1>2, <1>3, <2>1, <2>2 DEF Schedule
<1>4. ASSUME NEW n \in Nodes, Start(n) \/ Skip(n) PROVE UndoQueue' /\ UndoneInReverse'
  <2>1. exec.pc = "waves"
    BY <1>4, Waves DEF Start, Skip
  <2>. QED BY <1>2, <1>4, <2>1 DEF Start, Skip, DagTypeOK
<1>5. ASSUME NEW n \in Nodes, NodeFails(n) PROVE UndoQueue' /\ UndoneInReverse'
  <2>1. node[n] = "running" /\ exec.pc = "waves"
    BY <1>5, Waves DEF NodeFails, Here, Places
  <2>. QED BY <1>2, <1>5, <2>1 DEF NodeFails, DagTypeOK
<1>6. ASSUME NEW n \in Nodes, NodeSucceeds(n) PROVE UndoQueue' /\ UndoneInReverse'
  <2>1. node[n] = "running"
    BY <1>6 DEF NodeSucceeds, Here, Places
  <2>2. exec.pc = "waves" /\ undone = {}
    BY <2>1, Waves
  <2>3. /\ undo' = Pushed(n) /\ UNCHANGED <<exec, undone>>
        /\ node'[n] \in {"done", "empty"}
        /\ \A m \in Nodes \ {n} : node'[m] = node[m]
    BY <1>6 DEF NodeSucceeds, DagTypeOK
  <2>4. \A k \in Nodes : n \in Deps[k] => node[k] = "waiting" /\ node'[k] = "waiting"
    BY <2>1, <2>3 DEF Grounded
  <2>5. UndoneInReverse'
    BY <2>2, <2>3 DEF UndoneInReverse
  <2>6. CASE Undo[n] = NoTool
    <3>1. undo' = undo
      BY <2>3, <2>6, SucceedsPushes
    <3>. QED BY <2>2, <2>3, <2>5, <2>6, <3>1 DEF UndoQueue
  <2>7. CASE Undo[n] # NoTool
    <3>. DEFINE q == Pushed(n)
    <3>1. /\ DOMAIN q = 1 .. Len(undo) + 1 /\ q[1] = n
          /\ \A i \in DOMAIN undo : q[i + 1] = undo[i]
          /\ \A i \in DOMAIN q : i # 1 => i - 1 \in DOMAIN undo /\ q[i] = undo[i - 1]
      BY <2>7, SucceedsPushes
    <3>. HIDE DEF q
    <3>2. \A i \in DOMAIN undo : i + 1 \in DOMAIN q /\ 1 < i + 1
      BY <1>0, <3>1
    <3>3. 1 \in DOMAIN q
      BY <1>0, <3>1
    <3>4. \A i \in DOMAIN q : Undo[q[i]] # NoTool
      BY <2>7, <3>1 DEF UndoQueue
    <3>5. ASSUME NEW k \in Nodes, Succeeded(k)', Undo[k] # NoTool
          PROVE  k \in undone \/ \E i \in DOMAIN q : q[i] = k
      <4>1. CASE k = n
        BY <3>1, <3>3, <4>1
      <4>2. CASE k # n
        <5>1. Succeeded(k)
          BY <2>3, <3>5, <4>2
        <5>2. k \in undone \/ \E i \in DOMAIN undo : undo[i] = k
          BY <3>5, <5>1 DEF UndoQueue
        <5>. QED BY <3>1, <3>2, <5>2
      <4>. QED BY <4>1, <4>2
    <3>6. ASSUME NEW i \in DOMAIN q, NEW k \in Nodes,
                 q[i] \in Deps[k], Succeeded(k)', Undo[k] # NoTool
          PROVE  k \in undone \/ \E j \in DOMAIN q : j < i /\ q[j] = k
      <4>1. i # 1
        BY <2>4, <3>1, <3>6
      <4>2. i - 1 \in DOMAIN undo /\ q[i] = undo[i - 1] /\ i \in Nat /\ i > 1
        BY <1>0, <3>1, <4>1
      <4>3. CASE k = n
        BY <3>1, <3>3, <4>2, <4>3
      <4>4. CASE k # n
        <5>1. Succeeded(k)
          BY <2>3, <3>6, <4>4
        <5>2. k \in undone \/ \E j \in DOMAIN undo : j < i - 1 /\ undo[j] = k
          BY <3>6, <4>2, <5>1 DEF UndoQueue
        <5>3. ASSUME NEW j \in DOMAIN undo, j < i - 1, undo[j] = k
              PROVE  \E l \in DOMAIN q : l < i /\ q[l] = k
          <6>1. j + 1 \in DOMAIN q /\ j + 1 < i /\ q[j + 1] = k
            BY <1>0, <3>1, <3>2, <4>2, <5>3
          <6>. QED BY <6>1
        <5>. QED BY <5>2, <5>3
      <4>. QED BY <4>3, <4>4
    <3>7. undo' = q
      BY <2>3 DEF q
    <3>. QED BY <2>2, <2>3, <2>5, <3>4, <3>5, <3>6, <3>7 DEF UndoQueue
  <2>. QED BY <2>6, <2>7
<1>7. CASE CallUndo
  <2>1. /\ undo # <<>> /\ undo' = Tail(undo) /\ undone' = undone \cup {Head(undo)}
        /\ UNCHANGED <<exec, node>> /\ exec.pc = "compensate"
    BY <1>7 DEF CallUndo
  <2>2. /\ Len(undo) \in Nat \ {0} /\ Head(undo) = undo[1] /\ 1 \in DOMAIN undo
        /\ DOMAIN Tail(undo) = 1 .. Len(undo) - 1
        /\ \A i \in 1 .. Len(undo) - 1 : Tail(undo)[i] = undo[i + 1] /\ i + 1 \in DOMAIN undo
    BY <1>0, <2>1
  <2>3. \A i \in DOMAIN undo : i # 1 =>
           i - 1 \in DOMAIN Tail(undo) /\ Tail(undo)[i - 1] = undo[i]
    <3>1. ASSUME NEW i \in DOMAIN undo, i # 1
          PROVE  i - 1 \in DOMAIN Tail(undo) /\ Tail(undo)[i - 1] = undo[i]
      <4>1. i - 1 \in 1 .. Len(undo) - 1 /\ (i - 1) + 1 = i
        BY <1>0, <3>1
      <4>. QED BY <2>2, <4>1
    <3>. QED BY <3>1
  <2>4. UndoneInReverse'
    <3>1. ASSUME NEW n \in Nodes, undo[1] \in Deps[n], Succeeded(n), Undo[n] # NoTool
          PROVE  n \in undone
      <4>1. n \in undone \/ \E j \in DOMAIN undo : j < 1 /\ undo[j] = n
        BY <2>2, <3>1 DEF UndoQueue
      <4>. QED BY <1>0, <4>1
    <3>. QED BY <2>1, <2>2, <3>1 DEF UndoneInReverse
  <2>5. \A i \in DOMAIN undo' : Undo[undo'[i]] # NoTool
    BY <2>1, <2>2 DEF UndoQueue
  <2>6. ASSUME NEW n \in Nodes, Succeeded(n)', Undo[n] # NoTool
        PROVE  n \in undone' \/ \E i \in DOMAIN undo' : undo'[i] = n
    <3>1. n \in undone \/ \E i \in DOMAIN undo : undo[i] = n
      BY <2>1, <2>6 DEF UndoQueue
    <3>. QED BY <2>1, <2>2, <2>3, <3>1
  <2>7. ASSUME NEW i \in DOMAIN undo', NEW n \in Nodes,
               undo'[i] \in Deps[n], Succeeded(n)', Undo[n] # NoTool
        PROVE  n \in undone' \/ \E j \in DOMAIN undo' : j < i /\ undo'[j] = n
    <3>1. i \in Nat /\ i + 1 \in DOMAIN undo /\ undo'[i] = undo[i + 1]
      BY <2>1, <2>2
    <3>2. n \in undone \/ \E j \in DOMAIN undo : j < i + 1 /\ undo[j] = n
      BY <2>1, <2>7, <3>1 DEF UndoQueue
    <3>3. ASSUME NEW j \in DOMAIN undo, j < i + 1, undo[j] = n, j # 1
          PROVE  \E k \in DOMAIN undo' : k < i /\ undo'[k] = n
      <4>1. j - 1 \in DOMAIN undo' /\ j - 1 < i /\ undo'[j - 1] = n
        BY <1>0, <2>1, <2>3, <3>1, <3>3
      <4>. QED BY <4>1
    <3>. QED BY <2>1, <2>2, <3>2, <3>3
  <2>. QED BY <2>1, <2>4, <2>5, <2>6, <2>7 DEF UndoQueue
<1>8. CASE Compensated
  BY <1>2, <1>8 DEF Compensated, DagTypeOK
<1>9. CASE Compensate \/ AllDone
  BY <1>2, <1>9 DEF Compensate, AllDone, DagTypeOK, Failed
<1>10. CASE UNCHANGED <<exec, node, undo, undone>>
  BY <1>2, <1>10 DEF Failed
<1>11. ASSUME NEW c \in Callers, ToolCall(c) PROVE UndoQueue' /\ UndoneInReverse'
  BY <1>10, <1>11, ToolCallSteps DEF CallOnly
<1>. QED BY <1>1, <1>3, <1>4, <1>5, <1>6, <1>7, <1>8, <1>9, <1>10, <1>11
         DEF DagNext, Executor, Begin, Crash, UndoReturns, Retry, dagVars

LEMMA DagStart == DagInit => DagTypeOK /\ DagInv /\ LoggedFirst
<1>. SUFFICES ASSUME DagInit PROVE DagTypeOK /\ DagInv /\ LoggedFirst
  OBVIOUS
<1>1. DagTypeOK
  <2>1. call \in [Callers -> Calls]
    BY NoCallTypes DEF DagInit
  <2>2. crashes \in 0 .. MaxCrashes /\ \A n \in Nodes : attempts[n] <= Retries[n] + 1
    BY PlanFacts DEF DagInit, NoAttempts
  <2>. QED BY <2>1, <2>2 DEF DagInit, DagTypeOK, AllWaiting, NoAttempts, Calls, CallPcs, CallResults
<1>2. Places
  BY NoCallTypes DEF DagInit, Places, WaveOver, AllWaiting, NoCalls, Callers
<1>3. Grounded
  BY DEF DagInit, Grounded, AllWaiting
<1>4. UndoQueue /\ UndoneInReverse
  BY DEF DagInit, UndoQueue, UndoneInReverse, Succeeded, AllWaiting
<1>5. LoggedFirst
  <2>1. \A t \in Effectful : effects[t] = 0
    BY PlanFacts DEF DagInit
  <2>2. \A c \in Callers : call[c].pc = "idle"
    BY NoCallTypes DEF DagInit, NoCalls
  <2>. QED BY <2>1, <2>2 DEF LoggedFirst, Here
<1>. QED BY <1>1, <1>2, <1>3, <1>4, <1>5 DEF DagInv

LEMMA DagAlways == DagSpec => [](DagTypeOK /\ DagInv)
<1>1. DagTypeOK /\ DagInv /\ [DagNext]_dagVars => DagTypeOK' /\ DagInv'
  BY DagStepTypes, PlacesStep, GroundedStep, UndoStep DEF DagInv
<1>2. DagInit => DagTypeOK /\ DagInv
  BY DagStart
<1>. QED BY <1>1, <1>2, PTL DEF DagSpec

\* The executor, its calls and the log keep their types
\* (dag_executor.go:60-125, agent_execute.go:368-470).
THEOREM DagTypeCorrect == DagSpec => []DagTypeOK
  BY DagAlways, PTL

\* A node runs on dependencies that succeeded and of which none is undone, for
\* any acyclic plan and any schedule of its nodes (dag_executor.go:147-240).
THEOREM AlwaysOnSolidGround == DagSpec => []RunsOnSolidGround
<1>1. DagInv => RunsOnSolidGround
  BY Waves, PlanFacts DEF DagInv, Grounded, RunsOnSolidGround, Running, Succeeded
<1>. QED BY DagAlways, <1>1, PTL

\* Compensation goes against the dependencies, for any plan: the queue has a
\* node behind all that depend on it (dag_executor.go:193-197, 293-330).
THEOREM AlwaysUndoneInReverse == DagSpec => []UndoneInReverse
<1>1. DagInv => UndoneInReverse
  BY DEF DagInv
<1>. QED BY DagAlways, <1>1, PTL

\* An execution that failed and returned has had every compensation called
\* (dag_executor.go:203-211, 293-330).
THEOREM AlwaysAllUndone == DagSpec => []AllUndone
<1>1. DagInv => AllUndone
  BY DEF DagInv, UndoQueue, AllUndone
<1>. QED BY DagAlways, <1>1, PTL

-----------------------------------------------------------------------------
\* Of two calls for a tool, under way at a time, its nodes' dependencies allow
\* one.
LEMMA OneCall ==
    ASSUME DagInv, NEW t, Serial(t), NEW c \in Callers, NEW d \in Callers,
           call[c].pc # "idle", call[d].pc # "idle", call[c].tool = t, call[d].tool = t
    PROVE  c = d
<1>1. ASSUME NEW n \in Nodes, call[n].pc # "idle", call[n].tool = t
      PROVE  /\ node[n] = "running" /\ Tool[n] = t /\ call[Saga].pc = "idle"
             /\ \A m \in Deps[n] : node[m] = "done"
  <2>1. node[n] = "running"
    BY <1>1 DEF DagInv, Places
  <2>. QED BY <1>1, <2>1, Waves DEF DagInv, Places, Grounded
<1>2. CASE c \in Nodes /\ d \in Nodes
  <2>1. Tool[c] = t /\ Tool[d] = t /\ node[c] = "running" /\ node[d] = "running"
    BY <1>1, <1>2
  <2>2. c = d \/ c \in Deps[d] \/ d \in Deps[c]
    BY <1>2, <2>1 DEF Serial
  <2>. QED BY <1>1, <1>2, <2>1, <2>2
<1>3. CASE c = Saga \/ d = Saga
  BY <1>1, <1>3 DEF Callers
<1>. QED BY <1>2, <1>3 DEF Callers

\* A step keeps the log ahead of what the tools do.
LEMMA LoggedStep ==
    ASSUME DagTypeOK, DagInv, LoggedFirst, AtMostOnce, [DagNext]_dagVars
    PROVE  LoggedFirst' /\ AtMostOnce'
<1>0. /\ Nodes \subseteq Callers /\ Saga \in Callers /\ call \in [Callers -> Calls]
      /\ effects \in [Tools -> Nat] /\ Effectful \subseteq Tools
  BY CallTypes, PlanFacts DEF Callers, DagTypeOK
<1>1. ASSUME UNCHANGED <<log, effects, faulty>>,
             \A c \in Callers : call'[c].pc \in {"append", "execute"} => call'[c] = call[c]
      PROVE  LoggedFirst' /\ AtMostOnce'
  BY <1>1 DEF LoggedFirst, AtMostOnce, Serial, HasPending, Here
<1>2. CASE Begin \/ Crash
  <2>1. UNCHANGED <<log, effects, faulty>> /\ call' = NoCalls
    BY <1>2 DEF Begin, Crash, Reset, World
  <2>. QED BY <1>1, <2>1, NoCallTypes DEF NoCalls
<1>3. ASSUME NEW c \in Callers, NEW t \in Tools \cup {NoTool}, Calling(c, t), UNCHANGED World
      PROVE  LoggedFirst' /\ AtMostOnce'
  BY <1>0, <1>1, <1>3 DEF Calling, World
<1>4. ASSUME NEW c \in Callers, call' = [call EXCEPT ![c] = NoCall], UNCHANGED World
      PROVE  LoggedFirst' /\ AtMostOnce'
  BY <1>0, <1>1, <1>4, NoCallTypes DEF World
<1>5. CASE CallUndo
  BY <1>0, <1>3, <1>5, PlanFacts DEF CallUndo, DagTypeOK
<1>6. ASSUME NEW n \in Nodes, Start(n) \/ Retry(n) PROVE LoggedFirst' /\ AtMostOnce'
  BY <1>0, <1>3, <1>6, PlanFacts DEF Start, Retry
<1>7. CASE UndoReturns
  BY <1>0, <1>4, <1>7 DEF UndoReturns
<1>8. ASSUME NEW n \in Nodes, NodeFails(n) \/ NodeSucceeds(n) PROVE LoggedFirst' /\ AtMostOnce'
  BY <1>0, <1>4, <1>8 DEF NodeFails, NodeSucceeds
<1>9. CASE UNCHANGED <<call, log, effects, faulty>>
  BY <1>1, <1>9
<1>10. ASSUME NEW c \in Callers, ToolCall(c) PROVE LoggedFirst' /\ AtMostOnce'
  <2>. DEFINE u == call[c].tool
  <2>0. /\ call[c].pc # "idle" /\ call'[c].tool = u
        /\ \A d \in Callers \ {c} : call'[d] = call[d]
    BY <1>10, ToolCallSteps DEF CallSteps
  <2>. SUFFICES ASSUME NEW t \in Effectful \ faulty', Serial(t)
                PROVE  /\ effects'[t] <= 1
                       /\ effects'[t] # 0 => HasPending(t)'
                       /\ \A d \in Callers :
                             /\ Here(d, "append")' /\ call'[d].tool = t => effects'[t] = 0
                             /\ Here(d, "execute")' /\ call'[d].tool = t =>
                                   effects'[t] = 0 /\ HasPending(t)'
    BY DEF LoggedFirst, AtMostOnce, Serial
  <2>1. faulty \subseteq faulty' /\ log \subseteq log'
    BY <1>10 DEF ToolCall, Query, AppendPending, Deny, ExecuteTool, AppendDone, AppendLog,
                 LogFault
  <2>2. /\ effects[t] <= 1 /\ effects[t] \in Nat
        /\ effects[t] # 0 => HasPending(t)
        /\ \A d \in Callers :
              /\ Here(d, "append") /\ call[d].tool = t => effects[t] = 0
              /\ Here(d, "execute") /\ call[d].tool = t => effects[t] = 0 /\ HasPending(t)
    BY <1>0, <2>1 DEF LoggedFirst, AtMostOnce
  <2>3. HasPending(t) => HasPending(t)'
    BY <2>1 DEF HasPending
  <2>4. CASE t # u
    <3>1. effects'[t] = effects[t]
      BY <1>0, <1>10, <2>4 DEF ToolCall, Query, AppendPending, Deny, ExecuteTool, AppendDone
    <3>. QED BY <2>0, <2>2, <2>3, <2>4, <3>1 DEF Here
  <2>5. CASE t = u
    <3>1. \A d \in Callers \ {c} : ~(call[d].pc # "idle" /\ call[d].tool = t)
      BY <2>0, <2>5, OneCall
    <3>2. \A d \in Callers \ {c} : ~(call'[d].pc # "idle" /\ call'[d].tool = t)
      BY <2>0, <3>1
    <3>. SUFFICES /\ effects'[t] <= 1
                  /\ effects'[t] # 0 => HasPending(t)'
                  /\ Here(c, "append")' => effects'[t] = 0
                  /\ Here(c, "execute")' => effects'[t] = 0 /\ HasPending(t)'
      BY <3>2 DEF Here
    <3>3. CASE Query(c)
      <4>1. effects' = effects /\ log' = log
        BY <3>3 DEF Query
      <4>2. \/ call'[c].pc = "returned"
            \/ ~HasPending(t) /\ call'[c].pc = "append"
            \/ t \in faulty'
        <5>1. \/ Ends(c, "returned", "ok")
              \/ Ends(c, "returned", "failed")
              \/ ~HasPending(t) /\ GoOn(c, "append")
              \/ t \in faulty'
          BY <2>5, <3>3 DEF Query, LogFault, Return
        <5>2. CASE Ends(c, "returned", "ok") \/ Ends(c, "returned", "failed")
          BY <1>0, <5>2 DEF Ends
        <5>3. CASE ~HasPending(t) /\ GoOn(c, "append")
          BY <1>0, <5>3 DEF GoOn, Calls
        <5>. QED BY <5>1, <5>2, <5>3
      <4>. QED BY <2>2, <2>3, <4>1, <4>2 DEF Here
    <3>4. CASE AppendPending(c)
      <4>1. effects' = effects /\ call'[c].pc = "execute" /\ effects[t] = 0
        BY <1>0, <2>2, <2>5, <3>4 DEF AppendPending, GoOn, Calls
      <4>2. HasPending(t)'
        BY <2>5, <3>4 DEF AppendPending, AppendLog, LogFault, HasPending
      <4>. QED BY <2>2, <4>1, <4>2 DEF Here
    <3>5. CASE Deny(c)
      <4>1. effects' = effects /\ call'[c].pc = "returned"
        BY <1>0, <3>5 DEF Deny, Return, Ends
      <4>. QED BY <2>2, <2>3, <4>1 DEF Here
    <3>6. CASE ExecuteTool(c)
      <4>1. call'[c].pc \in {"settle", "returned"}
        BY <1>0, <3>6 DEF ExecuteTool, Ends
      <4>2. effects[t] = 0 /\ HasPending(t)
        BY <2>2, <2>5, <3>6 DEF ExecuteTool
      <4>3. effects'[t] \in {0, 1}
        BY <1>0, <2>5, <3>6, <4>2 DEF ExecuteTool
      <4>. QED BY <2>3, <4>1, <4>2, <4>3 DEF Here
    <3>7. CASE AppendDone(c)
      <4>1. effects' = effects /\ call'[c].pc = "returned"
        BY <1>0, <3>7 DEF AppendDone, GoOn, Calls
      <4>. QED BY <2>2, <2>3, <4>1 DEF Here
    <3>. QED BY <1>10, <3>3, <3>4, <3>5, <3>6, <3>7 DEF ToolCall
  <2>. QED BY <2>4, <2>5
<1>. QED BY <1>2, <1>5, <1>6, <1>7, <1>8, <1>9, <1>10
         DEF DagNext, Executor, Schedule, AllDone, Compensate, Compensated, Skip, World, dagVars

\* A tool with side effects acts at most once, over retries, executions, crashes
\* and concurrent nodes, as long as its log works and its nodes depend on one
\* another (agent_execute.go:380-470).
THEOREM AlwaysAtMostOnce == DagSpec => []AtMostOnce
<1>1. DagInit => LoggedFirst /\ AtMostOnce
  <2>1. DagInit => AtMostOnce
    BY PlanFacts DEF DagInit, AtMostOnce
  <2>. QED BY <2>1, DagStart
<1>2. DagTypeOK /\ DagInv /\ LoggedFirst /\ AtMostOnce /\ [DagNext]_dagVars
         => LoggedFirst' /\ AtMostOnce'
  BY LoggedStep
<1>. QED BY DagAlways, <1>1, <1>2, PTL DEF DagSpec

-----------------------------------------------------------------------------
(***************************************************************************)
(* The executor is a saga.                                                 *)
(***************************************************************************)
\* Of what can be undone each node is once in the queue or undone, and it has
\* succeeded; a node is skipped only behind one that has failed.
UndoneOnce ==
    /\ \A i \in DOMAIN undo : Succeeded(undo[i]) /\ undo[i] \notin undone
    /\ \A i, j \in DOMAIN undo : undo[i] = undo[j] => i = j
    /\ \A n \in undone : Succeeded(n)
    /\ \A n \in Nodes : node[n] = "skipped" => Failed

LEMMA UndoneOnceStep ==
    ASSUME DagTypeOK, Places, UndoneOnce, [DagNext]_dagVars
    PROVE  UndoneOnce'
<1>. USE DEF Succeeded
<1>0. undo \in Seq(Nodes) /\ DOMAIN undo = 1 .. Len(undo) /\ Len(undo) \in Nat
  BY DEF DagTypeOK
<1>1. ASSUME Reset PROVE UndoneOnce'
  BY <1>1 DEF Reset, AllWaiting, UndoneOnce
<1>2. ASSUME UNCHANGED <<undo, undone>>,
             \A n \in Nodes : Succeeded(n) => Succeeded(n)',
             \A n \in Nodes : node'[n] = "skipped" => Failed'
      PROVE  UndoneOnce'
  BY <1>0, <1>2 DEF UndoneOnce, DagTypeOK
<1>3. CASE Schedule
  <2>1. \A n \in Nodes : node'[n] = IF n \in Ready THEN "scheduled" ELSE node[n]
    BY <1>3 DEF Schedule
  <2>2. \A n \in Ready : node[n] = "waiting"
    BY DEF Ready
  <2>. QED BY <1>2, <1>3, <2>1, <2>2 DEF Schedule, Failed, UndoneOnce
<1>4. ASSUME NEW n \in Nodes, Start(n) \/ Skip(n) PROVE UndoneOnce'
  BY <1>2, <1>4 DEF Start, Skip, DagTypeOK, Failed, UndoneOnce
<1>5. ASSUME NEW n \in Nodes, NodeFails(n) PROVE UndoneOnce'
  <2>1. node[n] = "running"
    BY <1>5 DEF NodeFails, Here, Places
  <2>. QED BY <1>2, <1>5, <2>1 DEF NodeFails, DagTypeOK, Failed, UndoneOnce
<1>6. ASSUME NEW n \in Nodes, NodeSucceeds(n) PROVE UndoneOnce'
  <2>1. node[n] = "running" /\ ~Succeeded(n)
    BY <1>6 DEF NodeSucceeds, Here, Places
  <2>2. undone = {} /\ undone' = {} /\ undo' = Pushed(n)
    BY <1>6, <2>1, Waves DEF NodeSucceeds
  <2>3. /\ Succeeded(n)'
        /\ \A m \in Nodes \ {n} : node'[m] = node[m]
        /\ \A m \in Nodes : node'[m] = "skipped" => Failed'
    BY <1>6, <2>1 DEF NodeSucceeds, DagTypeOK, Failed, UndoneOnce
  <2>4. \A i \in DOMAIN undo : undo[i] \in Nodes \ {n}
    BY <1>0, <2>1 DEF UndoneOnce
  <2>5. CASE Undo[n] = NoTool
    <3>1. undo' = undo
      BY <2>2, <2>5, SucceedsPushes
    <3>. QED BY <2>2, <2>3, <2>4, <3>1 DEF UndoneOnce
  <2>6. CASE Undo[n] # NoTool
    <3>. DEFINE q == Pushed(n)
    <3>1. /\ DOMAIN q = 1 .. Len(undo) + 1 /\ q[1] = n
          /\ \A i \in DOMAIN q : i # 1 => i - 1 \in DOMAIN undo /\ q[i] = undo[i - 1]
      BY <2>6, SucceedsPushes
    <3>. HIDE DEF q
    <3>2. \A i \in DOMAIN q : node'[q[i]] \in {"done", "empty"}
      BY <2>3, <2>4, <3>1 DEF UndoneOnce
    <3>3. ASSUME NEW i \in DOMAIN q, NEW j \in DOMAIN q, q[i] = q[j] PROVE i = j
      <4>1. CASE i = 1 \/ j = 1
        BY <2>4, <3>1, <3>3, <4>1
      <4>2. CASE i # 1 /\ j # 1
        <5>1. i - 1 = j - 1
          BY <3>1, <3>3, <4>2 DEF UndoneOnce
        <5>. QED BY <1>0, <3>1, <5>1
      <4>. QED BY <4>1, <4>2
    <3>4. undo' = q
      BY <2>2 DEF q
    <3>. QED BY <2>2, <2>3, <3>2, <3>3, <3>4 DEF UndoneOnce
  <2>. QED BY <2>5, <2>6
<1>7. CASE CallUndo
  <2>1. /\ undo # <<>> /\ undo' = Tail(undo) /\ undone' = undone \cup {Head(undo)}
        /\ UNCHANGED node
    BY <1>7 DEF CallUndo
  <2>2. /\ Head(undo) = undo[1] /\ 1 \in DOMAIN undo
        /\ DOMAIN Tail(undo) = 1 .. Len(undo) - 1
        /\ \A i \in 1 .. Len(undo) - 1 : /\ Tail(undo)[i] = undo[i + 1]
                                         /\ i + 1 \in DOMAIN undo /\ i + 1 # 1
    BY <1>0, <2>1
  <2>3. \A i \in DOMAIN undo' : node'[undo'[i]] \in {"done", "empty"} /\ undo'[i] \notin undone'
    <3>1. ASSUME NEW i \in 1 .. Len(undo) - 1
          PROVE  node'[undo[i + 1]] \in {"done", "empty"} /\ undo[i + 1] \notin undone'
      <4>1. i + 1 \in DOMAIN undo /\ i + 1 # 1
        BY <2>2
      <4>. QED BY <2>1, <2>2, <4>1 DEF UndoneOnce
    <3>. QED BY <2>1, <2>2, <3>1
  <2>4. ASSUME NEW i \in DOMAIN undo', NEW j \in DOMAIN undo', undo'[i] = undo'[j]
        PROVE  i = j
    <3>1. i + 1 = j + 1
      BY <2>1, <2>2, <2>4 DEF UndoneOnce
    <3>. QED BY <1>0, <2>1, <2>2, <3>1
  <2>5. \A n \in undone' : Succeeded(n)'
    BY <2>1, <2>2 DEF UndoneOnce
  <2>. QED BY <2>1, <2>3, <2>4, <2>5 DEF UndoneOnce, Failed
<1>8. CASE UNCHANGED <<node, undo, undone>>
  BY <1>2, <1>8 DEF Failed, UndoneOnce
<1>9. ASSUME NEW c \in Callers, ToolCall(c) PROVE UndoneOnce'
  BY <1>8, <1>9, ToolCallSteps DEF CallOnly
<1>. QED BY <1>1, <1>3, <1>4, <1>5, <1>6, <1>7, <1>8, <1>9
         DEF DagNext, Executor, Begin, Crash, AllDone, Compensate, UndoReturns, Compensated,
             Retry, dagVars

LEMMA UndoneOnceAlways == DagSpec => []UndoneOnce
<1>1. DagInit => UndoneOnce
  BY DEF DagInit, UndoneOnce, AllWaiting
<1>2. DagTypeOK /\ DagInv /\ UndoneOnce /\ [DagNext]_dagVars => UndoneOnce'
  BY UndoneOnceStep DEF DagInv
<1>. QED BY DagAlways, <1>1, <1>2, PTL DEF DagSpec

\* The abstract state of a node, case by case.
LEMMA SagaWorkAt ==
    ASSUME DagTypeOK, UndoneOnce, NEW n \in Nodes
    PROVE  /\ SagaWork[n] = "undone" <=> n \in undone
           /\ SagaWork[n] = "idle" <=> node[n] \in {"waiting", "scheduled", "skipped"}
           /\ SagaWork[n] = "running" <=> node[n] = "running"
           /\ SagaWork[n] = "failed" <=> node[n] = "failed"
           /\ SagaWork[n] = "done" <=> node[n] = "done" /\ n \notin undone
           /\ SagaWork[n] \in {"done", "mute"} <=> Succeeded(n) /\ n \notin undone
  BY DEF SagaWork, DagTypeOK, UndoneOnce, Succeeded

LEMMA SagaModeIs ==
    ASSUME DagTypeOK
    PROVE  /\ SagaMode = "forward" <=> exec.pc = "waves"
           /\ SagaMode = "backward" <=> exec.pc = "compensate"
           /\ exec.pc \notin {"waves", "compensate"} => SagaMode = exec.pc
  BY DEF SagaMode, DagTypeOK

\* One node has moved, or none.
LEMMA SagaWorkMoves ==
    ASSUME NEW n \in Nodes, NEW st, SagaWork'[n] = st,
           \A m \in Nodes \ {n} : SagaWork'[m] = SagaWork[m]
    PROVE  SagaWork' = [SagaWork EXCEPT ![n] = st]
  BY DEF SagaWork

LEMMA SagaWorkStays ==
    ASSUME UNCHANGED undone,
           \A n \in Nodes : \/ node'[n] = node[n]
                            \/ {node[n], node'[n]} \subseteq {"waiting", "scheduled", "skipped"}
    PROVE  SagaWork' = SagaWork
<1>1. ASSUME NEW n \in Nodes PROVE SagaWork'[n] = SagaWork[n]
  BY <1>1 DEF SagaWork
<1>. QED BY <1>1 DEF SagaWork

LEMMA SagaStep ==
    ASSUME DagTypeOK, DagInv, UndoneOnce, DagTypeOK', UndoneOnce', [DagNext]_dagVars
    PROVE  [TwoWay!SagaNext]_(TwoWay!sagaVars)
<1>. DEFINE Goal == TwoWay!SagaNext \/ UNCHANGED TwoWay!sagaVars
<1>. SUFFICES Goal
  OBVIOUS
<1>0. /\ Places /\ Grounded /\ UndoQueue
      /\ undo \in Seq(Nodes)
  BY DEF DagInv, DagTypeOK
<1>. USE DEF TwoWay!SomeFailed, TwoWay!NoneRunning, TwoWay!ToUndo, TwoWay!Startable
<1>1. TwoWay!SomeFailed <=> Failed
  BY SagaWorkAt DEF Failed
<1>2. ASSUME Reset PROVE SagaWork' = TwoWay!AllIdle
  BY <1>2 DEF Reset, AllWaiting, SagaWork, TwoWay!AllIdle
<1>3. ASSUME UNCHANGED <<exec, node, undone>> PROVE Goal
  BY <1>3, SagaWorkStays DEF SagaMode, TwoWay!sagaVars
<1>4. CASE Begin
  <2>1. SagaMode \in {"off", "returned", "gaveUp"} /\ SagaMode' = "forward"
    BY <1>4, SagaModeIs DEF Begin, SagaMode
  <2>. QED BY <1>2, <1>4, <2>1 DEF Begin, TwoWay!BeginSaga, TwoWay!SagaNext
<1>5. CASE Crash
  <2>1. SagaMode \in {"forward", "backward"} /\ SagaMode' = "off"
    BY <1>5, SagaModeIs DEF Crash, SagaMode, DagTypeOK
  <2>. QED BY <1>2, <1>5, <2>1 DEF Crash, TwoWay!Die, TwoWay!SagaNext
<1>6. CASE Schedule
  <2>1. UNCHANGED <<exec, undone>>
    BY <1>6 DEF Schedule
  <2>2. \A n \in Nodes : \/ node'[n] = node[n]
                         \/ node[n] = "waiting" /\ node'[n] = "scheduled"
    BY <1>6 DEF Schedule, Ready
  <2>. QED BY <2>1, <2>2, SagaWorkStays DEF SagaMode, TwoWay!sagaVars
<1>7. CASE AllDone
  <2>1. SagaMode = "forward" /\ SagaMode' = "returned" /\ SagaWork' = SagaWork
    BY <1>7, SagaModeIs, SagaWorkStays DEF AllDone, SagaMode, DagTypeOK
  <2>2. undone = {} /\ \A n \in Nodes : node[n] \notin {"scheduled", "running", "skipped"}
    BY <1>0, <1>7 DEF AllDone, WaveOver, Places, UndoneOnce
  <2>3. \A n \in Nodes : ~TwoWay!Startable(n) /\ SagaWork[n] # "running"
    <3>1. ASSUME NEW n \in Nodes, TwoWay!Startable(n) PROVE FALSE
      <4>1. node[n] = "waiting"
        BY <2>2, <3>1, SagaWorkAt
      <4>2. \A m \in Deps[n] : node[m] = "done"
        BY <3>1, SagaWorkAt, PlanFacts
      <4>. QED BY <1>7, <4>1, <4>2 DEF AllDone, Ready
    <3>. QED BY <2>2, <3>1, SagaWorkAt
  <2>4. TwoWay!Succeed
    BY <1>1, <1>7, <2>1, <2>3 DEF AllDone, TwoWay!Succeed
  <2>. QED BY <2>4 DEF TwoWay!SagaNext
<1>8. CASE Compensate
  <2>1. SagaMode = "forward" /\ SagaMode' = "backward" /\ SagaWork' = SagaWork
    BY <1>8, SagaModeIs, SagaWorkStays DEF Compensate, SagaMode, DagTypeOK
  <2>2. \A n \in Nodes : SagaWork[n] # "running"
    BY <1>8, SagaWorkAt DEF Compensate, WaveOver
  <2>3. TwoWay!TurnBack
    BY <1>1, <1>8, <2>1, <2>2 DEF Compensate, TwoWay!TurnBack
  <2>. QED BY <2>3 DEF TwoWay!SagaNext
<1>9. CASE CallUndo
  <2>. DEFINE n == Head(undo)
  <2>1. /\ n \in Nodes /\ n = undo[1] /\ 1 \in DOMAIN undo
        /\ DOMAIN undo = 1 .. Len(undo) /\ Len(undo) \in Nat
    BY <1>0, <1>9 DEF CallUndo
  <2>2. Undo[n] # NoTool /\ Succeeded(n) /\ n \notin undone
    BY <1>0, <2>1 DEF UndoQueue, UndoneOnce
  <2>3. ASSUME NEW k \in Nodes, n \in Deps[k] PROVE ~TwoWay!ToUndo(k)
    <3>1. SUFFICES ASSUME Undo[k] # NoTool, Succeeded(k) PROVE k \in undone
      BY SagaWorkAt
    <3>2. k \in undone \/ \E j \in DOMAIN undo : j < 1 /\ undo[j] = k
      BY <1>0, <2>1, <2>3, <3>1 DEF UndoQueue
    <3>. QED BY <2>1, <3>2
  <2>4. SagaMode = "backward" /\ SagaMode' = SagaMode
    BY <1>9, SagaModeIs DEF CallUndo, SagaMode
  <2>5. SagaWork' = [SagaWork EXCEPT ![n] = "undone"]
    <3>1. undone' = undone \cup {n} /\ node' = node
      BY <1>9 DEF CallUndo
    <3>2. SagaWork'[n] = "undone"
      BY <2>1, <3>1 DEF SagaWork
    <3>3. \A m \in Nodes \ {n} : SagaWork'[m] = SagaWork[m]
      BY <3>1 DEF SagaWork
    <3>. QED BY <2>1, <3>2, <3>3, SagaWorkMoves
  <2>6. TwoWay!ToUndo(n)
    BY <2>1, <2>2, SagaWorkAt
  <2>7. TwoWay!UndoNode(n)
    BY <2>3, <2>4, <2>5, <2>6 DEF TwoWay!UndoNode
  <2>. QED BY <2>1, <2>7 DEF TwoWay!SagaNext
<1>10. CASE Compensated
  <2>1. SagaMode = "backward" /\ SagaMode' = exec'.pc /\ SagaWork' = SagaWork
    BY <1>10, SagaModeIs, SagaWorkStays DEF Compensated, SagaMode, DagTypeOK
  <2>2. CASE undo = <<>>
    <3>1. \A n \in Nodes : ~TwoWay!ToUndo(n)
      BY <1>0, <2>2, SagaWorkAt DEF UndoQueue
    <3>2. exec'.pc = "returned"
      BY <1>10, <2>2 DEF Compensated, DagTypeOK
    <3>3. TwoWay!Undone
      BY <2>1, <3>1, <3>2 DEF TwoWay!Undone
    <3>. QED BY <3>3 DEF TwoWay!SagaNext
  <2>3. CASE undo # <<>>
    <3>1. undo[1] \in Nodes /\ 1 \in DOMAIN undo
      BY <1>0, <2>3
    <3>2. TwoWay!ToUndo(undo[1])
      BY <1>0, <3>1, SagaWorkAt DEF UndoQueue, UndoneOnce
    <3>3. exec'.pc = "gaveUp"
      BY <1>10, <2>3 DEF Compensated, DagTypeOK
    <3>4. TwoWay!GiveUp
      BY <2>1, <3>1, <3>2, <3>3 DEF TwoWay!GiveUp
    <3>. QED BY <3>4 DEF TwoWay!SagaNext
  <2>. QED BY <2>2, <2>3
<1>11. ASSUME NEW n \in Nodes, Start(n) PROVE Goal
  <2>1. node[n] = "scheduled" /\ ~Failed /\ UNCHANGED <<exec, undone>>
    BY <1>11 DEF Start
  <2>2. exec.pc = "waves" /\ undone = {}
    BY <1>0, <2>1, Waves
  <2>3. SagaMode = "forward" /\ SagaMode' = SagaMode
    BY <2>1, <2>2, SagaModeIs DEF SagaMode
  <2>4. TwoWay!Startable(n)
    <3>1. \A m \in Deps[n] : m \in Nodes /\ node[m] = "done"
      BY <1>0, <2>1, PlanFacts DEF Grounded
    <3>. QED BY <2>1, <2>2, <3>1, SagaWorkAt
  <2>5. SagaWork' = [SagaWork EXCEPT ![n] = "running"]
    <3>1. node'[n] = "running" /\ \A m \in Nodes \ {n} : node'[m] = node[m]
      BY <1>11 DEF Start, DagTypeOK
    <3>2. SagaWork'[n] = "running" /\ \A m \in Nodes \ {n} : SagaWork'[m] = SagaWork[m]
      BY <2>1, <2>2, <3>1 DEF SagaWork
    <3>. QED BY <3>2, SagaWorkMoves
  <2>6. TwoWay!StartNode(n)
    BY <1>1, <2>1, <2>3, <2>4, <2>5 DEF TwoWay!StartNode
  <2>. QED BY <2>6 DEF TwoWay!SagaNext
<1>12. ASSUME NEW n \in Nodes, Skip(n) PROVE Goal
  <2>1. UNCHANGED <<exec, undone>> /\ node[n] = "scheduled" /\ node'[n] = "skipped"
        /\ \A m \in Nodes \ {n} : node'[m] = node[m]
    BY <1>12 DEF Skip, DagTypeOK
  <2>. QED BY <2>1, SagaWorkStays DEF SagaMode, TwoWay!sagaVars
<1>13. ASSUME NEW n \in Nodes, NodeFails(n) \/ NodeSucceeds(n) PROVE Goal
  <2>1. node[n] = "running" /\ UNCHANGED <<exec, undone>>
    BY <1>0, <1>13 DEF NodeFails, NodeSucceeds, Here, Places
  <2>2. exec.pc = "waves" /\ undone = {}
    BY <1>0, <2>1, Waves
  <2>3. SagaMode = "forward" /\ SagaMode' = SagaMode
    BY <2>1, <2>2, SagaModeIs DEF SagaMode
  <2>4. PICK st \in {"done", "mute", "failed"} : SagaWork' = [SagaWork EXCEPT ![n] = st]
    <3>1. /\ node'[n] \in {"done", "empty", "failed"}
          /\ \A m \in Nodes \ {n} : node'[m] = node[m]
      BY <1>13 DEF NodeFails, NodeSucceeds, DagTypeOK
    <3>2. /\ SagaWork'[n] \in {"done", "mute", "failed"}
          /\ \A m \in Nodes \ {n} : SagaWork'[m] = SagaWork[m]
      BY <2>1, <2>2, <3>1 DEF SagaWork
    <3>. QED BY <3>2, SagaWorkMoves
  <2>5. SagaWork[n] = "running"
    BY <2>1, SagaWorkAt
  <2>6. TwoWay!FinishNode(n)
    BY <2>3, <2>4, <2>5 DEF TwoWay!FinishNode
  <2>. QED BY <2>6 DEF TwoWay!SagaNext
<1>14. ASSUME NEW c \in Callers, ToolCall(c) PROVE Goal
  BY <1>3, <1>14, ToolCallSteps DEF CallOnly
<1>. QED BY <1>3, <1>4, <1>5, <1>6, <1>7, <1>8, <1>9, <1>10, <1>11, <1>12, <1>13, <1>14
         DEF DagNext, Executor, UndoReturns, Retry, dagVars

\* The executor is a saga, for every plan, any number of nodes at a time, crashes
\* and faults of the log: forward along the dependencies, then back against them
\* over what succeeded, each node once (dag_executor.go:126-330).
THEOREM ImplementsSaga == DagSpec => SagaRefinement
<1>1. DagInit => TwoWay!SagaInit
  BY DEF DagInit, AllWaiting, SagaMode, SagaWork, TwoWay!SagaInit, TwoWay!AllIdle
<1>2. /\ DagTypeOK /\ DagInv /\ UndoneOnce
      /\ DagTypeOK' /\ UndoneOnce'
      /\ [DagNext]_dagVars
      => [TwoWay!SagaNext]_(TwoWay!sagaVars)
  BY SagaStep
<1>. QED BY DagAlways, UndoneOnceAlways, <1>1, <1>2, PTL
         DEF DagSpec, SagaRefinement, TwoWay!SagaSpec

-----------------------------------------------------------------------------
\* The tasks the pattern has posted so far, by their place in its argument.
Posted(i) ==
    \/ i < pattern.next
    \/ pattern.kind = "sequential" /\ pattern.st # "posting" /\ i = pattern.next

\* A task has an outcome exactly when it is closed.
Outcomes == \A t \in Tasks : result[t] # "none" <=> phase[t] = "closed"

\* What the pattern will hear of completed tasks is so.
NewsIsTrue ==
    \A i \in DOMAIN pattern.events :
       pattern.events[i].type = "completed" => result[pattern.events[i].task] = "done"

\* The tasks on the blackboard are those the pattern has posted.
OnBoard == \A i \in DOMAIN SubTasks : phase[SubTasks[i]] # "absent" <=> Posted(i)

\* While the pattern has not failed, what it has posted is pending or done.
Accounted ==
    pattern.st \in {"posting", "waiting", "ok"} =>
       \A i \in DOMAIN SubTasks :
          Posted(i) => SubTasks[i] \in pattern.pending \/ result[SubTasks[i]] = "done"

\* The sequential pattern leaves a task when it is done, with nothing pending.
InTurn ==
    pattern.kind = "sequential" =>
       /\ \A i \in DOMAIN SubTasks : i < pattern.next => result[SubTasks[i]] = "done"
       /\ pattern.st = "posting" => pattern.pending = {}

\* The others wait when all is posted, and a pattern that is over has posted
\* all and waits for none.
Finished ==
    /\ pattern.st = "waiting" /\ pattern.kind # "sequential" =>
          pattern.next = Len(SubTasks) + 1
    /\ pattern.st = "ok" =>
          pattern.pending = {} /\ \A i \in DOMAIN SubTasks : Posted(i)

PatternInv ==
    Outcomes /\ NewsIsTrue /\ OnBoard /\ Accounted /\ InTurn /\ Finished

-----------------------------------------------------------------------------
(* Types *)

\* The tasks of the pattern are tasks, and its places are numbers.
LEMMA SubTaskTypes ==
    /\ Len(SubTasks) \in Nat
    /\ DOMAIN SubTasks = 1 .. Len(SubTasks)
    /\ \A i \in DOMAIN SubTasks : SubTasks[i] \in Tasks
  BY DispatchAssumption

\* The pending tasks can be counted.
LEMMA OpenCount == Cardinality(Open) \in Nat
  <1>1. Open \subseteq Tasks
    BY DEF Open
  <1> QED
    BY <1>1, DispatchAssumption, FS_Subset, FS_CardinalityType

\* The orchestrator's list after its head has been dealt with.
LEMMA TodoTypes ==
    ASSUME DispatchTypeOK, orch.todo # <<>>
    PROVE  /\ Head(orch.todo) \in Tasks
           /\ Dispatched \in [todo : Seq(Tasks), admitted : BOOLEAN]
  BY DEF DispatchTypeOK, Dispatched

\* The task a pattern posts next.
LEMMA NextTask ==
    ASSUME DispatchTypeOK, pattern.next <= Len(SubTasks)
    PROVE  pattern.next \in DOMAIN SubTasks /\ SubTasks[pattern.next] \in Tasks
  BY SubTaskTypes DEF DispatchTypeOK, Patterns

\* The steps on a lease keep its types.
LEMMA LeaseTypes ==
    ASSUME DispatchTypeOK, NEW t \in Tasks,
           \/ Publish({t}) \/ TakeAway(t)
           \/ \E a \in Agents : Acquire(a, t) \/ Settle(a, t)
    PROVE  /\ phase' \in [Tasks -> {"absent", "open", "held", "closed"}]
           /\ holder' \in [Tasks -> Agents \cup {NoAgent}]
           /\ evictions' \in [Tasks -> 0 .. ToxicityLimit]
  <1>1. CASE Publish({t})
    BY <1>1 DEF DispatchTypeOK, Publish
  <1>2. CASE TakeAway(t)
    <2>1. evictions[t] + 1 \in 0 .. ToxicityLimit
      BY <1>2, DispatchAssumption DEF DispatchTypeOK, TakeAway
    <2>2. evictions' \in [Tasks -> 0 .. ToxicityLimit]
      BY <1>2, <2>1 DEF DispatchTypeOK, TakeAway
    <2> QED
      BY <1>2, <2>2 DEF DispatchTypeOK, TakeAway
  <1>3. CASE \E a \in Agents : Acquire(a, t)
    BY <1>3 DEF DispatchTypeOK, Acquire
  <1>4. CASE \E a \in Agents : Settle(a, t)
    BY <1>4 DEF DispatchTypeOK, Settle
  <1> QED
    BY <1>1, <1>2, <1>3, <1>4

\* What fits the pattern's channel.
LEMMA ChannelTypes ==
    ASSUME NEW p \in Patterns
    PROVE  /\ p.events \in Seq(Events)
           /\ \A e \in Events : Append(p.events, e) \in Seq(Events)
           /\ p.events # <<>> => Tail(p.events) \in Seq(Events)
  BY DEF Patterns

\* A pattern with other events.
LEMMA EventsFields ==
    ASSUME NEW p \in Patterns, NEW s \in Seq(Events), NEW q,
           q = [p EXCEPT !.events = s]
    PROVE  /\ q \in Patterns
           /\ q.kind = p.kind /\ q.st = p.st /\ q.next = p.next
           /\ q.pending = p.pending /\ q.listening = p.listening
           /\ q.events = s
  <1>1. q \in Patterns
    BY DEF Patterns
  <1> QED
    BY <1>1 DEF Patterns

\* What an event does to the pattern.
LEMMA ToldFields ==
    ASSUME NEW p \in Patterns, NEW type \in {"completed", "failed"},
           NEW t \in Tasks, NEW q \in Told(p, type, t)
    PROVE  /\ q \in Patterns
           /\ q.kind = p.kind /\ q.st = p.st /\ q.next = p.next
           /\ q.pending = p.pending /\ q.listening = p.listening
           /\ \/ q.events = p.events
              \/ q.events = Append(p.events, [type |-> type, task |-> t])
  <1> DEFINE e == [type |-> type, task |-> t]
  <1>1. PICK s \in Seq(Events) : s = Append(p.events, e)
    <2>1. e \in Events
      BY DEF Events
    <2> HIDE DEF e
    <2> QED
      BY <2>1, ChannelTypes, Zenon
  <1>2. q = p \/ q = [p EXCEPT !.events = s]
    BY <1>1, Zenon DEF Told
  <1>3. CASE q = [p EXCEPT !.events = s]
    <2>1. /\ q \in Patterns
          /\ q.kind = p.kind /\ q.st = p.st /\ q.next = p.next
          /\ q.pending = p.pending /\ q.listening = p.listening
          /\ q.events = s
      BY <1>3, EventsFields
    <2> QED
      BY <1>1, <2>1
  <1> QED
    BY <1>2, <1>3

\* What an event makes of the pattern that waits.
LEMMA AfterEventFields ==
    ASSUME NEW p \in Patterns, NEW e \in Events
    PROVE  LET q == AfterEvent(p, e)
           IN  /\ q \in Patterns
               /\ q.kind = p.kind /\ q.next = p.next
               /\ q.listening = p.listening /\ q.events = p.events
               /\ \/ q.st = p.st /\ q.pending = p.pending
                  \/ q.st = "failed" /\ q.pending = p.pending
                  \/ /\ e.type = "completed"
                     /\ q.st = p.st /\ q.pending = p.pending \ {e.task}
  <1>1. CASE e.task \notin p.pending
    BY <1>1 DEF AfterEvent
  <1>2. CASE e.task \in p.pending /\ e.type = "failed"
    BY <1>2 DEF AfterEvent, Patterns
  <1>3. CASE e.task \in p.pending /\ e.type = "completed"
    <2>1. PICK S \in SUBSET Tasks : S = p.pending \ {e.task}
      BY DEF Patterns
    <2>2. AfterEvent(p, e) = [p EXCEPT !.pending = S]
      BY <1>3, <2>1 DEF AfterEvent
    <2> QED
      BY <1>3, <2>1, <2>2 DEF Patterns
  <1> QED
    BY <1>1, <1>2, <1>3 DEF Events

\* Taking an event from the channel changes nothing else.
LEMMA TakenFields ==
    ASSUME NEW p \in Patterns, p.events # <<>>, NEW q,
           q = [p EXCEPT !.events = Tail(@)]
    PROVE  /\ q \in Patterns
           /\ q.kind = p.kind /\ q.st = p.st /\ q.next = p.next
           /\ q.pending = p.pending /\ q.listening = p.listening
           /\ q.events = Tail(p.events)
  <1>1. Tail(p.events) \in Seq(Events)
    BY ChannelTypes, Zenon
  <1> DEFINE s == Tail(p.events)
  <1>2. s \in Seq(Events) /\ q = [p EXCEPT !.events = s]
    BY <1>1
  <1> HIDE DEF s
  <1>3. q \in Patterns
    BY <1>2, EventsFields DEF Patterns
  <1>4. /\ q.kind = p.kind /\ q.st = p.st /\ q.next = p.next
        /\ q.pending = p.pending /\ q.listening = p.listening
        /\ q.events = s
    BY <1>2 DEF Patterns
  <1> QED
    BY <1>3, <1>4 DEF s

\* Where a pattern goes from there.
LEMMA AdvancedFields ==
    ASSUME NEW p \in Patterns
    PROVE  LET q == PatternAdvanced(p)
           IN  /\ q \in Patterns
               /\ q.kind = p.kind /\ q.pending = p.pending /\ q.events = p.events
               /\ \/ /\ p.st # "waiting" \/ p.pending # {}
                     /\ q = p
                  \/ /\ p.st = "waiting" /\ p.pending = {} /\ p.kind = "sequential"
                     /\ p.next < Len(SubTasks)
                     /\ q.st = "posting" /\ q.next = p.next + 1
                  \/ /\ p.st = "waiting" /\ p.pending = {}
                     /\ p.kind # "sequential" \/ p.next >= Len(SubTasks)
                     /\ q.st = "ok" /\ q.next = p.next
  <1> USE SubTaskTypes
  <1>1. CASE p.st # "waiting" \/ p.pending # {}
    BY <1>1 DEF PatternAdvanced
  <1>2. CASE /\ p.st = "waiting" /\ p.pending = {}
             /\ p.kind = "sequential" /\ p.next < Len(SubTasks)
    <2>1. PICK n \in 1 .. Len(SubTasks) + 1 : n = p.next + 1
      BY <1>2 DEF Patterns
    <2>2. PatternAdvanced(p)
             = [p EXCEPT !.st = "posting", !.next = n, !.listening = FALSE]
      BY <1>2, <2>1 DEF PatternAdvanced
    <2> QED
      BY <1>2, <2>1, <2>2 DEF Patterns
  <1>3. CASE /\ p.st = "waiting" /\ p.pending = {}
             /\ ~(p.kind = "sequential" /\ p.next < Len(SubTasks))
    <2>1. PatternAdvanced(p) = [p EXCEPT !.st = "ok"]
      BY <1>3 DEF PatternAdvanced
    <2> QED
      BY <1>3, <2>1 DEF Patterns
  <1> QED
    BY <1>1, <1>2, <1>3

\* What hearing an event makes of the pattern.
LEMMA HearFields ==
    ASSUME DispatchTypeOK, Hear
    PROVE  LET e == pattern.events[1]
           IN  /\ pattern' \in Patterns
               /\ 1 \in DOMAIN pattern.events
               /\ pattern'.kind = pattern.kind
               /\ pattern'.events = Tail(pattern.events)
               /\ pattern.st = "waiting"
               /\ \/ pattern'.pending = pattern.pending
                  \/ /\ e.type = "completed"
                     /\ pattern'.pending = pattern.pending \ {e.task}
               /\ \/ pattern'.st = "waiting" /\ pattern'.next = pattern.next
                  \/ pattern'.st = "failed" /\ pattern'.next = pattern.next
                  \/ /\ pattern'.st = "posting" /\ pattern'.next = pattern.next + 1
                     /\ pattern.kind = "sequential"
                     /\ pattern'.pending = {}
                  \/ /\ pattern'.st = "ok" /\ pattern'.next = pattern.next
                     /\ pattern.kind = "sequential" => pattern.next >= Len(SubTasks)
                     /\ pattern'.pending = {}
  <1> DEFINE e == Head(pattern.events)
             q == AfterEvent(pattern, e)
             r == [q EXCEPT !.events = Tail(@)]
  <1>1. /\ pattern \in Patterns /\ pattern.events # <<>>
        /\ pattern.st = "waiting" /\ pattern' = PatternAdvanced(r)
    BY DEF DispatchTypeOK, Hear
  <1>2. e \in Events /\ e = pattern.events[1] /\ 1 \in DOMAIN pattern.events
    BY <1>1 DEF Patterns
  <1> HIDE DEF q
  <1>3. /\ q \in Patterns /\ q.events = pattern.events
        /\ q.kind = pattern.kind /\ q.next = pattern.next
        /\ \/ q.st = pattern.st /\ q.pending = pattern.pending
           \/ q.st = "failed" /\ q.pending = pattern.pending
           \/ /\ e.type = "completed"
              /\ q.st = pattern.st /\ q.pending = pattern.pending \ {e.task}
    BY <1>1, <1>2, AfterEventFields DEF q
  <1> HIDE DEF r
  <1>4. /\ r \in Patterns /\ r.events = Tail(q.events)
        /\ r.kind = q.kind /\ r.next = q.next /\ r.st = q.st /\ r.pending = q.pending
    BY <1>1, <1>3, TakenFields DEF r
  <1> HIDE DEF e
  <1> QED
    BY <1>1, <1>2, <1>3, <1>4, AdvancedFields

\* A task is admitted from a list that is not empty.
AdmittedIsFirst == orch.admitted => orch.todo # <<>>

\* The types, and what the orchestrator's list needs with them.
DispatchTyped == DispatchTypeOK /\ AdmittedIsFirst

LEMMA TypesKept == DispatchSpec => []DispatchTyped
  <1>1. DispatchInit => DispatchTyped
    <2> SUFFICES ASSUME DispatchInit PROVE DispatchTyped
      OBVIOUS
    <2>1. pattern \in Patterns
      <3>1. 1 \in 1 .. Len(SubTasks) + 1
        BY SubTaskTypes
      <3>2. <<>> \in Seq(Events)
        OBVIOUS
      <3> QED
        BY <3>1, <3>2 DEF DispatchInit, Patterns, Kinds
    <2>2. 0 \in 0 .. ToxicityLimit
      BY DispatchAssumption
    <2> QED
      BY <2>1, <2>2 DEF DispatchInit, LeaseInit, DispatchTyped, DispatchTypeOK, AdmittedIsFirst
  <1>2. DispatchTyped /\ [DispatchNext]_dispatchVars => DispatchTyped'
    <2> SUFFICES ASSUME DispatchTyped, [DispatchNext]_dispatchVars
                 PROVE  DispatchTyped'
      OBVIOUS
    <2> USE DispatchAssumption, SubTaskTypes
    <2>1. CASE ScanPending
      <3>1. orch' \in [todo : Seq(Tasks), admitted : BOOLEAN]
        <4>1. PICK s \in [1 .. Cardinality(Open) -> Open] : orch' = [orch EXCEPT !.todo = s]
          BY <2>1 DEF ScanPending
        <4>2. s \in Seq(Tasks)
          <5>1. PICK n \in Nat : n = Cardinality(Open)
            BY OpenCount
          <5>2. s \in [1 .. n -> Tasks]
            BY <4>1, <5>1 DEF Open
          <5> QED
            BY <5>2
        <4> QED
          BY <4>1, <4>2 DEF DispatchTyped, DispatchTypeOK, AdmittedIsFirst
      <3> QED
        BY <2>1, <3>1 DEF ScanPending, DispatchTyped, DispatchTypeOK, AdmittedIsFirst
    <2>2. CASE Admit
      <3>1. orch' \in [todo : Seq(Tasks), admitted : BOOLEAN]
        <4>1. CASE Active >= MaxAgents
          <5> HIDE SubTaskTypes
          <5>1. PICK s \in Seq(Tasks) : orch' = [orch EXCEPT !.todo = s]
            <6>1. <<>> \in Seq(Tasks)
              OBVIOUS
            <6> QED
              BY <2>2, <4>1, <6>1 DEF Admit
          <5> QED
            BY <5>1 DEF DispatchTyped, DispatchTypeOK, AdmittedIsFirst
        <4>2. CASE ~(Active >= MaxAgents)
          <5>1. orch' = [orch EXCEPT !.admitted = TRUE]
            BY <2>2, <4>2, Zenon DEF Admit
          <5> QED
            BY <5>1 DEF DispatchTyped, DispatchTypeOK, AdmittedIsFirst
        <4> QED
          BY <4>1, <4>2
      <3>2. orch'.admitted => orch'.todo # <<>>
        BY <2>2 DEF Admit, DispatchTyped, DispatchTypeOK, AdmittedIsFirst
      <3> QED
        BY <2>2, <3>1, <3>2 DEF Admit, DispatchTyped, DispatchTypeOK, AdmittedIsFirst
    <2>3. CASE SkipTask
      BY <2>3, TodoTypes DEF SkipTask, Dispatched, DispatchTyped, DispatchTypeOK, AdmittedIsFirst
    <2>4. CASE Assign
      <3>1. PICK a \in Agents : Acquire(a, Head(orch.todo)) /\ Push(a, Head(orch.todo))
        BY <2>4 DEF Assign, FindBestAgent, Candidates, DispatchTyped, DispatchTypeOK, AdmittedIsFirst
      <3>2. Head(orch.todo) \in Tasks /\ Dispatched \in [todo : Seq(Tasks), admitted : BOOLEAN]
        BY TodoTypes, <2>4 DEF Assign, DispatchTyped, AdmittedIsFirst
      <3>3. pushed' \in [Agents -> Seq(Tasks)]
        BY <3>1, <3>2 DEF Push, DispatchTyped, DispatchTypeOK, AdmittedIsFirst
      <3> QED
        BY <2>4, <3>1, <3>2, <3>3, LeaseTypes DEF Assign, Dispatched, DispatchTyped, DispatchTypeOK, AdmittedIsFirst
    <2>5. ASSUME NEW a \in Agents, Register(a) \/ Leave(a) PROVE DispatchTyped'
      BY <2>5 DEF Register, Leave, DispatchTyped, DispatchTypeOK, AdmittedIsFirst
    <2>6. ASSUME NEW a \in Agents, ReceivePush(a) PROVE DispatchTyped'
      <3>1. Head(pushed[a]) \in Tasks /\ Tail(pushed[a]) \in Seq(Tasks)
        BY <2>6 DEF ReceivePush, DispatchTyped, DispatchTypeOK, AdmittedIsFirst
      <3>2. pushed' \in [Agents -> Seq(Tasks)]
        BY <2>6, <3>1 DEF ReceivePush, DispatchTyped, DispatchTypeOK, AdmittedIsFirst
      <3>3. CASE Acquire(a, Head(pushed[a])) /\ worker' = [worker EXCEPT ![a] = Head(pushed[a])]
        BY <2>6, <3>1, <3>2, <3>3, LeaseTypes DEF ReceivePush, DispatchTyped, DispatchTypeOK, AdmittedIsFirst
      <3>4. CASE UNCHANGED <<phase, holder, evictions, worker>>
        BY <2>6, <3>2, <3>4 DEF ReceivePush, DispatchTyped, DispatchTypeOK, AdmittedIsFirst
      <3> QED
        BY <2>6, <3>3, <3>4 DEF ReceivePush
    <2>7. ASSUME NEW a \in Agents, ReceivePosted(a) PROVE DispatchTyped'
      <3>1. PICK t \in Tasks : Acquire(a, t) /\ worker' = [worker EXCEPT ![a] = t]
        BY <2>7 DEF ReceivePosted
      <3> QED
        BY <2>7, <3>1, LeaseTypes DEF ReceivePosted, DispatchTyped, DispatchTypeOK, AdmittedIsFirst
    <2>8. ASSUME NEW a \in Agents, Finish(a) PROVE DispatchTyped'
      <3>1. worker[a] \in Tasks
        BY <2>8 DEF Finish, DispatchTyped, DispatchTypeOK, AdmittedIsFirst
      <3>2. worker' \in [Agents -> Tasks \cup {NoTask}]
        BY <2>8 DEF Finish, DispatchTyped, DispatchTypeOK, AdmittedIsFirst
      <3>3. CASE /\ Settle(a, worker[a])
                 /\ \E how \in {"completed", "failed"} :
                       /\ result' = [result EXCEPT ![worker[a]] =
                                        IF how = "completed" THEN "done" ELSE "failed"]
                       /\ pattern' \in Told(pattern, how, worker[a])
        <4>1. pattern' \in Patterns
          BY <3>1, <3>3, ToldFields DEF DispatchTyped, DispatchTypeOK, AdmittedIsFirst
        <4>2. result' \in [Tasks -> {"none", "done", "failed"}]
          BY <3>1, <3>3 DEF DispatchTyped, DispatchTypeOK, AdmittedIsFirst
        <4> QED
          BY <2>8, <3>1, <3>2, <3>3, <4>1, <4>2, LeaseTypes DEF Finish, DispatchTyped, DispatchTypeOK, AdmittedIsFirst
      <3>4. CASE UNCHANGED <<phase, holder, evictions, result, pattern>>
        BY <2>8, <3>2, <3>4 DEF Finish, DispatchTyped, DispatchTypeOK, AdmittedIsFirst
      <3> QED
        BY <2>8, <3>3, <3>4 DEF Finish
    <2>9. ASSUME NEW t \in Tasks, Evict(t) PROVE DispatchTyped'
      <3>1. result' \in [Tasks -> {"none", "done", "failed"}]
        BY <2>9 DEF Evict, DispatchTyped, DispatchTypeOK, AdmittedIsFirst
      <3> QED
        BY <2>9, <3>1, LeaseTypes DEF Evict, DispatchTyped, DispatchTypeOK, AdmittedIsFirst
    <2>10. CASE PostOne
      <3>1. SubTasks[pattern.next] \in Tasks
        BY <2>10, NextTask DEF PostOne, DispatchTyped
      <3>2. pattern' \in Patterns
        BY <2>10, <3>1 DEF PostOne, DispatchTyped, DispatchTypeOK, AdmittedIsFirst, Patterns
      <3> QED
        BY <2>10, <3>1, <3>2, LeaseTypes DEF PostOne, DispatchTyped, DispatchTypeOK, AdmittedIsFirst
    <2>11. CASE SubscribeLate
      <3>1. PICK s \in Seq(Events) : s = <<>>
        <4>1. <<>> \in Seq(Events)
          OBVIOUS
        <4> QED
          BY <4>1, Zenon
      <3>2. pattern' = [pattern EXCEPT !.listening = TRUE, !.events = s]
        BY <2>11, <3>1 DEF SubscribeLate
      <3>3. pattern' \in Patterns
        BY <3>2 DEF DispatchTyped, DispatchTypeOK, AdmittedIsFirst, Patterns
      <3> QED
        BY <2>11, <3>3 DEF SubscribeLate, DispatchTyped, DispatchTypeOK, AdmittedIsFirst
    <2>12. CASE PostAll
      <3>1. SubTasks[pattern.next] \in Tasks
        BY <2>12, NextTask DEF PostAll, DispatchTyped
      <3>2. pattern' \in Patterns
        <4>1. PICK n \in 1 .. Len(SubTasks) + 1 : n = pattern.next + 1
          BY <2>12 DEF PostAll, DispatchTyped, DispatchTypeOK, AdmittedIsFirst, Patterns
        <4>2. PICK st \in {"posting", "waiting"} :
                 st = IF pattern.next = Len(SubTasks) THEN "waiting" ELSE "posting"
          OBVIOUS
        <4>3. PICK S \in SUBSET Tasks : S = pattern.pending \cup {SubTasks[pattern.next]}
          BY <3>1 DEF DispatchTyped, DispatchTypeOK, AdmittedIsFirst, Patterns
        <4>4. pattern' = [pattern EXCEPT !.next = n, !.st = st, !.pending = S]
          BY <2>12, <4>1, <4>2, <4>3 DEF PostAll
        <4> QED
          BY <4>4 DEF DispatchTyped, DispatchTypeOK, AdmittedIsFirst, Patterns
      <3> QED
        BY <2>12, <3>1, <3>2, LeaseTypes DEF PostAll, DispatchTyped, DispatchTypeOK, AdmittedIsFirst
    <2>13. CASE Hear
      BY <2>13, HearFields DEF Hear, DispatchTyped, DispatchTypeOK, AdmittedIsFirst
    <2>14. CASE Timeout
      BY <2>14 DEF Timeout, DispatchTyped, DispatchTypeOK, AdmittedIsFirst, Patterns
    <2>15. CASE UNCHANGED dispatchVars
      BY <2>15 DEF dispatchVars, DispatchTyped, DispatchTypeOK, AdmittedIsFirst
    <2> QED
      BY <2>1, <2>2, <2>3, <2>4, <2>5, <2>6, <2>7, <2>8, <2>9, <2>10, <2>11, <2>12,
         <2>13, <2>14, <2>15 DEF DispatchNext
  <1> QED
    BY <1>1, <1>2, PTL DEF DispatchSpec

\* The state of the orchestrator, the workers and a pattern stays within its
\* types, and no task is evicted more often than the limit (orchestrator.go,
\* worker.go, patterns/).
THEOREM DispatchTypeCorrect == DispatchSpec => []DispatchTypeOK
  BY TypesKept, PTL DEF DispatchTyped
\* Whatever orchestrator, workers, reaper and patterns do to a task is a step
\* of the lease or leaves it alone, so they rely on nothing the blackboard does
\* not promise (orchestrator.go, worker.go, sqlite_blackboard.go:526-542).
THEOREM UsesLease == DispatchSpec => LeaseSpec
  <1>1. DispatchInit => LeaseInit
    BY DEF DispatchInit
  <1>2. DispatchTyped /\ [DispatchNext]_dispatchVars => [LeaseNext]_leaseVars
    <2> SUFFICES ASSUME DispatchTyped, [DispatchNext]_dispatchVars
                 PROVE  [LeaseNext]_leaseVars
      OBVIOUS
    <2> USE DEF DispatchTyped
    <2>1. ASSUME NEW t \in Tasks,
                 \/ Publish({t}) \/ TakeAway(t)
                 \/ \E a \in Agents : Acquire(a, t) \/ Settle(a, t)
          PROVE  LeaseNext
      <3>1. {t} \in SUBSET Tasks
        OBVIOUS
      <3> QED
        BY <2>1, <3>1, Zenon DEF LeaseNext
    <2>2. CASE UNCHANGED leaseVars
      BY <2>2
    <2>3. CASE ScanPending \/ Admit \/ SkipTask
      BY <2>2, <2>3 DEF ScanPending, Admit, SkipTask, leaseVars
    <2>4. CASE Assign
      <3>1. PICK a \in Agents : Acquire(a, Head(orch.todo))
        BY <2>4 DEF Assign, FindBestAgent, Candidates, DispatchTypeOK
      <3>2. Head(orch.todo) \in Tasks
        BY <2>4, TodoTypes DEF Assign, AdmittedIsFirst
      <3> QED
        BY <2>1, <3>1, <3>2
    <2>5. ASSUME NEW a \in Agents, Register(a) \/ Leave(a) PROVE [LeaseNext]_leaseVars
      BY <2>2, <2>5 DEF Register, Leave, leaseVars
    <2>6. ASSUME NEW a \in Agents, ReceivePush(a) PROVE [LeaseNext]_leaseVars
      <3>1. Head(pushed[a]) \in Tasks
        BY <2>6 DEF ReceivePush, DispatchTypeOK
      <3>2. Acquire(a, Head(pushed[a])) \/ UNCHANGED leaseVars
        BY <2>6 DEF ReceivePush, leaseVars
      <3> QED
        BY <2>1, <2>2, <3>1, <3>2
    <2>7. ASSUME NEW a \in Agents, ReceivePosted(a) PROVE [LeaseNext]_leaseVars
      BY <2>1, <2>7 DEF ReceivePosted
    <2>8. ASSUME NEW a \in Agents, Finish(a) PROVE [LeaseNext]_leaseVars
      <3>1. worker[a] \in Tasks
        BY <2>8 DEF Finish, DispatchTypeOK
      <3>2. Settle(a, worker[a]) \/ UNCHANGED leaseVars
        BY <2>8 DEF Finish, leaseVars
      <3> QED
        BY <2>1, <2>2, <3>1, <3>2
    <2>9. ASSUME NEW t \in Tasks, Evict(t) PROVE [LeaseNext]_leaseVars
      BY <2>1, <2>9 DEF Evict
    <2>10. CASE PostOne \/ PostAll
      <3>1. /\ SubTasks[pattern.next] \in Tasks
            /\ Publish({SubTasks[pattern.next]})
        BY <2>10, NextTask DEF PostOne, PostAll
      <3> QED
        BY <2>1, <3>1
    <2>11. CASE SubscribeLate \/ Hear \/ Timeout
      BY <2>2, <2>11 DEF SubscribeLate, Hear, Timeout, leaseVars
    <2>12. CASE UNCHANGED dispatchVars
      BY <2>2, <2>12 DEF dispatchVars, leaseVars
    <2> QED
      BY <2>3, <2>4, <2>5, <2>6, <2>7, <2>8, <2>9, <2>10, <2>11, <2>12 DEF DispatchNext
  <1> QED
    BY <1>1, <1>2, TypesKept, PTL DEF DispatchSpec, LeaseSpec

-----------------------------------------------------------------------------
(* Outcomes *)

\* An outcome stays what it is.
OutcomesStay == \A t \in Tasks : result[t] # "none" => result'[t] = result[t]

\* The tasks on the blackboard are the same.
BoardSame == \A t \in Tasks : phase'[t] = "absent" <=> phase[t] = "absent"

\* Steps on a lease other than posting leave the tasks where they are, and
\* only settling and the last eviction close one.
LEMMA LeaseSteps ==
    ASSUME DispatchTypeOK, NEW t \in Tasks,
           TakeAway(t) \/ \E a \in Agents : Acquire(a, t) \/ Settle(a, t)
    PROVE  /\ BoardSame
           /\ \A u \in Tasks \ {t} : phase'[u] = phase[u]
           /\ phase[t] # "closed"
           /\ (\E a \in Agents : Acquire(a, t)) => phase'[t] = "held"
           /\ (\E a \in Agents : Settle(a, t)) => phase'[t] = "closed"
  <1>1. CASE TakeAway(t)
    BY <1>1 DEF DispatchTypeOK, TakeAway, BoardSame, Acquire, Settle
  <1>2. CASE \E a \in Agents : Acquire(a, t)
    BY <1>2 DEF DispatchTypeOK, BoardSame, Acquire, Settle
  <1>3. CASE \E a \in Agents : Settle(a, t)
    BY <1>3 DEF DispatchTypeOK, BoardSame, Acquire, Settle
  <1> QED
    BY <1>1, <1>2, <1>3

\* No step changes an outcome, and the tasks with an outcome are the closed ones.
LEMMA OutcomesKept ==
    ASSUME DispatchTyped, Outcomes, [DispatchNext]_dispatchVars
    PROVE  Outcomes' /\ OutcomesStay
  <1> USE DispatchAssumption, SubTaskTypes DEF Outcomes, OutcomesStay, DispatchTyped
  <1>1. ASSUME UNCHANGED <<phase, result>> PROVE Outcomes' /\ OutcomesStay
    BY <1>1
  <1>2. ASSUME NEW a \in Agents, NEW t \in Tasks, Acquire(a, t), UNCHANGED result
        PROVE  Outcomes' /\ OutcomesStay
    BY <1>2 DEF Acquire, DispatchTypeOK
  <1>3. ASSUME NEW t \in Tasks, Publish({t}), UNCHANGED result
        PROVE  Outcomes' /\ OutcomesStay
    BY <1>3 DEF Publish, DispatchTypeOK
  <1>4. CASE ScanPending \/ Admit \/ SkipTask
    BY <1>1, <1>4 DEF ScanPending, Admit, SkipTask
  <1>5. CASE Assign
    <2>1. PICK a \in Agents : Acquire(a, Head(orch.todo))
      BY <1>5 DEF Assign, FindBestAgent, Candidates, DispatchTypeOK
    <2>2. Head(orch.todo) \in Tasks
      BY <1>5, TodoTypes DEF Assign, AdmittedIsFirst
    <2> QED
      BY <1>2, <1>5, <2>1, <2>2 DEF Assign
  <1>6. ASSUME NEW a \in Agents, Register(a) \/ Leave(a)
        PROVE  Outcomes' /\ OutcomesStay
    BY <1>1, <1>6 DEF Register, Leave
  <1>7. ASSUME NEW a \in Agents, ReceivePush(a)
        PROVE  Outcomes' /\ OutcomesStay
    <2>1. Head(pushed[a]) \in Tasks
      BY <1>7 DEF ReceivePush, DispatchTypeOK
    <2> QED
      BY <1>1, <1>2, <1>7, <2>1 DEF ReceivePush
  <1>8. ASSUME NEW a \in Agents, ReceivePosted(a)
        PROVE  Outcomes' /\ OutcomesStay
    BY <1>2, <1>8 DEF ReceivePosted
  <1>9. ASSUME NEW a \in Agents, Finish(a)
        PROVE  Outcomes' /\ OutcomesStay
    <2>1. worker[a] \in Tasks
      BY <1>9 DEF Finish, DispatchTypeOK
    <2>2. CASE UNCHANGED <<phase, holder, evictions, result, pattern>>
      BY <1>1, <2>2
    <2>3. CASE /\ Settle(a, worker[a])
               /\ \E how \in {"completed", "failed"} :
                     /\ result' = [result EXCEPT ![worker[a]] =
                                      IF how = "completed" THEN "done" ELSE "failed"]
                     /\ pattern' \in Told(pattern, how, worker[a])
      BY <2>1, <2>3 DEF Settle, DispatchTypeOK
    <2> QED
      BY <1>9, <2>2, <2>3 DEF Finish
  <1>10. ASSUME NEW t \in Tasks, Evict(t)
         PROVE  Outcomes' /\ OutcomesStay
    <2>1. CASE phase'[t] = "closed"
      BY <1>10, <2>1 DEF Evict, TakeAway, DispatchTypeOK
    <2>2. CASE phase'[t] # "closed"
      BY <1>10, <2>2 DEF Evict, TakeAway, DispatchTypeOK
    <2> QED
      BY <2>1, <2>2
  <1>11. CASE PostOne
    BY <1>3, <1>11, NextTask DEF PostOne
  <1>12. CASE PostAll
    BY <1>3, <1>12, NextTask DEF PostAll
  <1>13. CASE SubscribeLate \/ Hear \/ Timeout
    BY <1>1, <1>13 DEF SubscribeLate, Hear, Timeout
  <1>14. CASE UNCHANGED dispatchVars
    BY <1>1, <1>14 DEF dispatchVars
  <1> QED
    BY <1>4, <1>5, <1>6, <1>7, <1>8, <1>9, <1>10, <1>11, <1>12, <1>13, <1>14
       DEF DispatchNext

-----------------------------------------------------------------------------
(* What the pattern knows *)

\* News is of tasks.
LEMMA NewsTasks ==
    ASSUME DispatchTypeOK
    PROVE  \A i \in DOMAIN pattern.events : pattern.events[i].task \in Tasks
  <1>1. \A i \in DOMAIN pattern.events : pattern.events[i] \in Events
    BY DEF DispatchTypeOK, Patterns
  <1>2. \A e \in Events : e.task \in Tasks
    BY DEF Events
  <1> QED
    BY <1>1, <1>2

\* News that is in the channel stays true.
LEMMA NewsStays ==
    ASSUME DispatchTypeOK, NewsIsTrue, OutcomesStay,
           UNCHANGED pattern
    PROVE  NewsIsTrue'
  BY NewsTasks DEF NewsIsTrue, OutcomesStay

\* So does the news of a task that is settled, if it reaches the channel.
LEMMA NewsComes ==
    ASSUME DispatchTypeOK, NewsIsTrue, OutcomesStay,
           NEW how \in {"completed", "failed"}, NEW t \in Tasks,
           how = "completed" => result'[t] = "done",
           \/ pattern'.events = pattern.events
           \/ pattern'.events = Append(pattern.events, [type |-> how, task |-> t])
    PROVE  NewsIsTrue'
  <1> DEFINE e == [type |-> how, task |-> t]
  <1>1. CASE pattern'.events = pattern.events
    BY <1>1, NewsTasks DEF NewsIsTrue, OutcomesStay
  <1>2. CASE pattern'.events = Append(pattern.events, e)
    <2>1. pattern.events \in Seq(Events) /\ e.type = how /\ e.task = t
      BY DEF DispatchTypeOK, Patterns
    <2> HIDE DEF e
    <2>2. /\ DOMAIN pattern'.events = DOMAIN pattern.events \cup {Len(pattern.events) + 1}
          /\ pattern'.events[Len(pattern.events) + 1] = e
          /\ \A i \in DOMAIN pattern.events : pattern'.events[i] = pattern.events[i]
      BY <1>2, <2>1
    <2> QED
      BY <2>1, <2>2, NewsTasks DEF NewsIsTrue, OutcomesStay
  <1> QED
    BY <1>1, <1>2

\* What goes on elsewhere leaves the pattern's account of its tasks right.
LEMMA PatternUndisturbed ==
    ASSUME DispatchTypeOK, PatternInv, OutcomesStay, BoardSame,
           pattern'.kind = pattern.kind, pattern'.st = pattern.st,
           pattern'.next = pattern.next, pattern'.pending = pattern.pending
    PROVE  OnBoard' /\ Accounted' /\ InTurn' /\ Finished'
  <1> USE SubTaskTypes DEF PatternInv, Posted
  <1>1. OnBoard'
    BY DEF OnBoard, BoardSame
  <1>2. \A i \in DOMAIN SubTasks :
           result[SubTasks[i]] = "done" => result'[SubTasks[i]] = "done"
    BY DEF OutcomesStay
  <1>3. Accounted'
    BY <1>2 DEF Accounted
  <1>4. InTurn'
    BY <1>2 DEF InTurn
  <1>5. Finished'
    BY DEF Finished
  <1> QED
    BY <1>1, <1>3, <1>4, <1>5

\* The pattern's own steps.
LEMMA PostOneKept ==
    ASSUME DispatchTypeOK, PatternInv, OutcomesStay, PostOne
    PROVE  NewsIsTrue' /\ OnBoard' /\ Accounted' /\ InTurn' /\ Finished'
  <1> DEFINE n == pattern.next
  <1> USE SubTaskTypes, DispatchAssumption
  <1>1. /\ n \in DOMAIN SubTasks /\ SubTasks[n] \in Tasks
        /\ pattern.kind = "sequential" /\ pattern.st = "posting"
        /\ UNCHANGED result
        /\ n \in Int
    BY NextTask DEF PostOne, DispatchTypeOK, Patterns
  <1>2. /\ pattern'.kind = pattern.kind /\ pattern'.st = "waiting"
        /\ pattern'.next = n /\ pattern'.pending = {SubTasks[n]}
        /\ pattern'.events = pattern.events
    <2>1. PICK S \in SUBSET Tasks : S = {SubTasks[n]}
      BY <1>1
    <2>2. pattern' = [pattern EXCEPT !.st = "waiting", !.pending = S]
      BY <2>1 DEF PostOne
    <2> QED
      BY <2>1, <2>2 DEF DispatchTypeOK, Patterns
  <1>3. \A t \in Tasks :
           phase'[t] # "absent" <=> phase[t] # "absent" \/ t = SubTasks[n]
    BY <1>1 DEF PostOne, Publish
  <1>4. NewsIsTrue'
    BY <1>1, <1>2 DEF PatternInv, NewsIsTrue
  <1>5. \A i \in DOMAIN SubTasks : Posted(i)' <=> Posted(i) \/ i = n
    BY <1>1, <1>2 DEF Posted
  <1>6. OnBoard'
    BY <1>1, <1>3, <1>5 DEF PatternInv, OnBoard
  <1>7. Accounted'
    BY <1>1, <1>2, <1>5 DEF PatternInv, Accounted, InTurn
  <1>8. InTurn'
    BY <1>1, <1>2 DEF PatternInv, InTurn
  <1>9. Finished'
    BY <1>1, <1>2 DEF Finished
  <1> QED
    BY <1>4, <1>6, <1>7, <1>8, <1>9

LEMMA PostAllKept ==
    ASSUME DispatchTypeOK, PatternInv, OutcomesStay, PostAll
    PROVE  NewsIsTrue' /\ OnBoard' /\ Accounted' /\ InTurn' /\ Finished'
  <1> DEFINE n == pattern.next
  <1> USE SubTaskTypes, DispatchAssumption
  <1>1. /\ n \in DOMAIN SubTasks /\ SubTasks[n] \in Tasks
        /\ pattern.kind # "sequential" /\ pattern.st = "posting"
        /\ UNCHANGED result
        /\ n \in Int
    BY NextTask DEF PostAll, DispatchTypeOK, Patterns
  <1>2. /\ pattern'.kind = pattern.kind
        /\ pattern'.st \in {"posting", "waiting"}
        /\ pattern'.st = "waiting" => n = Len(SubTasks)
        /\ pattern'.next = n + 1
        /\ pattern'.pending = pattern.pending \cup {SubTasks[n]}
        /\ pattern'.events = pattern.events
    <2>1. PICK S \in SUBSET Tasks : S = pattern.pending \cup {SubTasks[n]}
      BY <1>1 DEF DispatchTypeOK, Patterns
    <2>2. PICK st \in {"posting", "waiting"} :
             st = IF n = Len(SubTasks) THEN "waiting" ELSE "posting"
      OBVIOUS
    <2>3. PICK m \in 1 .. Len(SubTasks) + 1 : m = n + 1
      BY <1>1
    <2>4. pattern' = [pattern EXCEPT !.next = m, !.st = st, !.pending = S]
      BY <2>1, <2>2, <2>3 DEF PostAll
    <2> QED
      BY <2>1, <2>2, <2>3, <2>4 DEF DispatchTypeOK, Patterns
  <1>3. \A t \in Tasks :
           phase'[t] # "absent" <=> phase[t] # "absent" \/ t = SubTasks[n]
    BY <1>1 DEF PostAll, Publish
  <1>4. NewsIsTrue'
    BY <1>1, <1>2 DEF PatternInv, NewsIsTrue
  <1>5. \A i \in DOMAIN SubTasks : Posted(i)' <=> Posted(i) \/ i = n
    BY <1>1, <1>2 DEF Posted
  <1>6. OnBoard'
    BY <1>1, <1>3, <1>5 DEF PatternInv, OnBoard
  <1>7. Accounted'
    BY <1>1, <1>2, <1>5 DEF PatternInv, Accounted
  <1>8. InTurn'
    BY <1>1, <1>2 DEF InTurn
  <1>9. Finished'
    BY <1>1, <1>2 DEF Finished
  <1> QED
    BY <1>4, <1>6, <1>7, <1>8, <1>9

LEMMA HearKept ==
    ASSUME DispatchTypeOK, PatternInv, Hear
    PROVE  NewsIsTrue' /\ OnBoard' /\ Accounted' /\ InTurn' /\ Finished'
  <1> DEFINE e == pattern.events[1]
  <1> USE SubTaskTypes
  <1>1. UNCHANGED <<phase, result>>
    BY DEF Hear
  <1>2. /\ 1 \in DOMAIN pattern.events
        /\ pattern'.kind = pattern.kind
        /\ pattern'.events = Tail(pattern.events)
        /\ pattern.st = "waiting"
        /\ \/ pattern'.pending = pattern.pending
           \/ /\ e.type = "completed"
              /\ pattern'.pending = pattern.pending \ {e.task}
        /\ \/ pattern'.st = "waiting" /\ pattern'.next = pattern.next
           \/ pattern'.st = "failed" /\ pattern'.next = pattern.next
           \/ /\ pattern'.st = "posting" /\ pattern'.next = pattern.next + 1
              /\ pattern.kind = "sequential"
              /\ pattern'.pending = {}
           \/ /\ pattern'.st = "ok" /\ pattern'.next = pattern.next
              /\ pattern.kind = "sequential" => pattern.next >= Len(SubTasks)
              /\ pattern'.pending = {}
    BY HearFields
  <1>3. pattern.next \in Int /\ pattern.events \in Seq(Events)
    BY DEF DispatchTypeOK, Patterns
  <1>4. NewsIsTrue'
    <2>1. \A i \in DOMAIN Tail(pattern.events) :
             i + 1 \in DOMAIN pattern.events
             /\ Tail(pattern.events)[i] = pattern.events[i + 1]
      BY <1>2, <1>3
    <2> QED
      BY <1>1, <1>2, <2>1 DEF PatternInv, NewsIsTrue
  <1>5. \A i \in DOMAIN SubTasks : Posted(i)' <=> Posted(i)
    BY <1>2, <1>3 DEF Posted
  <1>6. OnBoard'
    BY <1>1, <1>5 DEF PatternInv, OnBoard
  <1>7. \A i \in DOMAIN SubTasks :
           Posted(i) => SubTasks[i] \in pattern'.pending \/ result[SubTasks[i]] = "done"
    <2>1. e.type = "completed" => result[e.task] = "done"
      BY <1>2 DEF PatternInv, NewsIsTrue
    <2> QED
      BY <1>2, <2>1 DEF PatternInv, Accounted
  <1>8. Accounted'
    BY <1>1, <1>5, <1>7 DEF Accounted
  <1>9. InTurn'
    <2>1. CASE pattern'.next = pattern.next /\ pattern'.st # "posting"
      BY <1>1, <1>2, <2>1 DEF PatternInv, InTurn
    <2>2. CASE /\ pattern'.next = pattern.next + 1 /\ pattern.kind = "sequential"
               /\ pattern'.pending = {}
      <3>1. \A i \in DOMAIN SubTasks : i < pattern.next + 1 => Posted(i)
        BY <1>2, <1>3, <2>2 DEF Posted
      <3>2. \A i \in DOMAIN SubTasks :
               i < pattern.next + 1 => result[SubTasks[i]] = "done"
        BY <1>7, <2>2, <3>1
      <3> QED
        BY <1>1, <1>2, <2>2, <3>2 DEF InTurn
    <2> QED
      BY <1>2, <2>1, <2>2
  <1>10. Finished'
    <2>1. CASE pattern'.st = "ok"
      <3>1. \A i \in DOMAIN SubTasks : Posted(i)
        BY <1>2, <1>3, <2>1 DEF PatternInv, Finished, Posted
      <3> QED
        BY <1>2, <1>5, <2>1, <3>1 DEF Finished
    <2>2. CASE pattern'.st # "ok"
      BY <1>2, <2>2 DEF PatternInv, Finished
    <2> QED
      BY <2>1, <2>2
  <1> QED
    BY <1>4, <1>6, <1>8, <1>9, <1>10

\* The invariant: the pattern's account of its tasks is right.
LEMMA PatternInvKept == DispatchSpec => []PatternInv
  <1>1. DispatchInit => PatternInv
    <2> SUFFICES ASSUME DispatchInit PROVE PatternInv
      OBVIOUS
    <2> USE SubTaskTypes DEF DispatchInit, LeaseInit
    <2>1. Outcomes
      BY DEF Outcomes
    <2>2. /\ pattern.kind \in Kinds /\ pattern.next = 1 /\ pattern.pending = {}
          /\ pattern.events = <<>>
          /\ pattern.st = IF SubTasks = <<>> THEN "ok" ELSE "posting"
      OBVIOUS
    <2>3. SubTasks = <<>> => DOMAIN SubTasks = {}
      BY DispatchAssumption
    <2>4. \A i \in DOMAIN SubTasks : ~Posted(i)
      BY <2>2, <2>3 DEF Posted
    <2>5. NewsIsTrue
      BY <2>2 DEF NewsIsTrue
    <2>6. OnBoard /\ Accounted
      BY <2>4 DEF OnBoard, Accounted
    <2>7. InTurn /\ Finished
      BY <2>2, <2>3 DEF InTurn, Finished
    <2> QED
      BY <2>1, <2>5, <2>6, <2>7 DEF PatternInv
  <1>2. DispatchTyped /\ PatternInv /\ [DispatchNext]_dispatchVars => PatternInv'
    <2> SUFFICES ASSUME DispatchTyped, PatternInv, [DispatchNext]_dispatchVars
                 PROVE  PatternInv'
      OBVIOUS
    <2>1. DispatchTypeOK /\ AdmittedIsFirst
      BY DEF DispatchTyped
    <2>2. Outcomes' /\ OutcomesStay
      BY OutcomesKept DEF PatternInv
    <2>3. ASSUME UNCHANGED pattern, BoardSame PROVE PatternInv'
      <3>1. NewsIsTrue'
        BY <2>1, <2>2, <2>3, NewsStays DEF PatternInv
      <3> QED
        BY <2>1, <2>2, <2>3, <3>1, PatternUndisturbed DEF PatternInv
    <2>4. ASSUME NEW t \in Tasks, UNCHANGED pattern,
                 TakeAway(t) \/ \E a \in Agents : Acquire(a, t) \/ Settle(a, t)
          PROVE  PatternInv'
      BY <2>1, <2>3, <2>4, LeaseSteps
    <2>5. ASSUME UNCHANGED <<pattern, phase>> PROVE PatternInv'
      BY <2>3, <2>5 DEF BoardSame
    <2>6. CASE ScanPending \/ Admit \/ SkipTask
      BY <2>5, <2>6 DEF ScanPending, Admit, SkipTask
    <2>7. CASE Assign
      <3>1. PICK a \in Agents : Acquire(a, Head(orch.todo))
        BY <2>1, <2>7 DEF Assign, FindBestAgent, Candidates, DispatchTypeOK
      <3>2. Head(orch.todo) \in Tasks
        BY <2>1, <2>7, TodoTypes DEF Assign, AdmittedIsFirst
      <3> QED
        BY <2>4, <2>7, <3>1, <3>2 DEF Assign
    <2>8. ASSUME NEW a \in Agents, Register(a) \/ Leave(a) PROVE PatternInv'
      BY <2>5, <2>8 DEF Register, Leave
    <2>9. ASSUME NEW a \in Agents, ReceivePush(a) PROVE PatternInv'
      <3>1. Head(pushed[a]) \in Tasks
        BY <2>1, <2>9 DEF ReceivePush, DispatchTypeOK
      <3> QED
        BY <2>4, <2>5, <2>9, <3>1 DEF ReceivePush
    <2>10. ASSUME NEW a \in Agents, ReceivePosted(a) PROVE PatternInv'
      BY <2>4, <2>10 DEF ReceivePosted
    <2>11. ASSUME NEW a \in Agents, Finish(a) PROVE PatternInv'
      <3>1. CASE UNCHANGED <<phase, holder, evictions, result, pattern>>
        BY <2>5, <3>1
      <3>2. ASSUME NEW how \in {"completed", "failed"}, Settle(a, worker[a]),
                   result' = [result EXCEPT ![worker[a]] =
                                IF how = "completed" THEN "done" ELSE "failed"],
                   pattern' \in Told(pattern, how, worker[a])
            PROVE  PatternInv'
        <4>1. worker[a] \in Tasks /\ pattern \in Patterns
          BY <2>1, <2>11 DEF Finish, DispatchTypeOK
        <4>2. how = "completed" => result'[worker[a]] = "done"
          BY <2>1, <3>2, <4>1 DEF DispatchTypeOK
        <4>3. /\ pattern'.kind = pattern.kind /\ pattern'.st = pattern.st
              /\ pattern'.next = pattern.next /\ pattern'.pending = pattern.pending
              /\ \/ pattern'.events = pattern.events
                 \/ pattern'.events =
                       Append(pattern.events, [type |-> how, task |-> worker[a]])
          BY <3>2, <4>1, ToldFields
        <4>4. NewsIsTrue'
          BY <2>1, <2>2, <4>1, <4>2, <4>3, NewsComes DEF PatternInv
        <4>5. BoardSame
          BY <2>1, <3>2, <4>1, LeaseSteps
        <4> QED
          BY <2>1, <2>2, <4>3, <4>4, <4>5, PatternUndisturbed DEF PatternInv
      <3> QED
        BY <2>11, <3>1, <3>2 DEF Finish
    <2>12. ASSUME NEW t \in Tasks, Evict(t) PROVE PatternInv'
      BY <2>4, <2>12 DEF Evict
    <2>13. CASE PostOne
      BY <2>1, <2>2, <2>13, PostOneKept DEF PatternInv
    <2>14. CASE PostAll
      BY <2>1, <2>2, <2>14, PostAllKept DEF PatternInv
    <2>15. CASE Hear
      BY <2>1, <2>2, <2>15, HearKept DEF PatternInv
    <2>16. CASE SubscribeLate
      <3>1. /\ pattern'.kind = pattern.kind /\ pattern'.st = pattern.st
            /\ pattern'.next = pattern.next /\ pattern'.pending = pattern.pending
            /\ pattern'.events = <<>> /\ BoardSame
        <4>1. PICK s : s = <<>>
          OBVIOUS
        <4>2. pattern' = [pattern EXCEPT !.listening = TRUE, !.events = s]
          BY <2>16, <4>1 DEF SubscribeLate
        <4> QED
          BY <2>1, <2>16, <4>1, <4>2 DEF SubscribeLate, DispatchTypeOK, Patterns, BoardSame
      <3>2. NewsIsTrue'
        BY <3>1 DEF NewsIsTrue
      <3> QED
        BY <2>1, <2>2, <3>1, <3>2, PatternUndisturbed DEF PatternInv
    <2>17. CASE Timeout
      <3>1. /\ pattern'.kind = pattern.kind /\ pattern.st = "waiting"
            /\ pattern'.st = "timeout" /\ pattern'.next = pattern.next
            /\ pattern'.pending = pattern.pending /\ pattern'.events = pattern.events
            /\ UNCHANGED <<phase, result>>
        BY <2>1, <2>17 DEF Timeout, DispatchTypeOK, Patterns
      <3>2. \A i \in DOMAIN SubTasks : Posted(i)' <=> Posted(i)
        BY <3>1 DEF Posted
      <3> QED
        BY <2>2, <3>1, <3>2
           DEF PatternInv, NewsIsTrue, OnBoard, Accounted, InTurn, Finished
    <2>18. CASE UNCHANGED dispatchVars
      BY <2>5, <2>18 DEF dispatchVars
    <2> QED
      BY <2>6, <2>7, <2>8, <2>9, <2>10, <2>11, <2>12, <2>13, <2>14, <2>15, <2>16,
         <2>17, <2>18 DEF DispatchNext
  <1> QED
    BY <1>1, <1>2, TypesKept, PTL DEF DispatchSpec

\* A pattern that reports success has all its tasks done, and the sequential
\* one posts no task before the one in front of it is done (sequential.go:30-69,
\* parallel.go:26-75, mapreduce.go:33-90), whatever events it missed.
THEOREM PatternsAreSound == DispatchSpec => []PatternSound
  <1>1. DispatchTyped /\ PatternInv => PatternSound
    <2> SUFFICES ASSUME DispatchTyped, PatternInv PROVE PatternSound
      OBVIOUS
    <2>1. ASSUME pattern.st = "ok", NEW i \in DOMAIN SubTasks
          PROVE  result[SubTasks[i]] = "done"
      BY <2>1 DEF PatternInv, Finished, Accounted
    <2>2. ASSUME pattern.kind = "sequential", NEW i \in 2 .. Len(SubTasks),
                 phase[SubTasks[i]] # "absent"
          PROVE  result[SubTasks[i - 1]] = "done"
      <3>1. i \in DOMAIN SubTasks /\ i - 1 \in DOMAIN SubTasks /\ pattern.next \in Int
        BY SubTaskTypes DEF DispatchTyped, DispatchTypeOK, Patterns
      <3>2. i - 1 < pattern.next
        BY <2>2, <3>1 DEF PatternInv, OnBoard, Posted
      <3> QED
        BY <2>2, <3>1, <3>2 DEF PatternInv, InTurn
    <2> QED
      BY <2>1, <2>2 DEF PatternSound
  <1> QED
    BY <1>1, TypesKept, PatternInvKept, PTL

\* A task is settled once: neither a worker that lost it, nor the reaper, nor
\* another worker changes an outcome (worker.go:97-141,
\* sqlite_blackboard.go:526-542).
THEOREM OutcomesAreFinal == DispatchSpec => [][OutcomesStay]_dispatchVars
  <1>1. DispatchTyped /\ PatternInv /\ [DispatchNext]_dispatchVars
           => [OutcomesStay]_dispatchVars
    BY OutcomesKept DEF PatternInv
  <1> QED
    BY <1>1, TypesKept, PatternInvKept, PTL DEF DispatchSpec
-----------------------------------------------------------------------------
(***************************************************************************)
(* Executions without the task.  An agent starts to execute with a claim,  *)
(* of an open task that nobody holds, so nobody becomes a stray by it;     *)
(* only an eviction makes one, of the holder.                              *)
(***************************************************************************)
StraysFew ==
    \A t \in Tasks : IsFiniteSet(Strays(t)) /\ Cardinality(Strays(t)) <= evictions[t]

\* Fewer strays, or one more for an eviction more.
LEMMA FewerStrays ==
    ASSUME DispatchTypeOK, NEW t \in Tasks, IsFiniteSet(Strays(t)),
           Cardinality(Strays(t)) <= evictions[t],
           \/ Strays(t)' \subseteq Strays(t) /\ evictions'[t] = evictions[t]
           \/ /\ evictions'[t] = evictions[t] + 1
              /\ \E a : Strays(t)' \subseteq Strays(t) \cup {a}
    PROVE  IsFiniteSet(Strays(t)') /\ Cardinality(Strays(t)') <= evictions'[t]
<1>. HIDE DEF Strays
<1>1. evictions[t] \in Nat /\ Cardinality(Strays(t)) \in Nat
  <2>1. evictions[t] \in 0 .. ToxicityLimit /\ ToxicityLimit \in Nat
    BY DispatchAssumption DEF DispatchTypeOK
  <2>2. Cardinality(Strays(t)) \in Nat
    BY FS_CardinalityType
  <2>. QED BY <2>1, <2>2
<1>2. CASE Strays(t)' \subseteq Strays(t) /\ evictions'[t] = evictions[t]
  <2>1. /\ IsFiniteSet(Strays(t)')
        /\ Cardinality(Strays(t)') <= Cardinality(Strays(t))
        /\ Cardinality(Strays(t)') \in Nat
    BY <1>2, FS_Subset, FS_CardinalityType
  <2>. QED BY <1>1, <1>2, <2>1
<1>3. ASSUME NEW a, Strays(t)' \subseteq Strays(t) \cup {a}, evictions'[t] = evictions[t] + 1
      PROVE  IsFiniteSet(Strays(t)') /\ Cardinality(Strays(t)') <= evictions'[t]
  <2>1. /\ IsFiniteSet(Strays(t) \cup {a})
        /\ Cardinality(Strays(t) \cup {a}) \in {Cardinality(Strays(t)), Cardinality(Strays(t)) + 1}
    BY FS_AddElement
  <2>2. /\ IsFiniteSet(Strays(t)')
        /\ Cardinality(Strays(t)') <= Cardinality(Strays(t) \cup {a})
        /\ Cardinality(Strays(t)') \in Nat
    BY <1>3, <2>1, FS_Subset, FS_CardinalityType
  <2>. QED BY <1>1, <1>3, <2>1, <2>2
<1>. QED BY <1>2, <1>3

\* Strays are as many as they were when neither the leases nor the loops change.
LEMMA SameStrays ==
    ASSUME StraysFew, UNCHANGED <<phase, holder, evictions, worker>>
    PROVE  StraysFew'
  BY DEF StraysFew, Strays

\* Whoever claims a task was no holder of it before, nor was anybody.
LEMMA ClaimMakesNone ==
    ASSUME DispatchTypeOK, StraysFew, NEW a \in Agents, NEW u \in Tasks, Acquire(a, u),
           worker' = worker \/ worker' = [worker EXCEPT ![a] = u]
    PROVE  StraysFew'
<1>1. ASSUME NEW t \in Tasks
      PROVE  Strays(t)' \subseteq Strays(t) /\ evictions'[t] = evictions[t]
  <2>1. /\ phase[u] = "open" /\ evictions' = evictions
        /\ \A v \in Tasks \ {u} : phase'[v] = phase[v] /\ holder'[v] = holder[v]
        /\ phase'[u] = "held" /\ holder'[u] = a
    BY DEF Acquire, DispatchTypeOK
  <2>2. \A b \in Agents \ {a} : worker'[b] = worker[b]
    BY DEF DispatchTypeOK
  <2>3. worker'[a] \in {worker[a], u}
    BY DEF DispatchTypeOK
  <2>. QED BY <2>1, <2>2, <2>3 DEF Strays
<1>. QED BY <1>1, FewerStrays DEF StraysFew

LEMMA StraysFewKept == DispatchSpec => []StraysFew
<1>1. DispatchInit => StraysFew
  <2> SUFFICES ASSUME DispatchInit, NEW t \in Tasks
               PROVE  IsFiniteSet(Strays(t)) /\ Cardinality(Strays(t)) <= evictions[t]
    BY DEF StraysFew
  <2>1. Strays(t) = {}
    BY DispatchAssumption, IdleAssumption DEF DispatchInit, Strays, NoTask
  <2>2. evictions[t] = 0
    BY DEF DispatchInit, LeaseInit
  <2>. QED BY <2>1, <2>2, FS_EmptySet
<1>2. DispatchTyped /\ StraysFew /\ [DispatchNext]_dispatchVars => StraysFew'
  <2> SUFFICES ASSUME DispatchTypeOK, AdmittedIsFirst, StraysFew,
                      [DispatchNext]_dispatchVars
               PROVE  StraysFew'
    BY DEF DispatchTyped
  <2>1. CASE \/ ScanPending \/ Admit \/ SkipTask \/ SubscribeLate \/ Hear \/ Timeout
             \/ \E a \in Agents : Register(a) \/ Leave(a)
             \/ UNCHANGED dispatchVars
    BY <2>1, SameStrays
       DEF ScanPending, Admit, SkipTask, SubscribeLate, Hear, Timeout, Register, Leave,
           dispatchVars
  <2>2. CASE Assign
    <3>1. Head(orch.todo) \in Tasks /\ UNCHANGED worker
      <4>1. orch.todo \in Seq(Tasks) /\ orch.todo # <<>>
        BY <2>2 DEF Assign, DispatchTypeOK, AdmittedIsFirst
      <4>2. Head(orch.todo) \in Tasks
        BY <4>1
      <4>. QED BY <2>2, <4>2 DEF Assign
    <3>2. PICK a \in Agents : Acquire(a, Head(orch.todo))
      <4>1. PICK a \in FindBestAgent(Head(orch.todo)) : Acquire(a, Head(orch.todo))
        BY <2>2 DEF Assign
      <4>2. Capable[Head(orch.todo)] \subseteq Agents
        BY <3>1, DispatchAssumption, IdleAssumption
      <4>3. a \in Agents
        BY <4>1, <4>2 DEF FindBestAgent, Candidates
      <4>. QED BY <4>1, <4>3
    <3>. QED BY <3>1, <3>2, ClaimMakesNone
  <2>3. ASSUME NEW a \in Agents, ReceivePush(a) PROVE StraysFew'
    <3>1. CASE UNCHANGED <<phase, holder, evictions, worker>>
      BY <3>1, SameStrays
    <3>2. CASE Acquire(a, Head(pushed[a])) /\ worker' = [worker EXCEPT ![a] = Head(pushed[a])]
      <4>1. pushed[a] \in Seq(Tasks) /\ pushed[a] # <<>>
        BY <2>3 DEF ReceivePush, DispatchTypeOK
      <4>2. Head(pushed[a]) \in Tasks
        BY <4>1
      <4>. QED BY <3>2, <4>2, ClaimMakesNone
    <3>. QED BY <2>3, <3>1, <3>2 DEF ReceivePush
  <2>4. ASSUME NEW a \in Agents, ReceivePosted(a) PROVE StraysFew'
    BY <2>4, ClaimMakesNone DEF ReceivePosted
  <2>5. ASSUME NEW a \in Agents, Finish(a) PROVE StraysFew'
    <3>1. ASSUME NEW t \in Tasks
          PROVE  Strays(t)' \subseteq Strays(t) /\ evictions'[t] = evictions[t]
      <4>1. /\ worker' = [worker EXCEPT ![a] = NoTask] /\ NoTask \notin Tasks
            /\ worker[a] \in Tasks
        BY <2>5, DispatchAssumption, IdleAssumption DEF Finish, NoTask, DispatchTypeOK
      <4>2. worker'[a] # t /\ \A b \in Agents \ {a} : worker'[b] = worker[b]
        BY <4>1 DEF DispatchTypeOK
      <4>3. CASE UNCHANGED <<phase, holder, evictions>>
        BY <4>2, <4>3 DEF Strays
      <4>4. CASE Settle(a, worker[a])
        <5>1. /\ phase[worker[a]] = "held" /\ holder[worker[a]] = a /\ evictions' = evictions
              /\ \A v \in Tasks \ {worker[a]} : phase'[v] = phase[v] /\ holder'[v] = holder[v]
          BY <4>1, <4>4 DEF Settle, DispatchTypeOK
        <5>. QED BY <4>2, <5>1 DEF Strays
      <4>. QED BY <2>5, <4>3, <4>4 DEF Finish
    <3>. QED BY <3>1, FewerStrays DEF StraysFew
  <2>6. ASSUME NEW u \in Tasks, Evict(u) PROVE StraysFew'
    <3>1. /\ phase[u] = "held" /\ evictions'[u] = evictions[u] + 1 /\ worker' = worker
          /\ \A v \in Tasks \ {u} : /\ phase'[v] = phase[v] /\ holder'[v] = holder[v]
                                    /\ evictions'[v] = evictions[v]
      BY <2>6 DEF Evict, TakeAway, DispatchTypeOK
    <3>2. Strays(u)' \subseteq Strays(u) \cup {holder[u]}
      BY <3>1 DEF Strays
    <3>3. \A t \in Tasks \ {u} : Strays(t)' \subseteq Strays(t)
      BY <3>1 DEF Strays
    <3>. QED BY <3>1, <3>2, <3>3, FewerStrays DEF StraysFew
  <2>7. CASE PostOne \/ PostAll
    <3>1. PICK S \in SUBSET Tasks : Publish(S) /\ worker' = worker
      <4>1. pattern.next \in 1 .. Len(SubTasks) + 1 /\ pattern.next <= Len(SubTasks)
        BY <2>7 DEF PostOne, PostAll, DispatchTypeOK, Patterns
      <4>2. SubTasks[pattern.next] \in Tasks
        BY <4>1, SubTaskTypes
      <4>. QED BY <2>7, <4>2 DEF PostOne, PostAll
    <3>2. ASSUME NEW t \in Tasks
          PROVE  Strays(t)' \subseteq Strays(t) /\ evictions'[t] = evictions[t]
      <4>1. /\ phase'[t] = IF t \in S THEN "open" ELSE phase[t]
            /\ t \in S => phase[t] = "absent"
            /\ UNCHANGED <<holder, evictions>>
        BY <3>1 DEF Publish
      <4>. QED BY <3>1, <4>1 DEF Strays
    <3>. QED BY <3>2, FewerStrays DEF StraysFew
  <2>. QED BY <2>1, <2>2, <2>3, <2>4, <2>5, <2>6, <2>7 DEF DispatchNext
<1>. QED BY <1>1, <1>2, TypesKept, PTL DEF DispatchSpec

\* However pushes, posts, claims in an agent's name and evictions interleave, a
\* task is executed by others than its holder at most as often as it was taken
\* from one, for any number of tasks and agents (worker.go:79-100,
\* orchestrator.go:141-158).
THEOREM StraysAlwaysCounted == DispatchSpec => []StraysCounted
<1>1. StraysFew => StraysCounted
  BY DEF StraysFew, StraysCounted
<1>. QED BY <1>1, StraysFewKept, PTL
=============================================================================

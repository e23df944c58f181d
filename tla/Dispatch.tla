------------------------------ MODULE Dispatch ------------------------------
(***************************************************************************)
(* Who works on which task: the orchestrator's dispatch loop with its      *)
(* registry of agents, the workers' listen loops, and an orchestration     *)
(* pattern (sequential, parallel or map-reduce) that posts tasks and waits *)
(* for their events.  They meet on the blackboard, of which this module    *)
(* uses what TaskLease promises; module Blackboard shows that the SQLite   *)
(* blackboard keeps that promise.                                          *)
(*                                                                         *)
(* Subscribers get events through bounded channels and lose what does not  *)
(* fit.  A slow reader can fill a channel at any time, so an event reaches *)
(* a subscriber or not; only the events a subscriber acts on are kept.     *)
(***************************************************************************)
EXTENDS TaskLease, Sequences, FiniteSets

CONSTANTS
    SubTasks,   \* the tasks of the pattern, in the order of its argument
    Capable,    \* Capable[t]: the agents whose skills include the task's type
    TypeColumn, \* has table tasks a column "type" (the tests' have, 007_tasks.sql not)
    MaxAgents,  \* Orchestrator.maxAgents
    PushCap     \* places in Worker.TaskPushChan (10 in the code)

ASSUME DispatchAssumption ==
    /\ SubTasks \in Seq(Tasks)
    /\ \A i, j \in DOMAIN SubTasks : SubTasks[i] = SubTasks[j] => i = j
    /\ Capable \in [Tasks -> SUBSET Agents]
    /\ IsFiniteSet(Tasks)
    /\ MaxAgents \in Nat \ {0} /\ PushCap \in Nat \ {0}
    /\ ToxicityLimit \in Nat \ {0}

ASSUME IdleAssumption == "no task" \notin Tasks

ASSUME ColumnAssumption == TypeColumn \in BOOLEAN

VARIABLES
    result,     \* how a task was settled; "none" while it is not
    registry,   \* AgentRegistry.agents: the status of every agent
    orch,       \* the orchestrator: the tasks it has still to look at, the one
                \* it has admitted
    worker,     \* per agent: what its listen loop works on
    pushed,     \* per agent: TaskPushChan
    pattern     \* the orchestration pattern: kind, progress, events

dispatchVars == <<phase, holder, evictions, result, registry, orch, worker,
                  pushed, pattern>>

NoTask == "no task"

Kinds == {"sequential", "parallel", "mapreduce"}

Events == [type : {"completed", "failed"}, task : Tasks]

\* Its progress: the next task, the posted ones that are not done, whether it
\* has subscribed, and its channel.
Patterns ==
    [kind : Kinds, st : {"posting", "waiting", "ok", "failed", "timeout"},
     next : 1 .. Len(SubTasks) + 1, pending : SUBSET Tasks,
     listening : BOOLEAN, events : Seq(Events)]

DispatchTypeOK ==
    /\ phase \in [Tasks -> {"absent", "open", "held", "closed"}]
    /\ holder \in [Tasks -> Agents \cup {NoAgent}]
    /\ evictions \in [Tasks -> 0 .. ToxicityLimit]
    /\ result \in [Tasks -> {"none", "done", "failed"}]
    /\ registry \subseteq Agents
    /\ orch \in [todo : Seq(Tasks), admitted : BOOLEAN]
    /\ worker \in [Agents -> Tasks \cup {NoTask}]
    /\ pushed \in [Agents -> Seq(Tasks)]
    /\ pattern \in Patterns

\* A pattern without tasks returns at once.
DispatchInit ==
    /\ LeaseInit
    /\ result = [t \in Tasks |-> "none"]
    /\ registry = {}
    /\ orch = [todo |-> <<>>, admitted |-> FALSE]
    /\ worker = [a \in Agents |-> NoTask]
    /\ pushed = [a \in Agents |-> <<>>]
    /\ \E k \in Kinds :
          pattern = [kind |-> k, next |-> 1, pending |-> {}, events |-> <<>>,
                     st |-> IF SubTasks = <<>> THEN "ok" ELSE "posting",
                     listening |-> k # "sequential"]

-----------------------------------------------------------------------------
(* Events *)

\* broadcast of a settled task: the pattern hears it if it has subscribed and
\* its channel has room.
Told(p, type, t) ==
    {p} \cup IF p.listening
             THEN {[p EXCEPT !.events = Append(@, [type |-> type, task |-> t])]}
             ELSE {}

-----------------------------------------------------------------------------
(* AgentRegistry *)

Register(a) ==
    /\ a \notin registry
    /\ registry' = registry \cup {a}
    /\ UNCHANGED <<phase, holder, evictions, result, orch, worker, pushed, pattern>>

\* Unregister, MarkUnreachable: the loop passes the agent over.
Leave(a) ==
    /\ a \in registry
    /\ registry' = registry \ {a}
    /\ UNCHANGED <<phase, holder, evictions, result, orch, worker, pushed, pattern>>

Load(a) == Cardinality({t \in Tasks : phase[t] = "held" /\ holder[t] = a})

\* No attempts are counted, so the score depends on the load alone; loads 0
\* and 1 give the same.
AtLeastOne(n) == IF n = 0 THEN 1 ELSE n

Candidates(t) == Capable[t] \cap registry

FindBestAgent(t) ==
    {a \in Candidates(t) : \A b \in Candidates(t) :
                              AtLeastOne(Load(a)) <= AtLeastOne(Load(b))}

-----------------------------------------------------------------------------
(* Orchestrator.ListenLoop: an event or the ticker starts a dispatch.       *)

Open == {t \in Tasks : phase[t] = "open"}

\* Bug: settled tasks still count.
ActiveEver == Cardinality({t \in Tasks : phase[t] \in {"held", "closed"}})

Active == Cardinality({t \in Tasks : phase[t] = "held"})

\* The SELECT of the pending tasks; priorities put them in any order.  It names
\* the column type, and when there is none the loop returns without a word.
ScanPending ==
    /\ TypeColumn
    /\ orch.todo = <<>>
    /\ Open # {}
    /\ \E s \in [1 .. Cardinality(Open) -> Open] :
          /\ {s[i] : i \in DOMAIN s} = Open
          /\ orch' = [orch EXCEPT !.todo = s]
    /\ UNCHANGED <<phase, holder, evictions, result, registry, worker,
                   pushed, pattern>>

\* The count of active tasks, before each task of the list: at the limit the
\* rest of the list is left for the next time.
Admit ==
    /\ orch.todo # <<>> /\ ~orch.admitted
    /\ orch' = IF Active >= MaxAgents THEN [orch EXCEPT !.todo = <<>>]
               ELSE [orch EXCEPT !.admitted = TRUE]
    /\ UNCHANGED <<phase, holder, evictions, result, registry, worker,
                   pushed, pattern>>

Dispatched == [todo |-> Tail(orch.todo), admitted |-> FALSE]

\* No suitable agent, or the claim fails because the task is taken.
SkipTask ==
    /\ orch.admitted
    /\ FindBestAgent(Head(orch.todo)) = {} \/ phase[Head(orch.todo)] # "open"
    /\ orch' = Dispatched
    /\ UNCHANGED <<phase, holder, evictions, result, registry, worker,
                   pushed, pattern>>

\* A worker whose channel is full is not told.
Push(a, t) ==
    pushed' = IF Len(pushed[a]) < PushCap
              THEN [pushed EXCEPT ![a] = Append(@, t)] ELSE pushed

\* The orchestrator claims in the agent's name and tells its worker.
Assign ==
    /\ orch.admitted
    /\ \E a \in FindBestAgent(Head(orch.todo)) :
          /\ Acquire(a, Head(orch.todo))
          /\ Push(a, Head(orch.todo))
    /\ orch' = Dispatched
    /\ UNCHANGED <<result, registry, worker, pattern>>

-----------------------------------------------------------------------------
(* Worker.ListenLoop and tryClaimAndExecute.  The loop is blocked while the *)
(* kernel runs; the lease is renewed meanwhile.                             *)

ReceivePush(a) ==
    /\ worker[a] = NoTask /\ pushed[a] # <<>>
    /\ pushed' = [pushed EXCEPT ![a] = Tail(@)]
    /\ \/ Acquire(a, Head(pushed[a]))
          /\ worker' = [worker EXCEPT ![a] = Head(pushed[a])]
       \/ phase[Head(pushed[a])] # "open"
          /\ UNCHANGED <<phase, holder, evictions, worker>>
    /\ UNCHANGED <<result, registry, orch, pattern>>

\* Bug: the result of the claim is not looked at.
ReceivePostedUnclaimed(a) ==
    /\ worker[a] = NoTask
    /\ \E t \in Tasks : /\ phase[t] # "absent"
                       /\ \/ Acquire(a, t)
                          \/ UNCHANGED <<phase, holder, evictions>>
                       /\ worker' = [worker EXCEPT ![a] = t]
    /\ UNCHANGED <<result, registry, orch, pushed, pattern>>

\* The event of a posted task may come late, when the claim fails (and nothing
\* changes), or not at all.
ReceivePosted(a) ==
    /\ worker[a] = NoTask
    /\ \E t \in Tasks : /\ Acquire(a, t)
                       /\ worker' = [worker EXCEPT ![a] = t]
    /\ UNCHANGED <<result, registry, orch, pushed, pattern>>

\* Kernel.Run returned: CompleteTask or FailTask, which fail when the task was
\* taken away; their errors are ignored.
Finish(a) ==
    /\ worker[a] # NoTask
    /\ worker' = [worker EXCEPT ![a] = NoTask]
    /\ \/ /\ Settle(a, worker[a])
          /\ \E how \in {"completed", "failed"} :
                /\ result' = [result EXCEPT ![worker[a]] =
                                 IF how = "completed" THEN "done" ELSE "failed"]
                /\ pattern' \in Told(pattern, how, worker[a])
       \/ /\ ~(phase[worker[a]] = "held" /\ holder[worker[a]] = a)
          /\ UNCHANGED <<phase, holder, evictions, result, pattern>>
    /\ UNCHANGED <<registry, orch, pushed>>

\* The reaper: a lease nobody renewed in time.  It broadcasts
\* task_lease_expired, also when the task has failed for good by that.
Evict(t) ==
    /\ TakeAway(t)
    /\ result' = IF phase'[t] = "closed" THEN [result EXCEPT ![t] = "failed"]
                 ELSE result
    /\ UNCHANGED <<registry, orch, worker, pushed, pattern>>

-----------------------------------------------------------------------------
(* The orchestration patterns *)

\* SequentialExecutor: post, and wait for this one.
PostOne ==
    /\ pattern.kind = "sequential" /\ pattern.st = "posting"
    /\ pattern.next <= Len(SubTasks)
    /\ Publish({SubTasks[pattern.next]})
    /\ pattern' = [pattern EXCEPT !.st = "waiting",
                                  !.pending = {SubTasks[pattern.next]}]
    /\ UNCHANGED <<result, registry, orch, worker, pushed>>

\* It subscribes after it has posted, each time to a channel of its own.
SubscribeLate ==
    /\ pattern.kind = "sequential" /\ pattern.st = "waiting" /\ ~pattern.listening
    /\ pattern' = [pattern EXCEPT !.listening = TRUE, !.events = <<>>]
    /\ UNCHANGED <<phase, holder, evictions, result, registry, orch, worker,
                   pushed>>

\* ParallelExecutor and MapReduceExecutor subscribe first and post all.
PostAll ==
    /\ pattern.kind # "sequential" /\ pattern.st = "posting"
    /\ pattern.next <= Len(SubTasks)
    /\ Publish({SubTasks[pattern.next]})
    /\ pattern' = [pattern EXCEPT
          !.next = @ + 1,
          !.st = IF pattern.next = Len(SubTasks) THEN "waiting" ELSE "posting",
          !.pending = @ \cup {SubTasks[pattern.next]}]
    /\ UNCHANGED <<result, registry, orch, worker, pushed>>

\* Bug: a failed task counts as finished like a completed one.
AfterEventOfAnyType(p, e) == [p EXCEPT !.pending = @ \ {e.task}]

\* Events of other tasks are passed over; a failure ends the pattern.
AfterEvent(p, e) ==
    IF e.task \notin p.pending THEN p
    ELSE IF e.type = "failed" THEN [p EXCEPT !.st = "failed"]
    ELSE [p EXCEPT !.pending = @ \ {e.task}]

\* The pattern is over when nothing is pending; the sequential one goes on
\* with its next task.
PatternAdvanced(p) ==
    IF p.st # "waiting" \/ p.pending # {} THEN p
    ELSE IF p.kind = "sequential" /\ p.next < Len(SubTasks)
         THEN [p EXCEPT !.st = "posting", !.next = @ + 1, !.listening = FALSE]
         ELSE [p EXCEPT !.st = "ok"]

Hear ==
    /\ pattern.st = "waiting" /\ pattern.listening /\ pattern.events # <<>>
    /\ pattern' = PatternAdvanced([AfterEvent(pattern, Head(pattern.events))
                                       EXCEPT !.events = Tail(@)])
    /\ UNCHANGED <<phase, holder, evictions, result, registry, orch, worker,
                   pushed>>

\* Bug: like ParallelExecutor, the sequential one has no timeout.
TimesOutIfParallel(p) == p.kind = "mapreduce"

TimesOut(p) == p.kind # "parallel"

\* No event for some minutes: time.After is armed anew by each, of the pattern's
\* tasks, which end once, and of others, which are not here.

Timeout ==
    /\ pattern.st = "waiting" /\ pattern.listening /\ TimesOut(pattern)
    /\ pattern' = [pattern EXCEPT !.st = "timeout"]
    /\ UNCHANGED <<phase, holder, evictions, result, registry, orch, worker,
                   pushed>>

-----------------------------------------------------------------------------
DispatchNext ==
    \/ ScanPending \/ Admit \/ SkipTask \/ Assign
    \/ \E a \in Agents : \/ Register(a) \/ Leave(a)
                         \/ ReceivePush(a) \/ ReceivePosted(a) \/ Finish(a)
    \/ \E t \in Tasks : Evict(t)
    \/ PostOne \/ SubscribeLate \/ PostAll \/ Hear \/ Timeout

DispatchSpec == DispatchInit /\ [][DispatchNext]_dispatchVars

\* The pattern's goroutine and timer.  No event is sure to arrive.
PatternFairSpec ==
    /\ DispatchSpec
    /\ WF_dispatchVars(PostOne \/ SubscribeLate \/ PostAll \/ Hear)
    /\ WF_dispatchVars(Timeout)

\* Nobody renews the lease of a task that no worker executes.
Orphaned(t) == \A a \in Agents : worker[a] # t \/ holder[t] # a

\* Moreover the orchestrator's ticker, the listen loops, the reaper for leases
\* nobody renews, and kernels whose calls of models return.  Not the registry.
DispatchFairSpec ==
    /\ PatternFairSpec
    /\ WF_dispatchVars(ScanPending \/ Admit \/ SkipTask \/ Assign)
    /\ \A a \in Agents : /\ WF_dispatchVars(ReceivePush(a)) /\ WF_dispatchVars(Finish(a))
    /\ \A t \in Tasks : WF_dispatchVars(Orphaned(t) /\ Evict(t))

-----------------------------------------------------------------------------
(* Properties *)

\* A pattern that reports success has all its tasks done, and the sequential
\* one has no task posted before the one in front of it was done: whatever
\* events were lost, late or of other tasks, and however often tasks changed
\* hands.
PatternSound ==
    /\ pattern.st = "ok" => \A i \in DOMAIN SubTasks : result[SubTasks[i]] = "done"
    /\ pattern.kind = "sequential" =>
          \A i \in 2 .. Len(SubTasks) :
             phase[SubTasks[i]] # "absent" => result[SubTasks[i - 1]] = "done"

\* The agents that execute a task they do not hold.
Strays(t) == {a \in Agents : worker[a] = t /\ ~(phase[t] = "held" /\ holder[t] = a)}

\* A task is executed by others than its holder only as often as it was taken
\* from a holder: pushes, claims in an agent's name, late events and claims that
\* fail start no execution of their own (worker.go:86).
StraysCounted == \A t \in Tasks : Cardinality(Strays(t)) <= evictions[t]

\* The patterns with a timeout return.  (ParallelExecutor has none: a lost
\* event, or a task that ends by eviction, makes it wait for ever.)
PatternReturns ==
    pattern.kind # "parallel" ~> pattern.st \in {"ok", "failed", "timeout"}

-----------------------------------------------------------------------------
(* What a comment says and the code does not do *)

\* "From time to time poll as well, against lost events" (orchestrator.go:48): a
\* posted task is settled at last, unless the registry is left without an agent
\* for it.
TasksEnd ==
    \A t \in Tasks :
        phase[t] = "open" ~> phase[t] = "closed" \/ Candidates(t) = {}
=============================================================================

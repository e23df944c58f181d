----------------------------- MODULE Automations -----------------------------
(***************************************************************************)
(* Automations of the gateway: the tables automations and automation_runs, *)
(* the handlers that edit and trigger them, the cron runner, which looks   *)
(* for due ones every minute, webhooks of a channel, and executeAutomation *)
(* with the goroutine it starts.                                           *)
(*                                                                         *)
(* Times are abstracted to what the code asks of next_run_at: it is empty, *)
(* in the future, or due.  A schedule is absent, readable, or one that     *)
(* calcNextRun can make nothing of.                                        *)
(***************************************************************************)
EXTENDS Naturals, FiniteSets

CONSTANTS
    Autos,          \* ids of automations
    Offered,        \* settings that requests ask for
    Handlers,       \* goroutines that handle requests about automations
    MaxRuns,        \* bound on the executions
    MaxOps,         \* bound on the requests
    MaxEnds,        \* bound on the ends of the process, crash or shutdown
    MaxFaults,      \* bound on the statements of executions that fail
    None            \* no row, no execution

Runs == 1 .. MaxRuns

Triggers == {"cron", "webhook", "both", "manual"}
Schedules == {"none", "good", "bad"}

\* What a request can set, and a row of automations.
Settings == [trigger : Triggers, schedule : Schedules, enabled : BOOLEAN]
\* (Of last_run_status the queries only ask whether it is "running".)
Autorows == [set : Settings, next : {"empty", "future", "due"}, running : BOOLEAN]

\* An execution: the trigger, the schedule the caller has read (a manual trigger reads
\* none), and those of the same delivery that come first.
Jobs == [auto : Autos, by : {"cron", "webhook", "manual"}, schedule : Schedules,
         before : SUBSET Runs,
         at : {"insert", "mark", "work", "finish", "stats", "over", "dead"}]

Requests == [at : {"idle"}] \cup [at : {"update"}, auto : Autos, set : Settings]
            \cup [at : {"delete"}, auto : Autos]

ASSUME AutomationsAssumption ==
    /\ Offered \subseteq Settings
    /\ None \notin Autorows \cup Jobs \cup {"running", "ended"}
    /\ IsFiniteSet(Autos)
    /\ MaxRuns \in Nat /\ MaxOps \in Nat /\ MaxEnds \in Nat /\ MaxFaults \in Nat

VARIABLES
    auto,       \* table automations
    record,     \* status of the rows of automation_runs, None without a row
    job,        \* executions
    handler,    \* requests between two statements
    stopping,   \* Shutdown has cancelled the context of the cron runner
    used,       \* executions so far
    ops,        \* requests so far
    created,    \* ids that were given out: an id is random and not used again
    ends,       \* ends of the process so far
    faults,     \* failed statements of executions so far
    unended,    \* history: executions whose row did not get its end
    stuck       \* history: automations whose mark an execution failed to take away

bounds == <<ops, created, ends>>
lost == <<faults, unended, stuck>>
vars == <<auto, record, job, handler, stopping, used, bounds, lost>>

TypeOK ==
    /\ auto \in [Autos -> Autorows \cup {None}]
    /\ record \in [Runs -> {"running", "ended", None}]
    /\ job \in [Runs -> Jobs \cup {None}]
    /\ handler \in [Handlers -> Requests]
    /\ stopping \in BOOLEAN
    /\ used \in 0 .. MaxRuns
    /\ \A r \in Runs : job[r] # None => r <= used
    /\ ops \in 0 .. MaxOps /\ created \subseteq Autos /\ ends \in 0 .. MaxEnds
    /\ faults \in 0 .. MaxFaults /\ unended \subseteq Runs /\ stuck \subseteq Autos

Init ==
    /\ auto = [a \in Autos |-> None]
    /\ record = [r \in Runs |-> None]
    /\ job = [r \in Runs |-> None]
    /\ handler = [h \in Handlers |-> [at |-> "idle"]]
    /\ stopping = FALSE /\ used = 0 /\ ops = 0 /\ created = {} /\ ends = 0
    /\ faults = 0 /\ unended = {} /\ stuck = {}

\* calcNextRun: the next minute that fits is in the future; "" if there is none.
NextOf(schedule) == IF schedule = "good" THEN "future" ELSE "empty"

(***************************************************************************)
(* Requests.                                                               *)
(***************************************************************************)
Request(h) ==
    /\ h \in Handlers /\ handler[h].at = "idle" /\ ops < MaxOps
    /\ ops' = ops + 1
    /\ UNCHANGED <<ends, lost>>

\* handleCreateAutomation.
Create(h) ==
    /\ Request(h)
    /\ \E a \in Autos \ created, s \in Offered :
          /\ s.trigger \in {"cron", "both"} => s.schedule # "none"
          /\ auto' = [auto EXCEPT ![a] = [set |-> s, next |-> NextOf(s.schedule),
                                          running |-> FALSE]]
          /\ created' = created \cup {a}
    /\ UNCHANGED <<record, job, handler, stopping, used>>

\* handleUpdateAutomation reads the row, lays the request over it, and writes all of
\* it back.
BeginUpdate(h) ==
    /\ Request(h)
    /\ \E a \in Autos :
          /\ auto[a] # None
          /\ \E s \in Offered :
                handler' = [handler EXCEPT ![h] = [at |-> "update", auto |-> a, set |-> s]]
    /\ UNCHANGED <<auto, record, job, stopping, used, created>>

Updated(row, s) == [row EXCEPT !.set = s, !.next = NextOf(s.schedule)]

Update(h) ==
    /\ handler[h].at = "update"
    /\ LET a == handler[h].auto
       IN  auto' = IF auto[a] = None THEN auto
                   ELSE [auto EXCEPT ![a] = Updated(@, handler[h].set)]
    /\ handler' = [handler EXCEPT ![h] = [at |-> "idle"]]
    /\ UNCHANGED <<record, job, stopping, used, bounds, lost>>

\* handleDeleteAutomation: first the executions, then the automation.
DeleteRuns(h) ==
    /\ Request(h)
    /\ \E a \in Autos :
          /\ auto[a] # None
          /\ record' = [r \in Runs |-> IF job[r] # None /\ job[r].auto = a THEN None
                                       ELSE record[r]]
          /\ handler' = [handler EXCEPT ![h] = [at |-> "delete", auto |-> a]]
    /\ UNCHANGED <<auto, job, stopping, used, created>>

Delete(h) ==
    /\ handler[h].at = "delete"
    /\ auto' = [auto EXCEPT ![handler[h].auto] = None]
    /\ handler' = [handler EXCEPT ![h] = [at |-> "idle"]]
    /\ UNCHANGED <<record, job, stopping, used, bounds, lost>>

(***************************************************************************)
(* What starts an execution.                                               *)
(***************************************************************************)
Job(a, by, schedule, before) ==
    [auto |-> a, by |-> by, schedule |-> schedule, before |-> before, at |-> "insert"]

\* The rows a query has found are executed in the order it gave.
Orders(found) ==
    {f \in [found -> used + 1 .. used + Cardinality(found)] :
        \A a, b \in found : f[a] = f[b] => a = b}

\* handleTriggerAutomation; it does not read cron_schedule.
Trigger(h) ==
    /\ Request(h)
    /\ used < MaxRuns
    /\ \E a \in Autos :
          /\ auto[a] # None /\ auto[a].set.enabled
          /\ job' = [job EXCEPT ![used + 1] = Job(a, "manual", "none", {})]
    /\ used' = used + 1
    /\ UNCHANGED <<auto, record, handler, stopping, created>>

Due(a) ==
    /\ auto[a] # None /\ auto[a].set.enabled
    /\ auto[a].set.trigger \in {"cron", "both"} /\ auto[a].set.schedule # "none"
    /\ auto[a].next \in {"empty", "due"}

\* The bound must have room for what a query finds.
Fits(found) == found # {} /\ used + Cardinality(found) <= MaxRuns

\* Executions of what a query has found, side by side or one after the other.
Start(found, by, inTurn) ==
    /\ Fits(found)
    /\ \E f \in Orders(found) :
          job' = [r \in Runs |->
                     IF \E a \in found : f[a] = r
                     THEN LET a == CHOOSE b \in found : f[b] = r
                          IN  Job(a, by, auto[a].set.schedule,
                                  IF inTurn THEN used + 1 .. r - 1 ELSE {})
                     ELSE job[r]]
    /\ used' = used + Cardinality(found)

\* A query that asks for next_run_at <= now only.
TickByTime ==
    /\ ~stopping
    /\ Start({a \in Autos : Due(a) /\ auto[a].next = "due" /\ ~auto[a].running},
             "cron", FALSE)
    /\ UNCHANGED <<auto, record, handler, stopping, bounds, lost>>

\* cronTick starts a goroutine for each.
Tick ==
    /\ ~stopping
    /\ Start({a \in Autos : Due(a) /\ ~auto[a].running}, "cron", FALSE)
    /\ UNCHANGED <<auto, record, handler, stopping, bounds, lost>>

Hooked(a) == /\ auto[a] # None /\ auto[a].set.enabled
             /\ auto[a].set.trigger \in {"webhook", "both"}

\* triggerWebhookAutomations calls executeAutomation for one after the other.  All
\* automations that have a channel have the same one here.
Webhook ==
    /\ ops < MaxOps
    /\ Start({a \in Autos : Hooked(a) /\ ~auto[a].running}, "webhook", TRUE)
    /\ ops' = ops + 1
    /\ UNCHANGED <<auto, record, handler, stopping, created, ends, lost>>

(***************************************************************************)
(* executeAutomation.                                                      *)
(***************************************************************************)
At(r, step) == job[r] # None /\ job[r].at = step

Step(r, step) == job' = [job EXCEPT ![r].at = step]

\* A statement fails.  Its error is logged, and nobody tries again.
Fails == faults < MaxFaults /\ faults' = faults + 1

\* The first two statements have the caller's context: that of the request, which ends
\* when the client hangs up, or that of the cron runner.
Cancelled(r) == job[r].by = "manual" \/ (job[r].by = "cron" /\ stopping)
Open(r) == ~(job[r].by = "cron" /\ stopping)

Unwritten(r) == \/ Cancelled(r) /\ UNCHANGED faults
                \/ Fails

Turn(r) == \A q \in job[r].before : ~At(q, "insert") /\ ~At(q, "mark")

InsertRun(r) ==
    /\ At(r, "insert") /\ Turn(r)
    /\ \/ /\ Open(r) /\ record' = [record EXCEPT ![r] = "running"]
          /\ Step(r, "mark") /\ UNCHANGED faults
       \/ Cancelled(r) /\ Step(r, "work") /\ UNCHANGED <<record, faults>>
       \/ Fails /\ Step(r, "mark") /\ UNCHANGED record
    /\ UNCHANGED <<auto, handler, stopping, used, bounds, unended, stuck>>

MarkRunning(r) ==
    /\ At(r, "mark")
    /\ LET a == job[r].auto
       IN  \/ /\ Open(r) /\ UNCHANGED faults
              /\ auto' = IF auto[a] = None THEN auto
                         ELSE [auto EXCEPT ![a].next = NextOf(job[r].schedule),
                                           ![a].running = TRUE]
           \/ Unwritten(r) /\ UNCHANGED auto
    /\ Step(r, "work")
    /\ UNCHANGED <<record, handler, stopping, used, bounds, unended, stuck>>

\* Returning before the deferred function is registered.
WorkOrReturn(r) ==
    /\ At(r, "work")
    /\ \/ Step(r, "finish")
       \/ Step(r, "over")
    /\ UNCHANGED <<auto, record, handler, stopping, used, bounds, lost>>

\* The goroutine: a provider, a session, at most ten rounds of inference and tools, the
\* reply.  It ends, well or with an error, by its timeout.
Work(r) ==
    /\ At(r, "work")
    /\ Step(r, "finish")
    /\ UNCHANGED <<auto, record, handler, stopping, used, bounds, lost>>

\* The deferred function.
FinishRun(r) ==
    /\ At(r, "finish")
    /\ \/ /\ record' = [record EXCEPT ![r] = IF @ = None THEN None ELSE "ended"]
          /\ UNCHANGED <<faults, unended>>
       \/ Fails /\ unended' = unended \cup {r} /\ UNCHANGED record
    /\ Step(r, "stats")
    /\ UNCHANGED <<auto, handler, stopping, used, bounds, stuck>>

Stats(r) ==
    /\ At(r, "stats")
    /\ LET a == job[r].auto
       IN  \/ /\ auto' = IF auto[a] = None THEN auto
                         ELSE [auto EXCEPT ![a].running = FALSE]
              /\ stuck' = stuck \ {a} /\ UNCHANGED faults
           \/ Fails /\ stuck' = stuck \cup {a} /\ UNCHANGED auto
    /\ Step(r, "over")
    /\ UNCHANGED <<record, handler, stopping, used, bounds, unended>>

(***************************************************************************)
(* Time, and the end of the process.                                       *)
(***************************************************************************)
Elapse ==
    /\ \E a \in Autos :
          /\ auto[a] # None /\ auto[a].next = "future"
          /\ auto' = [auto EXCEPT ![a].next = "due"]
    /\ UNCHANGED <<record, job, handler, stopping, used, bounds, lost>>

\* Shutdown cancels the cron runner and does not wait for executions.
Shutdown ==
    /\ ~stopping /\ ends < MaxEnds
    /\ stopping' = TRUE
    /\ UNCHANGED <<auto, record, job, handler, used, bounds, lost>>

\* The process ends, after Shutdown or by a crash, and starts again.
End ==
    /\ ends < MaxEnds
    /\ job' = [r \in Runs |-> IF job[r] # None /\ job[r].at # "over"
                              THEN [job[r] EXCEPT !.at = "dead"] ELSE job[r]]
    /\ handler' = [h \in Handlers |-> [at |-> "idle"]]
    /\ stopping' = FALSE
    /\ ends' = ends + 1
    /\ UNCHANGED <<auto, record, used, ops, created, lost>>

Execute(r) ==
    InsertRun(r) \/ MarkRunning(r) \/ Work(r) \/ FinishRun(r) \/ Stats(r)

Next ==
    \/ \E h \in Handlers :
          \/ Create(h) \/ BeginUpdate(h) \/ Update(h)
          \/ DeleteRuns(h) \/ Delete(h) \/ Trigger(h)
    \/ Tick \/ Webhook
    \/ \E r \in Runs : Execute(r)
    \/ Elapse \/ Shutdown \/ End

\* The ticker ticks, goroutines run, a statement ends and so does an execution.
Spec ==
    /\ Init /\ [][Next]_vars
    /\ WF_vars(Tick)
    /\ \A r \in Runs : WF_vars(Execute(r))
    /\ WF_vars(stopping /\ End)

(***************************************************************************)
(* Properties.                                                             *)
(***************************************************************************)
InProgress(a) ==
    \E r \in Runs : job[r] # None /\ job[r].auto = a
                    /\ job[r].at \in {"work", "finish", "stats"}

\* Killed by an end of the process.
Killed(a) == \E r \in Runs : job[r] # None /\ job[r].auto = a /\ job[r].at = "dead"

\* Wherever a table says "running", the automation is left out by the cron runner and
\* by webhooks, there is an execution that will say otherwise, however executions,
\* edits and deletions overlap; unless the process has ended under it, or the very
\* statement that was to say so has failed.
RunningIsTrue ==
    /\ \A a \in Autos : auto[a] # None /\ auto[a].running
                        => InProgress(a) \/ Killed(a) \/ a \in stuck
    /\ \A r \in Runs : record[r] = "running"
                       => job[r] # None /\ (job[r].at \in {"mark", "work", "finish", "dead"}
                                            \/ r \in unended)

\* M13-Interface-Scheduler.md:628: last_run_status is updated when an execution ends.
EndIsRecorded ==
    \A a \in Autos : auto[a] # None /\ auto[a].running => InProgress(a) \/ Killed(a)

\* An automation that is due gets an execution: the query, the marks and the ends of
\* other executions never leave it out for good, unless the process has ended, or the
\* last statement of its execution, which nobody repeats, has failed.
DueIsServed ==
    \A a \in Autos :
        Due(a) ~> ~Due(a) \/ InProgress(a) \/ Killed(a) \/ a \in stuck
                  \/ used + Cardinality({b \in Autos : Due(b) /\ ~auto[b].running})
                     > MaxRuns

\* The cron runner executes an automation when its next_run_at has come
\* (M13-Interface-Scheduler.md:618), next_run_at being computed in advance
\* (017_automations.sql:34).
CronOnSchedule ==
    [][\A r \in Runs :
          job[r] = None /\ job'[r] # None /\ job'[r].by = "cron"
          /\ job'[r].schedule = "good" => auto[job'[r].auto].next = "due"]_vars
=============================================================================

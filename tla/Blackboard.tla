----------------------------- MODULE Blackboard -----------------------------
(***************************************************************************)
(* The persistent task blackboard (pkg/swarm/sqlite_blackboard.go) with    *)
(* its reaper (pkg/swarm/reaper.go), called by concurrent executions of    *)
(* several agents.                                                         *)
(*                                                                         *)
(* Each SQL statement is one atomic step: the handle has one connection.   *)
(* The mutex bb.mu is held over such a step by some operations only, and   *)
(* by the reaper over its scan and over all its write-backs.               *)
(*                                                                         *)
(* An execution is a goroutine that works on a task for an agent.  The     *)
(* blackboard knows agents, not executions: two executions of one agent    *)
(* are the same claimed_by to it.                                          *)
(*                                                                         *)
(* A lease is what expires_at says when it is compared with the clock:     *)
(*   fresh    now is not past expires_at;                                  *)
(*   lapsed   now is past expires_at, on the same UTC day;                 *)
(*   visible  now is past expires_at and on a later UTC day.               *)
(* The column holds "2006-01-02T15:04:05Z" and the scan compares it as a   *)
(* string with datetime('now'), "2006-01-02 15:04:05": 'T' sorts after     *)
(* ' ', so only a visible lease is smaller.  SideEffectPreCheck parses the *)
(* column and sees a lapsed lease too.  Only these two read the column, of *)
(* claimed and running rows; other rows' expires_at is abstracted to none. *)
(***************************************************************************)
EXTENDS Naturals, FiniteSets

CONSTANTS
    Tasks,           \* task identifiers
    Agents,          \* agent identifiers (claimed_by)
    Execs,           \* execution goroutines
    NoAgent,         \* claimed_by IS NULL
    NoTask,          \* an idle execution works on no task
    NoExec,          \* no cancel function is registered
    ToxicityLimit,   \* evictions after which a task fails (3 in the code)
    SubCap,          \* capacity of a subscriber's channel (64 in the code)
    MaxVersion,      \* bound: no renewal or suspension at or past this version
    MaxRestarts      \* bound: restarts of the process

ASSUME ConstantsAssumption ==
    /\ IsFiniteSet(Tasks)
    /\ NoAgent \notin Agents
    /\ NoTask \notin Tasks
    /\ NoExec \notin Execs
    /\ ToxicityLimit \in Nat \ {0}
    /\ SubCap \in Nat \ {0}
    /\ MaxVersion \in Nat
    /\ MaxRestarts \in Nat

VARIABLES
    row,        \* table tasks; status "absent" where there is no row
    exec,       \* the executions and what they remember
    cancels,    \* bb.cancels: the execution whose context is cancelled, by task
    inbox,      \* events waiting in the subscriber's channel
    reaper,     \* the reaper goroutine: pc, and the tasks its scan found
    restarts    \* how often the process has been restarted

vars == <<row, exec, cancels, inbox, reaper, restarts>>

Statuses == {"absent", "pending", "claimed", "running", "suspended",
             "compensating", "done", "failed"}
Active   == {"claimed", "running"}
Held     == Active \cup {"suspended", "compensating"}
Terminal == {"done", "failed"}

NoRow == [status |-> "absent", owner |-> NoAgent, lease |-> "none",
          version |-> 0, toxicity |-> 0]

\* token is the version an execution read when it claimed or started its task;
\* gone is a history variable: the row was deleted since.
Idle == [st |-> "idle", agent |-> NoAgent, task |-> NoTask, token |-> 0,
         gone |-> FALSE]

Rows  == [status : Statuses, owner : Agents \cup {NoAgent},
          lease : {"none", "fresh", "lapsed", "visible"},
          version : Nat, toxicity : Nat]

Workers == [st : {"claimed", "running", "aborting"}, agent : Agents,
            task : Tasks, token : Nat, gone : BOOLEAN]

TypeOK ==
    /\ row \in [Tasks -> Rows]
    /\ exec \in [Execs -> Workers \cup {Idle}]
    /\ cancels \in [Tasks -> Execs \cup {NoExec}]
    /\ inbox \in 0 .. SubCap
    /\ reaper \in [pc : {"idle", "grace", "evicting"}, expired : SUBSET Tasks]
    /\ restarts \in Nat

Init ==
    /\ row = [t \in Tasks |-> NoRow]
    /\ exec = [e \in Execs |-> Idle]
    /\ cancels = [t \in Tasks |-> NoExec]
    /\ inbox = 0
    /\ reaper = [pc |-> "idle", expired |-> {}]
    /\ restarts = 0

-----------------------------------------------------------------------------
(* Helpers *)

\* broadcast never blocks: events that do not fit are dropped.
Broadcast(n) == inbox' = IF inbox + n > SubCap THEN SubCap ELSE inbox + n

\* The reaper keeps bb.mu from its first write-back to its last.
MutexFree == reaper.pc # "evicting"

Working(e) == exec[e].st # "idle"
Owned(e)   == row[exec[e].task].owner = exec[e].agent

-----------------------------------------------------------------------------
(* Posting *)

\* PostTask for one task and PostBatch for several: INSERT OR IGNORE, and an
\* event for each task whether or not its row was new.
Post(S) ==
    /\ S # {}
    /\ row' = [t \in Tasks |->
                 IF t \in S /\ row[t].status = "absent"
                 THEN [NoRow EXCEPT !.status = "pending"]
                 ELSE row[t]]
    /\ Broadcast(Cardinality(S))
    /\ UNCHANGED <<exec, cancels, reaper, restarts>>

\* Bug: the CAS takes any row, not a pending one.
CASClaimOfAnyRow(a, t) ==
    /\ MutexFree
    /\ row[t].status # "absent"
    /\ row' = [row EXCEPT ![t].status = "claimed", ![t].owner = a,
                          ![t].lease = "fresh", ![t].version = @ + 1]
    /\ Broadcast(1)

\* The CAS of ClaimTask for agent a, as it leaves the table and the channel.
CASClaim(a, t) ==
    /\ MutexFree
    /\ row[t].status = "pending"
    /\ row' = [row EXCEPT ![t].status = "claimed", ![t].owner = a,
                          ![t].lease = "fresh", ![t].version = @ + 1]
    /\ Broadcast(1)

\* ClaimTask by an execution of agent a, which works on the task if the CAS
\* succeeds.
Claim(e, a, t) ==
    /\ ~Working(e)
    /\ CASClaim(a, t)
    /\ exec' = [exec EXCEPT ![e] = [st |-> "claimed", agent |-> a, task |-> t,
                                    token |-> row[t].version + 1,
                                    gone |-> FALSE]]
    /\ UNCHANGED <<cancels, reaper, restarts>>

RegisterCancelFunc(e) ==
    /\ MutexFree
    /\ exec[e].st \in {"claimed", "running"}
    /\ cancels' = [cancels EXCEPT ![exec[e].task] = e]
    /\ UNCHANGED <<row, exec, inbox, reaper, restarts>>

-----------------------------------------------------------------------------
(* The owner's operations: every one is an UPDATE conditional on claimed_by *)
(* and status; where no row matches nothing changes and it returns an error.*)

\* Bug: "version = version + 1" is missing.
UpdateSameVersion(e, status, lease) ==
    row' = [row EXCEPT ![exec[e].task].status = status,
                       ![exec[e].task].lease = lease]

Updated(r, status, lease) ==
    [status |-> status, owner |-> r.owner, lease |-> lease,
     version |-> r.version + 1, toxicity |-> r.toxicity]

Update(e, status, lease) ==
    row' = [row EXCEPT ![exec[e].task] = Updated(@, status, lease)]

\* StartExecution, the UPDATE that matches.
StartExecution(e) ==
    /\ exec[e].st = "claimed"
    /\ Owned(e)
    /\ row[exec[e].task].status = "claimed"
    /\ Update(e, "running", row[exec[e].task].lease)
    /\ exec' = [exec EXCEPT ![e].st = "running",
                            ![e].token = row[exec[e].task].version + 1]
    /\ Broadcast(1)
    /\ UNCHANGED <<cancels, reaper, restarts>>

\* StartExecution, the UPDATE that matches no row: the SELECT that follows
\* asks for the status only, so a row that runs counts as started whoever
\* owns it.
StartAgain(e) ==
    /\ exec[e].st = "claimed"
    /\ row[exec[e].task].status = "running"
    /\ exec' = [exec EXCEPT ![e].st = "running"]
    /\ Broadcast(1)
    /\ UNCHANGED <<row, cancels, reaper, restarts>>

\* CompleteTask and FailTask drop the task's cancel function first, under the
\* mutex and whoever registered it; then the UPDATE matches, or it does not.
\* The execution is over in both cases.
Settle(e, status) ==
    /\ MutexFree
    /\ Working(e)
    /\ cancels' = [cancels EXCEPT ![exec[e].task] = NoExec]
    /\ IF Owned(e) /\ row[exec[e].task].status \in Active
       THEN /\ Update(e, status, "none")
            /\ Broadcast(1)
       ELSE UNCHANGED <<row, inbox>>
    /\ exec' = [exec EXCEPT ![e] = Idle]
    /\ UNCHANGED <<reaper, restarts>>

\* RenewLease matches claimed rows, not running ones.
RenewLease(e) ==
    /\ exec[e].st \in {"claimed", "running"}
    /\ Owned(e)
    /\ row[exec[e].task].status = "claimed"
    /\ row[exec[e].task].version < MaxVersion
    /\ Update(e, "claimed", "fresh")
    /\ UNCHANGED <<exec, cancels, inbox, reaper, restarts>>

SuspendForHITL(e) ==
    /\ MutexFree
    /\ exec[e].st = "running"
    /\ Owned(e)
    /\ row[exec[e].task].status = "running"
    /\ row[exec[e].task].version < MaxVersion
    /\ Update(e, "suspended", "none")
    /\ UNCHANGED <<exec, cancels, inbox, reaper, restarts>>

\* Approved, the task runs again under a new lease; refused, it has failed and
\* its execution ends.
ResumeFromHITL(e, approved) ==
    /\ MutexFree
    /\ exec[e].st \in {"claimed", "running"}
    /\ Owned(e)
    /\ row[exec[e].task].status = "suspended"
    /\ IF approved THEN Update(e, "running", "fresh") ELSE Update(e, "failed", "none")
    /\ exec' = IF approved THEN exec ELSE [exec EXCEPT ![e] = Idle]
    /\ UNCHANGED <<cancels, inbox, reaper, restarts>>

BeginCompensation(e) ==
    /\ MutexFree
    /\ exec[e].st = "running"
    /\ Owned(e)
    /\ row[exec[e].task].status = "running"
    /\ Update(e, "compensating", "none")
    /\ UNCHANGED <<exec, cancels, inbox, reaper, restarts>>

EndCompensation(e) ==
    /\ MutexFree
    /\ exec[e].st = "running"
    /\ Owned(e)
    /\ row[exec[e].task].status = "compensating"
    /\ Update(e, "failed", "none")
    /\ exec' = [exec EXCEPT ![e] = Idle]
    /\ UNCHANGED <<cancels, inbox, reaper, restarts>>

\* Bug: the version is not compared.
PreCheckWithoutVersion(e) ==
    /\ exec[e].st = "running"
    /\ Owned(e)
    /\ row[exec[e].task].status = "running"
    /\ row[exec[e].task].lease = "fresh"

\* SideEffectPreCheck: would it let this execution act on the world now?
SideEffectPreCheck(e) ==
    /\ exec[e].st = "running"
    /\ Owned(e)
    /\ row[exec[e].task].version = exec[e].token
    /\ row[exec[e].task].status = "running"
    /\ row[exec[e].task].lease = "fresh"

-----------------------------------------------------------------------------
(* The reaper *)

\* Bug: running tasks are not selected.
ExpiredClaimsOnly == {t \in Tasks : row[t].status = "claimed" /\ row[t].lease = "visible"}

Expired == {t \in Tasks : row[t].status \in Active /\ row[t].lease = "visible"}

\* reap, first critical section: select the expired rows, cancel and forget
\* the registered contexts.
ReapScan ==
    /\ reaper.pc = "idle"
    /\ Expired # {}
    /\ exec' = [e \in Execs |->
                  IF /\ exec[e].st \in {"claimed", "running"}
                     /\ exec[e].task \in Expired
                     /\ cancels[exec[e].task] = e
                  THEN [exec[e] EXCEPT !.st = "aborting"]
                  ELSE exec[e]]
    /\ cancels' = [t \in Tasks |-> IF t \in Expired THEN NoExec ELSE cancels[t]]
    /\ reaper' = [pc |-> "grace", expired |-> Expired]
    /\ UNCHANGED <<row, inbox, restarts>>

\* The five seconds of grace are over: the mutex is taken again.
GraceOver ==
    /\ reaper.pc = "grace"
    /\ reaper' = [reaper EXCEPT !.pc = "evicting"]
    /\ UNCHANGED <<row, exec, cancels, inbox, restarts>>

\* Bug: the write-back forgets to compare the status with what it scanned.
EvictedWhateverStatus(r) ==
    [status |-> IF r.toxicity + 1 >= ToxicityLimit THEN "failed" ELSE "pending",
     owner |-> NoAgent, lease |-> "none",
     version |-> r.version + 1, toxicity |-> r.toxicity + 1]

\* Bug: the limit is compared with >.
EvictedOneTooMany(r) ==
    IF r.status \in Active
    THEN [status |-> IF r.toxicity + 1 > ToxicityLimit THEN "failed" ELSE "pending",
          owner |-> NoAgent, lease |-> "none",
          version |-> r.version + 1, toxicity |-> r.toxicity + 1]
    ELSE r

EvictedRow(r) ==
    IF r.status \in Active
    THEN [status |-> IF r.toxicity + 1 >= ToxicityLimit THEN "failed" ELSE "pending",
          owner |-> NoAgent, lease |-> "none",
          version |-> r.version + 1, toxicity |-> r.toxicity + 1]
    ELSE r

\* One write-back of reap: conditional on the status alone, and announced in
\* any case.
Evict(t) ==
    /\ reaper.pc = "evicting"
    /\ t \in reaper.expired
    /\ row' = [row EXCEPT ![t] = EvictedRow(@)]
    /\ reaper' = [pc |-> IF reaper.expired = {t} THEN "idle" ELSE "evicting",
                  expired |-> reaper.expired \ {t}]
    /\ Broadcast(1)
    /\ UNCHANGED <<exec, cancels, restarts>>

\* Reaper.Phase2: settled rows that have not changed for five minutes are
\* deleted.  Which of them are that old is left open.
Phase2(S) ==
    /\ reaper.pc = "idle"
    /\ S # {}
    /\ \A t \in S : row[t].status \in Terminal
    /\ row' = [t \in Tasks |-> IF t \in S THEN NoRow ELSE row[t]]
    /\ exec' = [e \in Execs |->
                  IF Working(e) /\ exec[e].task \in S
                  THEN [exec[e] EXCEPT !.gone = TRUE]
                  ELSE exec[e]]
    /\ UNCHANGED <<cancels, inbox, reaper, restarts>>

-----------------------------------------------------------------------------
(* Kill switch, subscriber, clock and crashes *)

\* StopAll suspends every active row and leaves its owner.
StopAll ==
    /\ MutexFree
    /\ \E t \in Tasks : row[t].status \in Active
    /\ \A t \in Tasks : row[t].status \in Active => row[t].version < MaxVersion
    /\ row' = [t \in Tasks |->
                 IF row[t].status \in Active
                 THEN Updated(row[t], "suspended", "none")
                 ELSE row[t]]
    /\ Broadcast(1)
    /\ UNCHANGED <<exec, cancels, reaper, restarts>>

\* The subscriber takes an event out of its channel.
Receive ==
    /\ inbox > 0
    /\ inbox' = inbox - 1
    /\ UNCHANGED <<row, exec, cancels, reaper, restarts>>

\* The clock passes expires_at.
Lapse(t) ==
    /\ row[t].lease = "fresh"
    /\ row' = [row EXCEPT ![t].lease = "lapsed"]
    /\ UNCHANGED <<exec, cancels, inbox, reaper, restarts>>

\* The UTC day changes.
Midnight ==
    /\ \E t \in Tasks : row[t].lease = "lapsed"
    /\ row' = [t \in Tasks |->
                 IF row[t].lease = "lapsed" THEN [row[t] EXCEPT !.lease = "visible"]
                 ELSE row[t]]
    /\ UNCHANGED <<exec, cancels, inbox, reaper, restarts>>

\* An execution ends without a word (panic, cancelled parent context).
Die(e) ==
    /\ Working(e)
    /\ exec' = [exec EXCEPT ![e] = Idle]
    /\ UNCHANGED <<row, cancels, inbox, reaper, restarts>>

\* The process is restarted: the table survives, nothing else does.
Restart ==
    /\ restarts < MaxRestarts
    /\ restarts' = restarts + 1
    /\ exec' = [e \in Execs |-> Idle]
    /\ cancels' = [t \in Tasks |-> NoExec]
    /\ inbox' = 0
    /\ reaper' = [pc |-> "idle", expired |-> {}]
    /\ UNCHANGED row

-----------------------------------------------------------------------------
Next ==
    \/ \E S \in SUBSET Tasks : Post(S)
    \/ \E e \in Execs, a \in Agents, t \in Tasks : Claim(e, a, t)
    \/ \E e \in Execs : RegisterCancelFunc(e)
    \/ \E e \in Execs : StartExecution(e)
    \/ \E e \in Execs : StartAgain(e)
    \/ \E e \in Execs, status \in Terminal : Settle(e, status)
    \/ \E e \in Execs : RenewLease(e)
    \/ \E e \in Execs : SuspendForHITL(e)
    \/ \E e \in Execs, approved \in BOOLEAN : ResumeFromHITL(e, approved)
    \/ \E e \in Execs : BeginCompensation(e)
    \/ \E e \in Execs : EndCompensation(e)
    \/ ReapScan
    \/ GraceOver
    \/ \E t \in Tasks : Evict(t)
    \/ \E S \in SUBSET Tasks : Phase2(S)
    \/ StopAll
    \/ Receive
    \/ \E t \in Tasks : Lapse(t)
    \/ Midnight
    \/ \E e \in Execs : Die(e)
    \/ Restart

Spec == Init /\ [][Next]_vars

\* The clock runs, and the reaper's goroutine is scheduled.
FairSpec ==
    /\ Spec
    /\ WF_vars(Midnight)
    /\ WF_vars(ReapScan)
    /\ WF_vars(GraceOver)
    /\ WF_vars(\E t \in Tasks : Evict(t))
-----------------------------------------------------------------------------
(* Properties *)

\* A row's columns agree: a pending task has no owner, a task under way has
\* one, active tasks and no others run under a lease, and the eviction count
\* reaches the limit on failed tasks only, so no task is taken away more often
\* than that.
RowAgrees(r) ==
    /\ r.status = "absent" => r = NoRow
    /\ r.status = "pending" => r.owner = NoAgent
    /\ r.status \in Active <=> r.lease # "none"
    /\ r.status \in Held \cup {"done"} => r.owner \in Agents
    /\ r.toxicity <= ToxicityLimit
    /\ r.toxicity = ToxicityLimit => r.status = "failed"

RowsAgree == \A t \in Tasks : RowAgrees(row[t])

\* The version is a fencing token: SideEffectPreCheck lets at most one execution
\* at a time act for a task, even when an agent lost the task, took it again
\* and now has an old and a new execution of it.  (A row that was deleted and
\* posted again counts from 0, so tokens of the old row are left out.)
Fencing ==
    \A e, f \in Execs :
        /\ SideEffectPreCheck(e) /\ ~exec[e].gone
        /\ SideEffectPreCheck(f) /\ ~exec[f].gone
        /\ exec[e].task = exec[f].task
        => e = f

\* Suspended and compensating tasks are exempt from the reaper, also when they
\* were running and expired at its scan (state.yaml, task_inv_03).
SuspendedExempt ==
    [][reaper' # reaper =>
         \A t \in Tasks : row[t].status \in {"suspended", "compensating"} =>
             row'[t] = row[t]]_vars

\* Every change of a row that stays in the table, the clock's apart, moves its
\* version forward, so that no holder of an older version goes unnoticed.
VersionMoves ==
    [][\A t \in Tasks :
         /\ row[t].status # "absent"
         /\ row'[t].status # "absent"
         /\ [row'[t] EXCEPT !.lease = "none"] # [row[t] EXCEPT !.lease = "none"]
         => row'[t].version = row[t].version + 1]_vars

\* The blackboard implements the abstract lease of TaskLease.
Phase(r) ==
    IF r.status \in Held THEN "held"
    ELSE IF r.status \in Terminal THEN "closed"
    ELSE IF r.status = "pending" THEN "open"
    ELSE "absent"

LeasePhase     == [t \in Tasks |-> Phase(row[t])]
LeaseHolder    == [t \in Tasks |-> IF row[t].status \in Held THEN row[t].owner
                                   ELSE NoAgent]
LeaseEvictions == [t \in Tasks |-> row[t].toxicity]

Lease == INSTANCE TaskLease WITH
    phase <- LeasePhase, holder <- LeaseHolder, evictions <- LeaseEvictions

LeaseRefinement == Lease!LeaseSpec

\* An active task whose lease is over does not stay that way: it is renewed,
\* settled, suspended or, at the latest after midnight, evicted.
ExpiredLeaseEnds ==
    \A t \in Tasks :
        (row[t].status \in Active /\ row[t].lease # "fresh") ~>
            ~(row[t].status \in Active /\ row[t].lease # "fresh")
-----------------------------------------------------------------------------
(* What the documents say and the code does not do *)

\* "Any task with Status=Claimed|Executing and ExpiresAt<now is reclaimed by
\* Reaper within 1s" (docs/arch/spec/state.yaml:544): the scan selects every
\* active task whose lease is over.  The string comparison selects it only
\* when the UTC day has changed.
ScanSelectsExpired ==
    \A t \in Tasks :
        row[t].status \in Active /\ row[t].lease # "fresh" => t \in Expired

\* Renewing a lease keeps the reaper away from the task
\* (M08-Multi-Agent-Orchestrator.md:64): the reaper evicts active tasks only
\* when their lease is over.  The write-back looks at the status alone, and
\* takes a task that was renewed, or settled and posted and claimed again,
\* during the grace period.
EvictsOnlyExpired ==
    [][\A t \in Tasks :
         reaper.pc = "evicting" /\ row[t].lease = "fresh" /\ reaper'.expired # reaper.expired
             => row'[t].status \in Active]_vars
=============================================================================

-------------------------- MODULE BlackboardProofs --------------------------
(***************************************************************************)
(* Theorems about Blackboard, for any tasks, agents, executions and bounds *)
(* that satisfy ConstantsAssumption.                                       *)
(***************************************************************************)
EXTENDS Blackboard, FiniteSetTheorems, TLAPS

\* What broadcast leaves in a subscriber's channel fits the channel.
LEMMA BroadcastFits ==
    ASSUME NEW n \in Nat, inbox \in 0 .. SubCap, Broadcast(n)
    PROVE  inbox' \in 0 .. SubCap
  BY ConstantsAssumption DEF Broadcast

\* Any set of tasks has a natural number of members.
LEMMA TaskCount ==
    ASSUME NEW S \in SUBSET Tasks
    PROVE  Cardinality(S) \in Nat
  BY ConstantsAssumption, FS_Subset, FS_CardinalityType

\* A new row is a row; so is what the reaper makes of one.
LEMMA RowTypes ==
    /\ NoRow \in Rows
    /\ \A r \in Rows : EvictedRow(r) \in Rows
  BY ConstantsAssumption DEF NoRow, Rows, EvictedRow, Statuses

\* A working execution has a task, an agent and a token.
LEMMA WorkerFields ==
    ASSUME TypeOK, NEW e \in Execs, Working(e)
    PROVE  exec[e] \in Workers
  BY DEF TypeOK, Working, Idle

\* The row an owner's UPDATE leaves differs in its status, lease and version.
LEMMA UpdatedFields ==
    ASSUME NEW r \in Rows, NEW status, NEW lease
    PROVE  LET s == Updated(r, status, lease)
           IN  /\ s.status = status /\ s.lease = lease
               /\ s.version = r.version + 1
               /\ s.owner = r.owner /\ s.toxicity = r.toxicity
  BY DEF Updated, Rows

\* It is a row if its parts are of the kind.
LEMMA UpdatedIsRow ==
    ASSUME NEW r \in Rows, NEW status \in Statuses,
           NEW lease \in {"none", "fresh", "lapsed", "visible"}
    PROVE  Updated(r, status, lease) \in Rows
  BY DEF Updated, Rows

\* The table changes at the task of the execution and nowhere else.
LEMMA UpdateAt ==
    ASSUME TypeOK, NEW e \in Execs, Working(e), NEW status, NEW lease,
           Update(e, status, lease)
    PROVE  LET t == exec[e].task
           IN  /\ t \in Tasks /\ exec[e].agent \in Agents
               /\ row[t] \in Rows
               /\ row' = [row EXCEPT ![t] = Updated(row[t], status, lease)]
               /\ row'[t] = Updated(row[t], status, lease)
               /\ \A u \in Tasks : u # t => row'[u] = row[u]
<1> DEFINE t == exec[e].task
<1>1. t \in Tasks /\ exec[e].agent \in Agents
  BY WorkerFields DEF Workers
<1>2. row \in [Tasks -> Rows]
  BY DEF TypeOK
<1>3. row' = [row EXCEPT ![t] = Updated(row[t], status, lease)]
  BY DEF Update
<1> HIDE DEF t
<1>4. QED
  BY <1>1, <1>2, <1>3 DEF t

\* An owner's UPDATE leaves rows in the table.
LEMMA UpdateTypes ==
    ASSUME TypeOK, NEW e \in Execs, Working(e), NEW status \in Statuses,
           NEW lease \in {"none", "fresh", "lapsed", "visible"},
           Update(e, status, lease)
    PROVE  row' \in [Tasks -> Rows]
<1>1. row \in [Tasks -> Rows]
  BY DEF TypeOK
<1>2. Updated(row[exec[e].task], status, lease) \in Rows
  BY UpdateAt, UpdatedIsRow
<1>3. QED
  BY <1>1, <1>2, UpdateAt

-----------------------------------------------------------------------------
\* Every variable keeps its type through every step.
THEOREM TypeCorrect == Spec => []TypeOK
<1>1. Init => TypeOK
  BY ConstantsAssumption, RowTypes DEF Init, TypeOK
<1>2. TypeOK /\ [Next]_vars => TypeOK'
  <2> SUFFICES ASSUME TypeOK, [Next]_vars PROVE TypeOK'
    OBVIOUS
  <2>1. ASSUME NEW S \in SUBSET Tasks, Post(S) PROVE TypeOK'
    <3>1. row' \in [Tasks -> Rows]
      BY <2>1, RowTypes DEF TypeOK, Post, Rows, Statuses
    <3>2. inbox' \in 0 .. SubCap
      BY <2>1, TaskCount, BroadcastFits DEF TypeOK, Post
    <3>3. QED
      BY <2>1, <3>1, <3>2 DEF TypeOK, Post
  <2>2. ASSUME NEW e \in Execs, NEW a \in Agents, NEW t \in Tasks, Claim(e, a, t)
        PROVE TypeOK'
    <3>1. row' \in [Tasks -> Rows]
      BY <2>2 DEF TypeOK, Claim, CASClaim, Rows, Statuses
    <3>2. row[t].version + 1 \in Nat
      BY DEF TypeOK, Rows
    <3>3. [st |-> "claimed", agent |-> a, task |-> t,
           token |-> row[t].version + 1, gone |-> FALSE] \in Workers
      BY <3>2 DEF Workers
    <3>4. exec' \in [Execs -> Workers \cup {Idle}]
      <4> DEFINE new == [st |-> "claimed", agent |-> a, task |-> t,
                         token |-> row[t].version + 1, gone |-> FALSE]
      <4>1. new \in Workers /\ exec' = [exec EXCEPT ![e] = new]
        BY <2>2, <3>3 DEF Claim
      <4> HIDE DEF new
      <4>2. QED
        BY <4>1 DEF TypeOK
    <3>5. QED
      BY <2>2, <3>1, <3>4, BroadcastFits DEF TypeOK, Claim, CASClaim
  <2>3. ASSUME NEW e \in Execs, RegisterCancelFunc(e) PROVE TypeOK'
    BY <2>3, WorkerFields DEF TypeOK, RegisterCancelFunc, Working, Workers
  <2>4. ASSUME NEW e \in Execs, StartExecution(e) PROVE TypeOK'
    <3>1. exec[e] \in Workers /\ Working(e)
      BY <2>4, WorkerFields DEF StartExecution, Working
    <3>2. row' \in [Tasks -> Rows]
      BY <2>4, <3>1, UpdateTypes DEF StartExecution, TypeOK, Rows, Workers, Statuses
    <3>3. exec' \in [Execs -> Workers \cup {Idle}]
      <4> DEFINE new == row[exec[e].task].version + 1
      <4>1. new \in Nat
        BY <3>1 DEF TypeOK, Rows, Workers
      <4>2. exec' = [exec EXCEPT ![e].st = "running", ![e].token = new]
        BY <2>4 DEF StartExecution
      <4> HIDE DEF new
      <4>3. [exec[e] EXCEPT !.st = "running", !.token = new] \in Workers
        BY <3>1, <4>1 DEF Workers
      <4>4. QED
        BY <4>2, <4>3 DEF TypeOK
    <3>4. QED
      BY <2>4, <3>2, <3>3, BroadcastFits DEF TypeOK, StartExecution
  <2>5. ASSUME NEW e \in Execs, StartAgain(e) PROVE TypeOK'
    <3>1. exec[e] \in Workers
      BY <2>5, WorkerFields DEF StartAgain, Working
    <3>2. exec' \in [Execs -> Workers \cup {Idle}]
      BY <2>5, <3>1 DEF TypeOK, StartAgain, Workers
    <3>3. QED
      BY <2>5, <3>2, BroadcastFits DEF TypeOK, StartAgain
  <2>6. ASSUME NEW e \in Execs, NEW status \in Terminal, Settle(e, status)
        PROVE TypeOK'
    <3>1. row' \in [Tasks -> Rows] /\ inbox' \in 0 .. SubCap
      BY <2>6, UpdateTypes, BroadcastFits DEF TypeOK, Settle, Terminal, Statuses
    <3>2. exec' \in [Execs -> Workers \cup {Idle}]
      BY <2>6 DEF TypeOK, Settle
    <3>3. QED
      BY <2>6, <3>1, <3>2 DEF TypeOK, Settle
  <2>7. ASSUME NEW e \in Execs, RenewLease(e) PROVE TypeOK'
    <3>1. row' \in [Tasks -> Rows]
      BY <2>7, UpdateTypes DEF RenewLease, Working, Statuses
    <3>2. QED
      BY <2>7, <3>1 DEF TypeOK, RenewLease
  <2>8. ASSUME NEW e \in Execs, SuspendForHITL(e) PROVE TypeOK'
    <3>1. row' \in [Tasks -> Rows]
      BY <2>8, UpdateTypes DEF SuspendForHITL, Working, Statuses
    <3>2. QED
      BY <2>8, <3>1 DEF TypeOK, SuspendForHITL
  <2>9. ASSUME NEW e \in Execs, NEW approved \in BOOLEAN, ResumeFromHITL(e, approved)
        PROVE TypeOK'
    <3>1. row' \in [Tasks -> Rows]
      BY <2>9, UpdateTypes DEF ResumeFromHITL, Working, Statuses
    <3>2. exec' \in [Execs -> Workers \cup {Idle}]
      BY <2>9 DEF TypeOK, ResumeFromHITL
    <3>3. QED
      BY <2>9, <3>1, <3>2 DEF TypeOK, ResumeFromHITL
  <2>10. ASSUME NEW e \in Execs, BeginCompensation(e) PROVE TypeOK'
    <3>1. row' \in [Tasks -> Rows]
      BY <2>10, UpdateTypes DEF BeginCompensation, Working, Statuses
    <3>2. QED
      BY <2>10, <3>1 DEF TypeOK, BeginCompensation
  <2>11. ASSUME NEW e \in Execs, EndCompensation(e) PROVE TypeOK'
    <3>1. row' \in [Tasks -> Rows]
      BY <2>11, UpdateTypes DEF EndCompensation, Working, Statuses
    <3>2. QED
      BY <2>11, <3>1 DEF TypeOK, EndCompensation
  <2>12. CASE ReapScan
    <3>1. exec' \in [Execs -> Workers \cup {Idle}]
      <4> SUFFICES ASSUME NEW e \in Execs
                   PROVE  exec'[e] \in Workers \cup {Idle}
        BY <2>12 DEF ReapScan
      <4>1. CASE exec[e].st \in {"claimed", "running"}
        <5>1. exec[e] \in Workers
          BY <4>1, WorkerFields DEF Working
        <5>2. [exec[e] EXCEPT !.st = "aborting"] \in Workers
          BY <5>1 DEF Workers
        <5>3. QED
          BY <2>12, <5>1, <5>2 DEF ReapScan
      <4>2. CASE exec[e].st \notin {"claimed", "running"}
        BY <2>12, <4>2 DEF ReapScan, TypeOK
      <4>3. QED
        BY <4>1, <4>2
    <3>2. cancels' \in [Tasks -> Execs \cup {NoExec}]
      BY <2>12 DEF ReapScan, TypeOK
    <3>3. reaper' \in [pc : {"idle", "grace", "evicting"}, expired : SUBSET Tasks]
      BY <2>12 DEF ReapScan, Expired
    <3>4. QED
      BY <2>12, <3>1, <3>2, <3>3 DEF ReapScan, TypeOK
  <2>13. CASE GraceOver
    BY <2>13 DEF TypeOK, GraceOver
  <2>14. ASSUME NEW t \in Tasks, Evict(t) PROVE TypeOK'
    <3>1. row' \in [Tasks -> Rows]
      BY <2>14, RowTypes DEF TypeOK, Evict
    <3>2. QED
      BY <2>14, <3>1, BroadcastFits DEF TypeOK, Evict
  <2>15. ASSUME NEW S \in SUBSET Tasks, Phase2(S) PROVE TypeOK'
    <3>1. row' \in [Tasks -> Rows]
      BY <2>15, RowTypes DEF TypeOK, Phase2
    <3>2. exec' \in [Execs -> Workers \cup {Idle}]
      <4>1. \A e \in Execs : Working(e) => [exec[e] EXCEPT !.gone = TRUE] \in Workers
        BY WorkerFields DEF Workers
      <4>2. QED
        BY <2>15, <4>1 DEF TypeOK, Phase2
    <3>3. QED
      BY <2>15, <3>1, <3>2 DEF TypeOK, Phase2
  <2>16. CASE StopAll
    <3>1. \A t \in Tasks : Updated(row[t], "suspended", "none") \in Rows
      BY UpdatedIsRow DEF TypeOK, Statuses
    <3>2. row' \in [Tasks -> Rows]
      BY <2>16, <3>1 DEF TypeOK, StopAll
    <3>3. QED
      BY <2>16, <3>2, BroadcastFits DEF TypeOK, StopAll
  <2>17. CASE Receive
    BY <2>17, ConstantsAssumption DEF TypeOK, Receive
  <2>18. ASSUME NEW t \in Tasks, Lapse(t) PROVE TypeOK'
    <3>1. row' \in [Tasks -> Rows]
      BY <2>18 DEF TypeOK, Lapse, Rows
    <3>2. QED
      BY <2>18, <3>1 DEF TypeOK, Lapse
  <2>19. CASE Midnight
    <3>1. row' \in [Tasks -> Rows]
      BY <2>19 DEF TypeOK, Midnight, Rows
    <3>2. QED
      BY <2>19, <3>1 DEF TypeOK, Midnight
  <2>20. ASSUME NEW e \in Execs, Die(e) PROVE TypeOK'
    BY <2>20 DEF TypeOK, Die
  <2>21. CASE Restart
    BY <2>21, ConstantsAssumption DEF TypeOK, Restart
  <2>22. CASE UNCHANGED vars
    BY <2>22 DEF TypeOK, vars
  <2>23. QED
    BY <2>1, <2>2, <2>3, <2>4, <2>5, <2>6, <2>7, <2>8, <2>9, <2>10, <2>11, <2>12,
       <2>13, <2>14, <2>15, <2>16, <2>17, <2>18, <2>19, <2>20, <2>21, <2>22
    DEF Next
<1>3. QED
  BY <1>1, <1>2, PTL DEF Spec

-----------------------------------------------------------------------------
(* What a step can do to one row. *)

Posted(r, s) == r.status = "absent" /\ s = [NoRow EXCEPT !.status = "pending"]

ClaimedRow(r, s) ==
    /\ r.status = "pending"
    /\ \E a \in Agents : s = [r EXCEPT !.status = "claimed", !.owner = a,
                                       !.lease = "fresh", !.version = @ + 1]

\* The owner, or the kill switch, moves a held row.
Moved(r, s) ==
    /\ r.status \in Held
    /\ \E st \in Held \cup Terminal, l \in {"none", "fresh", "lapsed", "visible"} :
          /\ st \in Active <=> l # "none"
          /\ s = Updated(r, st, l)

TakenAway(r, s) == r.status \in Active /\ s = EvictedRow(r)

Deleted(r, s) == r.status \in Terminal /\ s = NoRow

Aged(r, s) ==
    /\ r.lease # "none"
    /\ \E l \in {"lapsed", "visible"} : s = [r EXCEPT !.lease = l]

RowStep(r, s) ==
    \/ s = r
    \/ Posted(r, s)
    \/ ClaimedRow(r, s)
    \/ Moved(r, s)
    \/ TakenAway(r, s)
    \/ Deleted(r, s)
    \/ Aged(r, s)

\* An owner's UPDATE moves the row of its task and no other.
LEMMA UpdateMoves ==
    ASSUME TypeOK, NEW e \in Execs, Working(e),
           row[exec[e].task].status \in Held,
           NEW st \in Held \cup Terminal,
           NEW l \in {"none", "fresh", "lapsed", "visible"},
           st \in Active <=> l # "none",
           Update(e, st, l)
    PROVE  \A t \in Tasks : RowStep(row[t], row'[t])
<1> SUFFICES ASSUME NEW t \in Tasks PROVE RowStep(row[t], row'[t])
  OBVIOUS
<1>1. CASE t = exec[e].task
  <2>1. row'[t] = Updated(row[t], st, l)
    BY <1>1, UpdateAt
  <2>2. Moved(row[t], row'[t])
    BY <1>1, <2>1 DEF Moved
  <2>3. QED
    BY <2>2 DEF RowStep
<1>2. CASE t # exec[e].task
  BY <1>2 DEF Update, TypeOK, RowStep
<1>3. QED
  BY <1>1, <1>2

\* Every step of the blackboard takes every row through one of these moves.
LEMMA RowSteps ==
    ASSUME TypeOK, RowsAgree, [Next]_vars
    PROVE  \A t \in Tasks : RowStep(row[t], row'[t])
<1> DEFINE Goal == \A t \in Tasks : RowStep(row[t], row'[t])
<1>1. ASSUME NEW S \in SUBSET Tasks, Post(S) PROVE Goal
  BY <1>1 DEF Post, RowStep, Posted
<1>2. ASSUME NEW e \in Execs, NEW a \in Agents, NEW t \in Tasks, Claim(e, a, t)
      PROVE Goal
  <2> SUFFICES ASSUME NEW u \in Tasks PROVE RowStep(row[u], row'[u])
    OBVIOUS
  <2>1. CASE u = t
    <3>1. row'[u] = [row[u] EXCEPT !.status = "claimed", !.owner = a,
                                   !.lease = "fresh", !.version = @ + 1]
      BY <1>2, <2>1 DEF Claim, CASClaim, TypeOK, Rows
    <3>2. QED
      BY <1>2, <2>1, <3>1 DEF Claim, CASClaim, RowStep, ClaimedRow
  <2>2. CASE u # t
    BY <1>2, <2>2 DEF Claim, CASClaim, TypeOK, RowStep
  <2>3. QED
    BY <2>1, <2>2
<1>3. ASSUME NEW e \in Execs, RegisterCancelFunc(e) PROVE Goal
  BY <1>3 DEF RegisterCancelFunc, RowStep
<1>4. ASSUME NEW e \in Execs, StartExecution(e) PROVE Goal
  <2>1. Working(e) /\ row[exec[e].task].lease \in {"none", "fresh", "lapsed", "visible"}
    BY <1>4, WorkerFields DEF StartExecution, Working, TypeOK, Rows, Workers
  <2>2. "running" \in Active <=> row[exec[e].task].lease # "none"
    BY <1>4, <2>1, WorkerFields
    DEF StartExecution, RowsAgree, RowAgrees, Active, Workers
  <2>3. QED
    BY <1>4, <2>1, <2>2, UpdateMoves DEF StartExecution, Held, Active
<1>5. ASSUME NEW e \in Execs, StartAgain(e) PROVE Goal
  BY <1>5 DEF StartAgain, RowStep
<1>6. ASSUME NEW e \in Execs, NEW status \in Terminal, Settle(e, status) PROVE Goal
  <2>1. CASE Owned(e) /\ row[exec[e].task].status \in Active
    BY <1>6, <2>1, UpdateMoves DEF Settle, Held, Active, Terminal
  <2>2. CASE ~(Owned(e) /\ row[exec[e].task].status \in Active)
    BY <1>6, <2>2 DEF Settle, RowStep
  <2>3. QED
    BY <2>1, <2>2
<1>7. ASSUME NEW e \in Execs, RenewLease(e) PROVE Goal
  BY <1>7, UpdateMoves DEF RenewLease, Working, Held, Active
<1>8. ASSUME NEW e \in Execs, SuspendForHITL(e) PROVE Goal
  BY <1>8, UpdateMoves DEF SuspendForHITL, Working, Held, Active
<1>9. ASSUME NEW e \in Execs, NEW approved \in BOOLEAN, ResumeFromHITL(e, approved)
      PROVE Goal
  BY <1>9, UpdateMoves DEF ResumeFromHITL, Working, Held, Active, Terminal
<1>10. ASSUME NEW e \in Execs, BeginCompensation(e) PROVE Goal
  BY <1>10, UpdateMoves DEF BeginCompensation, Working, Held, Active
<1>11. ASSUME NEW e \in Execs, EndCompensation(e) PROVE Goal
  BY <1>11, UpdateMoves DEF EndCompensation, Working, Held, Active, Terminal
<1>12. CASE ReapScan \/ GraceOver \/ Receive \/ Restart \/ UNCHANGED vars
  BY <1>12 DEF ReapScan, GraceOver, Receive, Restart, vars, RowStep
<1>13. ASSUME NEW t \in Tasks, Evict(t) PROVE Goal
  BY <1>13 DEF Evict, TypeOK, EvictedRow, RowStep, TakenAway
<1>14. ASSUME NEW S \in SUBSET Tasks, Phase2(S) PROVE Goal
  BY <1>14 DEF Phase2, RowStep, Deleted
<1>15. CASE StopAll
  <2> SUFFICES ASSUME NEW t \in Tasks PROVE RowStep(row[t], row'[t])
    OBVIOUS
  <2>1. CASE row[t].status \in Active
    BY <1>15, <2>1 DEF StopAll, RowStep, Moved, Held, Active
  <2>2. CASE row[t].status \notin Active
    BY <1>15, <2>2 DEF StopAll, RowStep
  <2>3. QED
    BY <2>1, <2>2
<1>16. ASSUME NEW t \in Tasks, Lapse(t) PROVE Goal
  BY <1>16 DEF Lapse, TypeOK, RowStep, Aged
<1>17. CASE Midnight
  BY <1>17 DEF Midnight, RowStep, Aged
<1>18. ASSUME NEW e \in Execs, Die(e) PROVE Goal
  BY <1>18 DEF Die, RowStep
<1>19. QED
  BY <1>1, <1>2, <1>3, <1>4, <1>5, <1>6, <1>7, <1>8, <1>9, <1>10, <1>11, <1>12,
     <1>13, <1>14, <1>15, <1>16, <1>17, <1>18
  DEF Next

\* The moves keep the columns of a row in agreement.
LEMMA RowStepAgrees ==
    ASSUME NEW r \in Rows, NEW s, RowAgrees(r), RowStep(r, s)
    PROVE  RowAgrees(s)
<1> USE ConstantsAssumption
<1>1. CASE s = r
  BY <1>1
<1>2. CASE Posted(r, s)
  BY <1>2 DEF Posted, NoRow, RowAgrees, Held, Active
<1>3. CASE ClaimedRow(r, s)
  BY <1>3 DEF ClaimedRow, RowAgrees, Rows, Held, Active
<1>4. CASE Moved(r, s)
  BY <1>4 DEF Moved, Updated, RowAgrees, Rows, Held, Active, Terminal
<1>5. CASE TakenAway(r, s)
  BY <1>5 DEF TakenAway, EvictedRow, RowAgrees, Rows, Held, Active
<1>6. CASE Deleted(r, s)
  BY <1>6 DEF Deleted, NoRow, RowAgrees, Held, Active
<1>7. CASE Aged(r, s)
  BY <1>7 DEF Aged, RowAgrees, Rows, Held, Active
<1>8. QED
  BY <1>1, <1>2, <1>3, <1>4, <1>5, <1>6, <1>7 DEF RowStep

\* A row's columns always agree: owners, leases, and the bound on evictions.
THEOREM RowsAlwaysAgree == Spec => []RowsAgree
<1>1. Init => RowsAgree
  BY ConstantsAssumption DEF Init, RowsAgree, RowAgrees, NoRow, Held, Active
<1>2. TypeOK /\ RowsAgree /\ [Next]_vars => RowsAgree'
  <2> SUFFICES ASSUME TypeOK, RowsAgree, [Next]_vars PROVE RowsAgree'
    OBVIOUS
  <2> SUFFICES ASSUME NEW t \in Tasks PROVE RowAgrees(row'[t])
    BY DEF RowsAgree
  <2>1. row[t] \in Rows /\ RowAgrees(row[t]) /\ RowStep(row[t], row'[t])
    BY RowSteps DEF TypeOK, RowsAgree
  <2>2. QED
    BY <2>1, RowStepAgrees
<1>3. QED
  BY <1>1, <1>2, TypeCorrect, PTL DEF Spec

\* No row changes, but by the clock, without its version moving.
THEOREM VersionAlwaysMoves == Spec => VersionMoves
<1> DEFINE Bare(r) == [r EXCEPT !.lease = "none"]
           VStep == \A t \in Tasks :
                      /\ row[t].status # "absent"
                      /\ row'[t].status # "absent"
                      /\ Bare(row'[t]) # Bare(row[t])
                      => row'[t].version = row[t].version + 1
<1>1. TypeOK /\ RowsAgree /\ [Next]_vars => VStep
  <2> SUFFICES ASSUME TypeOK, RowsAgree, [Next]_vars, NEW t \in Tasks,
                      row[t].status # "absent", row'[t].status # "absent",
                      Bare(row'[t]) # Bare(row[t])
               PROVE  row'[t].version = row[t].version + 1
    OBVIOUS
  <2>1. row[t] \in Rows /\ RowStep(row[t], row'[t])
    BY RowSteps DEF TypeOK
  <2>2. CASE ClaimedRow(row[t], row'[t])
    BY <2>1, <2>2 DEF ClaimedRow, Rows
  <2>6. CASE Moved(row[t], row'[t])
    BY <2>6 DEF Moved, Updated
  <2>3. CASE TakenAway(row[t], row'[t])
    BY <2>3 DEF TakenAway, EvictedRow
  <2>4. CASE Posted(row[t], row'[t]) \/ Deleted(row[t], row'[t])
    BY <2>4 DEF Posted, Deleted, NoRow
  <2>5. CASE Aged(row[t], row'[t])
    <3>1. Bare(row'[t]) = Bare(row[t])
      BY <2>1, <2>5 DEF Aged, Rows
    <3>2. QED
      BY <3>1
  <2>7. QED
    BY <2>1, <2>2, <2>3, <2>4, <2>5, <2>6 DEF RowStep
<1>2. QED
  BY <1>1, TypeCorrect, RowsAlwaysAgree, PTL DEF Spec, VersionMoves

\* The reaper leaves suspended and compensating tasks alone.
THEOREM SuspendedAlwaysExempt == Spec => SuspendedExempt
<1> DEFINE EStep == reaper' # reaper =>
                      \A t \in Tasks :
                         row[t].status \in {"suspended", "compensating"} =>
                             row'[t] = row[t]
<1>1. TypeOK /\ [Next]_vars => EStep
  <2> SUFFICES ASSUME TypeOK, [Next]_vars, reaper' # reaper,
                      NEW t \in Tasks, row[t].status \in {"suspended", "compensating"}
               PROVE  row'[t] = row[t]
    OBVIOUS
  <2>1. \/ ReapScan \/ GraceOver \/ Restart
        \/ \E u \in Tasks : Evict(u)
    BY DEF Next, vars, Post, Claim, RegisterCancelFunc, StartExecution, StartAgain,
           Settle, RenewLease, SuspendForHITL, ResumeFromHITL, BeginCompensation,
           EndCompensation, Phase2, StopAll, Receive, Lapse, Midnight, Die
  <2>2. CASE ReapScan \/ GraceOver \/ Restart
    BY <2>2 DEF ReapScan, GraceOver, Restart
  <2>3. CASE \E u \in Tasks : Evict(u)
    BY <2>3 DEF Evict, EvictedRow, Active, TypeOK
  <2>4. QED
    BY <2>1, <2>2, <2>3
<1>2. QED
  BY <1>1, TypeCorrect, PTL DEF Spec, SuspendedExempt

-----------------------------------------------------------------------------
(* Fencing.  Tokens are versions that were read, so they never exceed the  *)
(* row's version; and each is read just after the version moved, so no two *)
(* executions of a task read the same one.                                 *)

Live(e) == Working(e) /\ ~exec[e].gone

TokensBounded ==
    \A e \in Execs : Live(e) =>
        /\ row[exec[e].task].status # "absent"
        /\ exec[e].token <= row[exec[e].task].version

TokensDiffer ==
    \A e, f \in Execs :
        Live(e) /\ Live(f) /\ exec[e].task = exec[f].task
            /\ exec[e].token = exec[f].token => e = f

TokenInv == TokensBounded /\ TokensDiffer

\* The invariant gives the property.
LEMMA TokensFence == TokenInv => Fencing
  BY DEF TokenInv, TokensDiffer, Fencing, SideEffectPreCheck, Live, Working

\* A row that stays in the table does not lose versions.
LEMMA VersionsGrow ==
    ASSUME NEW r \in Rows, NEW s, RowStep(r, s), r.status # "absent",
           s.status # "absent"
    PROVE  s.version >= r.version /\ s.version \in Nat
<1>1. CASE s = r \/ Aged(r, s)
  BY <1>1 DEF Aged, Rows
<1>2. CASE ClaimedRow(r, s)
  BY <1>2 DEF ClaimedRow, Rows
<1>3. CASE Moved(r, s)
  BY <1>3 DEF Moved, Updated, Rows
<1>4. CASE TakenAway(r, s)
  BY <1>4 DEF TakenAway, EvictedRow, Rows
<1>5. QED
  BY <1>1, <1>2, <1>3, <1>4 DEF RowStep, Posted, Deleted, NoRow

\* A step that gives no execution a task or a token, and deletes no row under
\* one that is not marked for it, keeps the invariant.
LEMMA TokensKept ==
    ASSUME TypeOK, TokenInv, \A t \in Tasks : RowStep(row[t], row'[t]),
           \A e \in Execs : Live(e)' => /\ Live(e)
                                        /\ exec'[e].task = exec[e].task
                                        /\ exec'[e].token = exec[e].token
                                        /\ row'[exec[e].task].status # "absent"
    PROVE  TokenInv'
<1>1. TokensBounded'
  <2> SUFFICES ASSUME NEW e \in Execs, Live(e)'
               PROVE  /\ row'[exec[e].task].status # "absent"
                      /\ exec[e].token <= row'[exec[e].task].version
    BY DEF TokensBounded
  <2>1. Live(e) /\ exec[e] \in Workers
    BY WorkerFields DEF Live
  <2>2. /\ exec[e].task \in Tasks /\ exec[e].token \in Nat
        /\ row[exec[e].task] \in Rows
        /\ row[exec[e].task].status # "absent"
        /\ exec[e].token <= row[exec[e].task].version
    BY <2>1 DEF Workers, TypeOK, TokenInv, TokensBounded
  <2>3. /\ row'[exec[e].task].version >= row[exec[e].task].version
        /\ row'[exec[e].task].version \in Nat
    BY <2>2, VersionsGrow
  <2>4. QED
    BY <2>2, <2>3 DEF Rows
<1>2. TokensDiffer'
  BY DEF TokenInv, TokensDiffer
<1>3. QED
  BY <1>1, <1>2 DEF TokenInv

\* The steps that hand out no token and delete no row.
Other ==
    \/ \E S \in SUBSET Tasks : Post(S)
    \/ \E e \in Execs : \/ RegisterCancelFunc(e)
                        \/ StartAgain(e)
                        \/ \E status \in Terminal : Settle(e, status)
                        \/ RenewLease(e)
                        \/ SuspendForHITL(e)
                        \/ \E approved \in BOOLEAN : ResumeFromHITL(e, approved)
                        \/ BeginCompensation(e)
                        \/ EndCompensation(e)
                        \/ Die(e)
    \/ ReapScan \/ GraceOver \/ StopAll \/ Receive \/ Midnight \/ Restart
    \/ \E t \in Tasks : Evict(t) \/ Lapse(t)
    \/ UNCHANGED vars

\* The steps gathered in Other delete no row.
LEMMA OthersKeepRows ==
    ASSUME TypeOK, Other, NEW t \in Tasks, row[t].status # "absent"
    PROVE  row'[t].status # "absent"
<1>1. CASE \E S \in SUBSET Tasks : Post(S)
  BY <1>1 DEF Post
<1>2. ASSUME NEW e \in Execs, NEW st \in Statuses \ {"absent"}, NEW l, Update(e, st, l)
      PROVE  row'[t].status # "absent"
  <2>1. CASE t = exec[e].task
    <3>1. row \in [Tasks -> Rows]
      BY DEF TypeOK
    <3>2. row'[t] = Updated(row[t], st, l)
      BY <1>2, <2>1, <3>1 DEF Update
    <3>3. QED
      BY <3>2 DEF Updated
  <2>2. CASE t # exec[e].task
    BY <1>2, <2>2 DEF Update, TypeOK
  <2>3. QED
    BY <2>1, <2>2
<1>3. ASSUME NEW e \in Execs, NEW status \in Terminal, Settle(e, status)
      PROVE  row'[t].status # "absent"
  BY <1>2, <1>3 DEF Settle, Terminal, Statuses
<1>4. ASSUME NEW e \in Execs, NEW approved \in BOOLEAN, ResumeFromHITL(e, approved)
      PROVE  row'[t].status # "absent"
  BY <1>2, <1>4 DEF ResumeFromHITL, Statuses
<1>5. ASSUME NEW e \in Execs,
             \/ RenewLease(e) \/ SuspendForHITL(e)
             \/ BeginCompensation(e) \/ EndCompensation(e)
      PROVE  row'[t].status # "absent"
  BY <1>2, <1>5
  DEF RenewLease, SuspendForHITL, BeginCompensation, EndCompensation, Statuses
<1>6. ASSUME NEW u \in Tasks, Evict(u) PROVE row'[t].status # "absent"
  BY <1>6 DEF Evict, EvictedRow, TypeOK
<1>7. ASSUME NEW u \in Tasks, Lapse(u) PROVE row'[t].status # "absent"
  BY <1>7 DEF Lapse, TypeOK, Rows
<1>8. CASE StopAll \/ Midnight
  <2>1. \/ row'[t] = row[t]
        \/ row'[t] = [row[t] EXCEPT !.lease = "visible"]
        \/ row'[t] = Updated(row[t], "suspended", "none")
    BY <1>8 DEF StopAll, Midnight
  <2>2. row[t] \in Rows
    BY DEF TypeOK
  <2>3. CASE row'[t] = Updated(row[t], "suspended", "none")
    BY <2>3 DEF Updated
  <2>4. QED
    BY <2>1, <2>2, <2>3 DEF Rows
<1>9. ASSUME NEW e \in Execs, RegisterCancelFunc(e) \/ StartAgain(e) \/ Die(e)
      PROVE  row'[t].status # "absent"
  BY <1>9 DEF RegisterCancelFunc, StartAgain, Die
<1>10. CASE ReapScan \/ GraceOver \/ Receive \/ Restart \/ UNCHANGED vars
  BY <1>10 DEF ReapScan, GraceOver, Receive, Restart, vars
<1>11. QED
  BY <1>1, <1>3, <1>4, <1>5, <1>6, <1>7, <1>8, <1>9, <1>10 DEF Other

\* The steps gathered in Other start no execution and give none a new version.
LEMMA OthersKeepTokens ==
    ASSUME TypeOK, Other, NEW e \in Execs, Live(e)'
    PROVE  /\ Live(e)
           /\ exec'[e].task = exec[e].task
           /\ exec'[e].token = exec[e].token
<1>1. CASE exec' = exec
  BY <1>1 DEF Live, Working
<1>2. ASSUME NEW f \in Execs, exec' = [exec EXCEPT ![f] = Idle]
      PROVE  exec'[e] = exec[e]
  BY <1>2 DEF TypeOK, Live, Working, Idle
<1>3. ASSUME NEW f \in Execs, StartAgain(f)
      PROVE  /\ Live(e)
             /\ exec'[e].task = exec[e].task
             /\ exec'[e].token = exec[e].token
  <2>1. CASE e = f
    <3>1. exec[f] \in Workers /\ exec'[f] = [exec[f] EXCEPT !.st = "running"]
      BY <1>3, WorkerFields DEF StartAgain, Working, TypeOK
    <3>2. QED
      BY <1>3, <2>1, <3>1 DEF StartAgain, Live, Working, Workers
  <2>2. CASE e # f
    BY <1>3, <2>2 DEF StartAgain, Live, Working, TypeOK
  <2>3. QED
    BY <2>1, <2>2
<1>4. CASE ReapScan
  <2>1. CASE exec'[e] = exec[e]
    BY <2>1 DEF Live, Working
  <2>2. CASE exec'[e] # exec[e]
    <3>1. exec'[e] = [exec[e] EXCEPT !.st = "aborting"] /\ exec[e].st \in {"claimed", "running"}
      BY <1>4, <2>2 DEF ReapScan
    <3>2. Working(e) /\ exec[e] \in Workers
      BY <3>1, WorkerFields DEF Working
    <3>3. QED
      BY <3>1, <3>2 DEF Live, Workers
  <2>3. QED
    BY <2>1, <2>2
<1>5. CASE Restart
  BY <1>5 DEF Restart, Live, Working, Idle
<1>6. ASSUME NEW f \in Execs,
             \/ \E status \in Terminal : Settle(f, status)
             \/ \E approved \in BOOLEAN : ResumeFromHITL(f, approved)
             \/ EndCompensation(f)
             \/ Die(f)
      PROVE  exec'[e] = exec[e]
  <2>1. exec' = exec \/ exec' = [exec EXCEPT ![f] = Idle]
    BY <1>6 DEF Settle, ResumeFromHITL, EndCompensation, Die
  <2>2. QED
    BY <1>2, <2>1
<1>7. CASE \/ \E S \in SUBSET Tasks : Post(S)
           \/ \E f \in Execs : \/ RegisterCancelFunc(f) \/ RenewLease(f)
                               \/ SuspendForHITL(f) \/ BeginCompensation(f)
           \/ GraceOver \/ StopAll \/ Receive \/ Midnight
           \/ \E t \in Tasks : Evict(t) \/ Lapse(t)
           \/ UNCHANGED vars
  <2>1. exec' = exec
    BY <1>7 DEF Post, RegisterCancelFunc, RenewLease, SuspendForHITL, BeginCompensation,
                GraceOver, StopAll, Receive, Midnight, Evict, Lapse, vars
  <2>2. QED
    BY <1>1, <2>1
<1>8. CASE exec'[e] = exec[e]
  BY <1>8 DEF Live, Working
<1>9. QED
  BY <1>3, <1>4, <1>5, <1>6, <1>7, <1>8 DEF Other

\* A step that gives one execution the version it has just moved a row to
\* keeps the invariant.
LEMMA TokenTaken ==
    ASSUME TypeOK, TokenInv, NEW e \in Execs, NEW t \in Tasks, NEW w \in Workers,
           row[t].status # "absent",
           row'[t].status # "absent",
           row'[t].version = row[t].version + 1,
           \A u \in Tasks : u # t => row'[u] = row[u],
           exec' = [exec EXCEPT ![e] = w],
           w.task = t, w.token = row[t].version + 1
    PROVE  TokenInv'
<1>1. row[t].version \in Nat
  BY DEF TypeOK, Rows
<1>2. \A f \in Execs : Live(f) => /\ exec[f].task \in Tasks
                                  /\ exec[f].token \in Nat
                                  /\ exec[f].token <= row[exec[f].task].version
                                  /\ row[exec[f].task].status # "absent"
  BY WorkerFields DEF Workers, TokenInv, TokensBounded, Live
<1>3. exec'[e] = w /\ \A f \in Execs : f # e => exec'[f] = exec[f] /\ (Live(f)' <=> Live(f))
  BY DEF TypeOK, Live, Working
<1>4. TokensBounded'
  <2> SUFFICES ASSUME NEW f \in Execs, Live(f)'
               PROVE  /\ row'[exec'[f].task].status # "absent"
                      /\ exec'[f].token <= row'[exec'[f].task].version
    BY DEF TokensBounded
  <2>1. CASE f = e
    BY <2>1, <1>1, <1>3
  <2>2. CASE f # e /\ exec[f].task = t
    BY <2>2, <1>1, <1>2, <1>3
  <2>3. CASE f # e /\ exec[f].task # t
    BY <2>3, <1>2, <1>3
  <2>4. QED
    BY <2>1, <2>2, <2>3
<1>5. TokensDiffer'
  <2> SUFFICES ASSUME NEW f \in Execs, NEW g \in Execs, Live(f)', Live(g)',
                      exec'[f].task = exec'[g].task, exec'[f].token = exec'[g].token
               PROVE  f = g
    BY DEF TokensDiffer
  <2>1. CASE f # e /\ g # e
    BY <2>1, <1>3 DEF TokenInv, TokensDiffer
  <2>2. ASSUME NEW h \in Execs, h # e, Live(h)', exec'[h].task = t
        PROVE  exec'[h].token # row[t].version + 1
    BY <2>2, <1>1, <1>2, <1>3
  <2>3. CASE f = e /\ g # e
    BY <2>2, <2>3, <1>3
  <2>4. CASE f # e /\ g = e
    BY <2>2, <2>4, <1>3
  <2>5. QED
    BY <2>1, <2>3, <2>4
<1>6. QED
  BY <1>4, <1>5 DEF TokenInv

\* At most one execution at a time passes SideEffectPreCheck for a task.
THEOREM AlwaysFenced == Spec => []Fencing
<1>1. Init => TokenInv
  BY DEF Init, TokenInv, TokensBounded, TokensDiffer, Live, Working, Idle
<1>2. TypeOK /\ RowsAgree /\ TokenInv /\ [Next]_vars => TokenInv'
  <2> SUFFICES ASSUME TypeOK, RowsAgree, TokenInv, [Next]_vars PROVE TokenInv'
    OBVIOUS
  <2>1. \A t \in Tasks : RowStep(row[t], row'[t])
    BY RowSteps
  <2>2. ASSUME NEW e \in Execs, NEW a \in Agents, NEW t \in Tasks, Claim(e, a, t)
        PROVE TokenInv'
    <3> DEFINE w == [st |-> "claimed", agent |-> a, task |-> t,
                     token |-> row[t].version + 1, gone |-> FALSE]
    <3>1. row[t].version + 1 \in Nat
      BY DEF TypeOK, Rows
    <3>2. w \in Workers /\ w.task = t /\ w.token = row[t].version + 1
      BY <3>1 DEF Workers
    <3>3. /\ row[t].status # "absent" /\ row'[t].status # "absent"
          /\ row'[t].version = row[t].version + 1
          /\ \A u \in Tasks : u # t => row'[u] = row[u]
      BY <2>2 DEF Claim, CASClaim, TypeOK, Rows
    <3>4. exec' = [exec EXCEPT ![e] = w]
      BY <2>2 DEF Claim
    <3> HIDE DEF w
    <3>5. QED
      BY <3>2, <3>3, <3>4, TokenTaken
  <2>3. ASSUME NEW e \in Execs, StartExecution(e) PROVE TokenInv'
    <3> DEFINE t == exec[e].task
               n == row[t].version + 1
               w == [exec[e] EXCEPT !.st = "running", !.token = n]
    <3>1. exec[e] \in Workers /\ t \in Tasks
      BY <2>3, WorkerFields DEF StartExecution, Working, Workers
    <3>2. n \in Nat
      BY <3>1 DEF TypeOK, Rows
    <3>3. exec' = [exec EXCEPT ![e].st = "running", ![e].token = n]
      BY <2>3 DEF StartExecution
    <3>4. /\ row[t].status # "absent" /\ row'[t].status # "absent"
          /\ row'[t].version = n
          /\ \A u \in Tasks : u # t => row'[u] = row[u]
      <4>1. row[t].status # "absent" /\ Update(e, "running", row[t].lease) /\ Working(e)
        BY <2>3, <3>1 DEF StartExecution, Working
      <4>2. QED
        BY <4>1, UpdateAt, UpdatedFields
    <3> HIDE DEF n
    <3>5. w \in Workers /\ w.task = t /\ w.token = n
      BY <3>1, <3>2 DEF Workers
    <3>6. exec' = [exec EXCEPT ![e] = w]
      BY <3>3 DEF TypeOK
    <3> HIDE DEF w
    <3>7. QED
      BY <3>1, <3>4, <3>5, <3>6, TokenTaken DEF n
  <2>4. ASSUME NEW S \in SUBSET Tasks, Phase2(S) PROVE TokenInv'
    <3>1. ASSUME NEW e \in Execs, Live(e)'
          PROVE  /\ Live(e) /\ exec'[e] = exec[e]
                 /\ exec[e].task \in Tasks \ S
      <4>1. CASE Working(e) /\ exec[e].task \in S
        <5>1. exec'[e] = [exec[e] EXCEPT !.gone = TRUE]
          BY <2>4, <4>1 DEF Phase2
        <5>2. exec'[e].gone
          BY <4>1, <5>1, WorkerFields DEF Workers
        <5>3. QED
          BY <3>1, <5>2 DEF Live
      <4>2. CASE ~(Working(e) /\ exec[e].task \in S)
        <5>1. exec'[e] = exec[e]
          BY <2>4, <4>2 DEF Phase2
        <5>2. QED
          BY <3>1, <4>2, <5>1, WorkerFields DEF Live, Working, Workers
      <4>3. QED
        BY <4>1, <4>2
    <3>2. ASSUME NEW e \in Execs, Live(e)'
          PROVE  row'[exec[e].task].status # "absent"
      BY <2>4, <3>1, <3>2 DEF Phase2, TokenInv, TokensBounded
    <3>3. QED
      BY <2>1, <3>1, <3>2, TokensKept
  <2>5. CASE Other
    <3>1. ASSUME NEW e \in Execs, Live(e)'
          PROVE  /\ Live(e)
                 /\ exec'[e].task = exec[e].task
                 /\ exec'[e].token = exec[e].token
      BY <2>5, <3>1, OthersKeepTokens
    <3>2. ASSUME NEW e \in Execs, Live(e)'
          PROVE  row'[exec[e].task].status # "absent"
      BY <2>5, <3>1, <3>2, OthersKeepRows, WorkerFields
      DEF TokenInv, TokensBounded, Live, Workers
    <3>3. QED
      BY <2>1, <3>1, <3>2, TokensKept
  <2>6. QED
    BY <2>2, <2>3, <2>4, <2>5 DEF Next, Other
<1>3. QED
  BY <1>1, <1>2, TokensFence, TypeCorrect, RowsAlwaysAgree, PTL DEF Spec

-----------------------------------------------------------------------------
(* The blackboard implements the abstract lease. *)

\* A step that changes what the abstraction sees of one task only.
LEMMA LeaseAt ==
    ASSUME TypeOK, NEW t \in Tasks, \A u \in Tasks : u # t => row'[u] = row[u]
    PROVE  /\ LeasePhase' = [LeasePhase EXCEPT ![t] = Phase(row'[t])]
           /\ LeaseHolder' = [LeaseHolder EXCEPT ![t] =
                                 IF row'[t].status \in Held THEN row'[t].owner
                                 ELSE NoAgent]
           /\ LeaseEvictions' = [LeaseEvictions EXCEPT ![t] = row'[t].toxicity]
  BY DEF LeasePhase, LeaseHolder, LeaseEvictions, Phase

\* Rows that keep status class, owner and toxicity are a stutter.
LEMMA LeaseStutter ==
    ASSUME \A t \in Tasks :
              /\ \/ row[t].status \in Held /\ row'[t].status \in Held
                 \/ row'[t].status = row[t].status
              /\ row'[t].owner = row[t].owner
              /\ row'[t].toxicity = row[t].toxicity
    PROVE  UNCHANGED Lease!leaseVars
<1>1. LeasePhase' = LeasePhase
  BY DEF LeasePhase, Phase, Held, Active, Terminal
<1>2. LeaseHolder' = LeaseHolder /\ LeaseEvictions' = LeaseEvictions
  BY DEF LeaseHolder, LeaseEvictions
<1>3. QED
  BY <1>1, <1>2 DEF Lease!leaseVars

\* What an owner's UPDATE does to the row.
LEMMA UpdatedRow ==
    ASSUME TypeOK, NEW e \in Execs, Working(e), NEW st, NEW l, Update(e, st, l)
    PROVE  /\ exec[e].task \in Tasks /\ exec[e].agent \in Agents
           /\ \A u \in Tasks : u # exec[e].task => row'[u] = row[u]
           /\ row'[exec[e].task].status = st
           /\ row'[exec[e].task].owner = row[exec[e].task].owner
           /\ row'[exec[e].task].toxicity = row[exec[e].task].toxicity
  BY UpdateAt, UpdatedFields

\* It leaves a held task held ...
LEMMA HeldUpdate ==
    ASSUME TypeOK, NEW e \in Execs, Working(e), NEW st \in Held, NEW l,
           row[exec[e].task].status \in Held, Update(e, st, l)
    PROVE  UNCHANGED Lease!leaseVars
  BY UpdatedRow, LeaseStutter

\* ... or settles it, for its holder.
LEMMA ClosingUpdate ==
    ASSUME TypeOK, NEW e \in Execs, Working(e), NEW st \in Terminal, NEW l,
           row[exec[e].task].status \in Held, Owned(e), Update(e, st, l)
    PROVE  Lease!LeaseNext
<1> DEFINE t == exec[e].task
<1>1. /\ t \in Tasks /\ exec[e].agent \in Agents
      /\ \A u \in Tasks : u # t => row'[u] = row[u]
      /\ row'[t].status = st /\ row'[t].toxicity = row[t].toxicity
  BY UpdatedRow
<1>2. /\ LeasePhase[t] = "held" /\ LeaseHolder[t] = exec[e].agent
      /\ Phase(row'[t]) = "closed" /\ row'[t].status \notin Held
  BY <1>1 DEF LeasePhase, LeaseHolder, Phase, Owned, Held, Active, Terminal
<1>3. LeaseEvictions' = LeaseEvictions
  BY <1>1 DEF LeaseEvictions
<1>4. Lease!Settle(exec[e].agent, t)
  BY <1>1, <1>2, <1>3, LeaseAt DEF Lease!Settle
<1>5. QED
  BY <1>1, <1>4 DEF Lease!LeaseNext

\* Every behaviour of the blackboard is one of the abstract lease: a task has
\* one holder at a time, changes hands through open only, is closed once, and
\* is taken away at most ToxicityLimit times.
THEOREM ImplementsLease == Spec => LeaseRefinement
<1>1. Init => Lease!LeaseInit
  BY DEF Init, NoRow, Lease!LeaseInit, LeasePhase, LeaseHolder, LeaseEvictions, Phase, Held, Active,
         Terminal
<1>2. TypeOK /\ RowsAgree /\ [Next]_vars => [Lease!LeaseNext]_(Lease!leaseVars)
  <2> DEFINE Goal == Lease!LeaseNext \/ UNCHANGED Lease!leaseVars
  <2> SUFFICES ASSUME TypeOK, RowsAgree, [Next]_vars PROVE Goal
    OBVIOUS
  <2>1. ASSUME NEW S \in SUBSET Tasks, Post(S) PROVE Goal
    <3> DEFINE N == {t \in S : row[t].status = "absent"}
    <3>1. /\ \A t \in N : row'[t] = [NoRow EXCEPT !.status = "pending"] /\ row[t] = NoRow
          /\ \A t \in Tasks \ N : row'[t] = row[t]
      BY <2>1 DEF Post, RowsAgree, RowAgrees
    <3>2. \A t \in N : LeasePhase[t] = "absent"
      BY DEF LeasePhase, Phase, Held, Active, Terminal
    <3>3. LeasePhase' = [t \in Tasks |-> IF t \in N THEN "open" ELSE LeasePhase[t]]
      BY <3>1 DEF LeasePhase, Phase, NoRow, Held, Active, Terminal
    <3>4. LeaseHolder' = LeaseHolder /\ LeaseEvictions' = LeaseEvictions
      BY <3>1 DEF LeaseHolder, LeaseEvictions, NoRow, Held, Active
    <3>5. Lease!Publish(N)
      BY <3>2, <3>3, <3>4 DEF Lease!Publish
    <3>6. QED
      BY <3>5 DEF Lease!LeaseNext
  <2>2. ASSUME NEW e \in Execs, NEW a \in Agents, NEW t \in Tasks, Claim(e, a, t)
        PROVE Goal
    <3>1. /\ row[t].status = "pending"
          /\ row'[t].status = "claimed" /\ row'[t].owner = a
          /\ row'[t].toxicity = row[t].toxicity
          /\ \A u \in Tasks : u # t => row'[u] = row[u]
      BY <2>2 DEF Claim, CASClaim, TypeOK, Rows
    <3>2. /\ LeasePhase[t] = "open" /\ Phase(row'[t]) = "held"
          /\ row'[t].status \in Held
      BY <3>1 DEF LeasePhase, Phase, Held, Active, Terminal
    <3>3. LeaseEvictions' = LeaseEvictions
      BY <3>1 DEF LeaseEvictions
    <3>4. Lease!Acquire(a, t)
      BY <3>1, <3>2, <3>3, LeaseAt DEF Lease!Acquire
    <3>5. QED
      BY <3>4 DEF Lease!LeaseNext
  <2>3. ASSUME NEW e \in Execs, StartExecution(e) PROVE Goal
    BY <2>3, HeldUpdate DEF StartExecution, Working, Held, Active
  <2>4. ASSUME NEW e \in Execs, NEW status \in Terminal, Settle(e, status) PROVE Goal
    <3>1. CASE Owned(e) /\ row[exec[e].task].status \in Active
      BY <2>4, <3>1, ClosingUpdate DEF Settle, Held
    <3>2. CASE ~(Owned(e) /\ row[exec[e].task].status \in Active)
      BY <2>4, <3>2, LeaseStutter DEF Settle
    <3>3. QED
      BY <3>1, <3>2
  <2>5. ASSUME NEW e \in Execs,
               RenewLease(e) \/ SuspendForHITL(e) \/ BeginCompensation(e)
        PROVE Goal
    BY <2>5, HeldUpdate
    DEF RenewLease, SuspendForHITL, BeginCompensation, Working, Held, Active
  <2>6. ASSUME NEW e \in Execs, NEW approved \in BOOLEAN, ResumeFromHITL(e, approved)
        PROVE Goal
    <3>1. CASE approved
      BY <2>6, <3>1, HeldUpdate DEF ResumeFromHITL, Working, Held, Active
    <3>2. CASE ~approved
      BY <2>6, <3>2, ClosingUpdate DEF ResumeFromHITL, Working, Held, Active, Terminal
    <3>3. QED
      BY <3>1, <3>2
  <2>7. ASSUME NEW e \in Execs, EndCompensation(e) PROVE Goal
    BY <2>7, ClosingUpdate DEF EndCompensation, Working, Held, Active, Terminal
  <2>8. ASSUME NEW t \in Tasks, Evict(t) PROVE Goal
    <3>1. row'[t] = EvictedRow(row[t]) /\ \A u \in Tasks : u # t => row'[u] = row[u]
      BY <2>8 DEF Evict, TypeOK
    <3>2. CASE row[t].status \notin Active
      <4>1. \A u \in Tasks : row'[u] = row[u]
        BY <3>1, <3>2 DEF EvictedRow
      <4>2. QED
        BY <4>1, LeaseStutter
    <3>3. CASE row[t].status \in Active
      <4>1. row[t].toxicity \in Nat /\ row[t].toxicity < ToxicityLimit
        <5>1. RowAgrees(row[t]) /\ row[t].status # "failed"
          BY <3>3 DEF RowsAgree, Active
        <5>2. row[t].toxicity <= ToxicityLimit /\ row[t].toxicity # ToxicityLimit
          BY <5>1 DEF RowAgrees
        <5>3. row[t].toxicity \in Nat
          BY DEF TypeOK, Rows
        <5>4. QED
          BY <5>2, <5>3, ConstantsAssumption
      <4>2. /\ LeasePhase[t] = "held"
            /\ LeaseEvictions[t] = row[t].toxicity
            /\ row'[t].toxicity = row[t].toxicity + 1
            /\ row'[t].status \notin Held
        BY <3>1, <3>3 DEF EvictedRow, LeasePhase, LeaseEvictions, Phase, Held, Active
      <4>3. Phase(row'[t]) = IF row[t].toxicity + 1 = ToxicityLimit THEN "closed"
                             ELSE "open"
        BY <3>1, <3>3, <4>1, ConstantsAssumption
        DEF EvictedRow, Phase, Held, Active, Terminal
      <4>4. Lease!TakeAway(t)
        BY <3>1, <4>1, <4>2, <4>3, LeaseAt DEF Lease!TakeAway
      <4>5. QED
        BY <4>4 DEF Lease!LeaseNext
    <3>4. QED
      BY <3>2, <3>3
  <2>9. ASSUME NEW S \in SUBSET Tasks, Phase2(S) PROVE Goal
    <3>1. /\ \A t \in S : row[t].status \in Terminal /\ row'[t] = NoRow
          /\ \A t \in Tasks \ S : row'[t] = row[t]
      BY <2>9 DEF Phase2
    <3>2. \A t \in S : LeasePhase[t] = "closed"
      BY <3>1 DEF LeasePhase, Phase, Held, Active, Terminal
    <3>3. LeasePhase' = [t \in Tasks |-> IF t \in S THEN "absent" ELSE LeasePhase[t]]
      BY <3>1 DEF LeasePhase, Phase, NoRow, Held, Active, Terminal
    <3>4. LeaseEvictions' = [t \in Tasks |-> IF t \in S THEN 0 ELSE LeaseEvictions[t]]
      BY <3>1 DEF LeaseEvictions, NoRow
    <3>5. LeaseHolder' = LeaseHolder
      BY <3>1 DEF LeaseHolder, NoRow, Held, Active, Terminal
    <3>6. QED
      BY <3>2, <3>3, <3>4, <3>5 DEF Lease!Forget, Lease!LeaseNext
  <2>10. CASE StopAll
    <3>1. \A t \in Tasks :
             \/ row'[t] = row[t]
             \/ /\ row[t].status \in Active
                /\ row'[t] = Updated(row[t], "suspended", "none")
      BY <2>10 DEF StopAll
    <3>2. \A t \in Tasks : row[t] \in Rows
      BY DEF TypeOK
    <3>3. \A t \in Tasks :
             /\ \/ row[t].status \in Held /\ row'[t].status \in Held
                \/ row'[t].status = row[t].status
             /\ row'[t].owner = row[t].owner
             /\ row'[t].toxicity = row[t].toxicity
      <4> TAKE t \in Tasks
      <4>1. CASE row'[t] = row[t]
        BY <4>1
      <4>2. CASE row'[t] # row[t]
        <5>1. row[t].status \in Active
          BY <3>1, <4>2
        <5>2. row'[t] = Updated(row[t], "suspended", "none")
          BY <3>1, <4>2
        <5>3. /\ row'[t].status = "suspended"
              /\ row'[t].owner = row[t].owner
              /\ row'[t].toxicity = row[t].toxicity
          BY <5>2 DEF Updated
        <5>4. QED
          BY <5>1, <5>3 DEF Held, Active
      <4>3. QED
        BY <4>1, <4>2
    <3>4. QED
      BY <3>3, LeaseStutter
  <2>11. ASSUME NEW t \in Tasks, Lapse(t) PROVE Goal
    BY <2>11, LeaseStutter DEF Lapse, TypeOK, Rows
  <2>12. CASE Midnight
    BY <2>12, LeaseStutter DEF Midnight, TypeOK, Rows
  <2>13. CASE \/ \E e \in Execs : RegisterCancelFunc(e) \/ StartAgain(e) \/ Die(e)
              \/ ReapScan \/ GraceOver \/ Receive \/ Restart \/ UNCHANGED vars
    <3>1. row' = row
      BY <2>13 DEF RegisterCancelFunc, StartAgain, Die, ReapScan, GraceOver, Receive,
                   Restart, vars
    <3>2. QED
      BY <3>1, LeaseStutter
  <2>14. QED
    BY <2>1, <2>2, <2>3, <2>4, <2>5, <2>6, <2>7, <2>8, <2>9, <2>10, <2>11, <2>12, <2>13
    DEF Next
<1>3. QED
  BY <1>1, <1>2, TypeCorrect, RowsAlwaysAgree, PTL DEF Spec, LeaseRefinement, Lease!LeaseSpec
=============================================================================

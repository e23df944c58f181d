----------------------------- MODULE TaskLease -----------------------------
(***************************************************************************)
(* What the blackboard promises about a task, whatever its tables,         *)
(* versions and goroutines look like: a task is open, then held by one     *)
(* agent, then closed for good; it goes from one holder to another only    *)
(* through open; it is taken away from its holders a bounded number of     *)
(* times; and it is forgotten only when it is closed.                      *)
(***************************************************************************)
EXTENDS Naturals

CONSTANTS Tasks, Agents, NoAgent, ToxicityLimit

VARIABLES phase, holder, evictions

leaseVars == <<phase, holder, evictions>>

LeaseInit ==
    /\ phase = [t \in Tasks |-> "absent"]
    /\ holder = [t \in Tasks |-> NoAgent]
    /\ evictions = [t \in Tasks |-> 0]

\* Tasks are posted, one or many at once.
Publish(S) ==
    /\ \A t \in S : phase[t] = "absent"
    /\ phase' = [t \in Tasks |-> IF t \in S THEN "open" ELSE phase[t]]
    /\ UNCHANGED <<holder, evictions>>

\* An agent takes an open task.
Acquire(a, t) ==
    /\ phase[t] = "open"
    /\ phase' = [phase EXCEPT ![t] = "held"]
    /\ holder' = [holder EXCEPT ![t] = a]
    /\ UNCHANGED evictions

\* The holder, and nobody else, settles the task.
Settle(a, t) ==
    /\ phase[t] = "held"
    /\ holder[t] = a
    /\ phase' = [phase EXCEPT ![t] = "closed"]
    /\ holder' = [holder EXCEPT ![t] = NoAgent]
    /\ UNCHANGED evictions

\* The task is taken from a holder: it is open again, or, when that has
\* happened once too often, closed.
TakeAway(t) ==
    /\ phase[t] = "held"
    /\ evictions[t] < ToxicityLimit
    /\ evictions' = [evictions EXCEPT ![t] = @ + 1]
    /\ phase' = [phase EXCEPT ![t] =
                    IF evictions[t] + 1 = ToxicityLimit THEN "closed" ELSE "open"]
    /\ holder' = [holder EXCEPT ![t] = NoAgent]

\* Closed tasks are forgotten.
Forget(S) ==
    /\ \A t \in S : phase[t] = "closed"
    /\ phase' = [t \in Tasks |-> IF t \in S THEN "absent" ELSE phase[t]]
    /\ evictions' = [t \in Tasks |-> IF t \in S THEN 0 ELSE evictions[t]]
    /\ UNCHANGED holder

LeaseNext ==
    \/ \E S \in SUBSET Tasks : Publish(S) \/ Forget(S)
    \/ \E t \in Tasks : TakeAway(t)
    \/ \E a \in Agents, t \in Tasks : Acquire(a, t) \/ Settle(a, t)

LeaseSpec == LeaseInit /\ [][LeaseNext]_leaseVars
=============================================================================

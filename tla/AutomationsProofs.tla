-------------------------- MODULE AutomationsProofs --------------------------
(***************************************************************************)
(* Proofs about Automations: for any number of automations, requests,      *)
(* executions and ends of the process, the types, and that whatever the    *)
(* tables call running is being executed or was killed with the process.   *)
(***************************************************************************)
EXTENDS Automations, FiniteSetTheorems, TLAPS

LEMMA Constants ==
    /\ None \notin Autorows /\ None \notin Jobs /\ None # "running" /\ None # "ended"
    /\ Offered \subseteq Settings
    /\ IsFiniteSet(Autos)
    /\ MaxRuns \in Nat /\ MaxOps \in Nat /\ MaxEnds \in Nat /\ MaxFaults \in Nat
  BY AutomationsAssumption

LEMMA NextTypes ==
    \A c \in Schedules : NextOf(c) \in {"empty", "future", "due"}
  BY DEF NextOf

\* A step of an execution moves it and nothing else.
LEMMA StepEffect ==
    ASSUME TypeOK, NEW r \in Runs, job[r] # None,
           NEW s \in {"mark", "work", "finish", "stats", "over"}, Step(r, s)
    PROVE  /\ job' \in [Runs -> Jobs \cup {None}]
           /\ job'[r] # None /\ job'[r].at = s /\ job'[r].auto = job[r].auto
           /\ \A q \in Runs \ {r} : job'[q] = job[q]
           /\ \A q \in Runs : job'[q] # None <=> job[q] # None
  <1>1. job[r] \in Jobs
    BY DEF TypeOK
  <1>2. /\ [job[r] EXCEPT !.at = s] \in Jobs
        /\ [job[r] EXCEPT !.at = s].at = s
        /\ [job[r] EXCEPT !.at = s].auto = job[r].auto
    BY <1>1 DEF Jobs
  <1>3. job' = [job EXCEPT ![r] = [job[r] EXCEPT !.at = s]]
    BY DEF Step
  <1>4. job'[r] = [job[r] EXCEPT !.at = s]
    BY <1>3 DEF TypeOK
  <1>5. \A q \in Runs \ {r} : job'[q] = job[q]
    BY <1>3 DEF TypeOK
  <1>6. job' \in [Runs -> Jobs \cup {None}]
    BY <1>2, <1>3 DEF TypeOK
  <1>. QED BY <1>2, <1>4, <1>5, <1>6, Constants

\* Executions that start take new numbers.
LEMMA StartEffect ==
    ASSUME TypeOK, NEW found \in SUBSET Autos, \A a \in found : auto[a] # None,
           NEW by \in {"cron", "webhook", "manual"}, NEW inTurn \in BOOLEAN,
           Start(found, by, inTurn)
    PROVE  /\ job' \in [Runs -> Jobs \cup {None}]
           /\ used' \in 0 .. MaxRuns
           /\ \A r \in Runs : job'[r] # None => r <= used'
           /\ \A r \in Runs : job[r] # None => job'[r] = job[r]
  <1>1. Cardinality(found) \in Nat
    BY Constants, FS_Subset, FS_CardinalityType
  <1>2. used \in Nat /\ used' = used + Cardinality(found) /\ used' <= MaxRuns
    BY <1>1, Constants DEF TypeOK, Start, Fits
  <1>3. PICK f \in Orders(found) :
            job' = [r \in Runs |->
                       IF \E a \in found : f[a] = r
                       THEN LET a == CHOOSE b \in found : f[b] = r
                            IN  Job(a, by, auto[a].set.schedule,
                                    IF inTurn THEN used + 1 .. r - 1 ELSE {})
                       ELSE job[r]]
    BY DEF Start
  <1>4. \A a \in found : f[a] \in used + 1 .. used'
    BY <1>2, <1>3 DEF Orders
  <1>5. ASSUME NEW r \in Runs
        PROVE  /\ job'[r] \in Jobs \cup {None}
               /\ job'[r] # None => r <= used'
               /\ job[r] # None => job'[r] = job[r]
    <2>1. CASE \E a \in found : f[a] = r
      <3>1. PICK a \in found : a = CHOOSE b \in found : f[b] = r
        BY <2>1
      <3>2. f[a] = r
        BY <2>1, <3>1
      <3>3. job'[r] = Job(a, by, auto[a].set.schedule,
                          IF inTurn THEN used + 1 .. r - 1 ELSE {})
        BY <1>3, <2>1, <3>1
      <3>4. auto[a].set.schedule \in Schedules
        BY DEF TypeOK, Autorows, Settings
      <3>5. (IF inTurn THEN used + 1 .. r - 1 ELSE {}) \in SUBSET Runs
        BY <1>2, Constants DEF Runs
      <3>6. job'[r] \in Jobs
        BY <3>3, <3>4, <3>5 DEF Job, Jobs
      <3>7. r \in used + 1 .. used'
        BY <1>4, <3>2
      <3>8. job[r] = None
        BY <1>2, <3>7 DEF TypeOK, Runs
      <3>. QED BY <1>2, <3>6, <3>7, <3>8
    <2>2. CASE ~ \E a \in found : f[a] = r
      <3>1. job'[r] = job[r]
        BY <1>3, <2>2
      <3>. QED BY <1>1, <1>2, <3>1, Constants DEF TypeOK, Runs
    <2>. QED BY <2>1, <2>2
  <1>6. job' \in [Runs -> Jobs \cup {None}]
    <2>1. job' = [r \in Runs |-> job'[r]]
      BY <1>3
    <2>. QED BY <1>5, <2>1
  <1>7. used' \in 0 .. MaxRuns
    BY <1>1, <1>2, Constants
  <1>. QED BY <1>5, <1>6, <1>7

(***************************************************************************)
(* Types.                                                                  *)
(***************************************************************************)
LEMMA RequestTypes ==
    ASSUME TypeOK, NEW h \in Handlers,
           Create(h) \/ BeginUpdate(h) \/ Update(h) \/ DeleteRuns(h) \/ Delete(h)
    PROVE  TypeOK'
  <1>. USE Constants
  <1>1. CASE Create(h)
    <2>1. \A s \in Offered : [set |-> s, next |-> NextOf(s.schedule), running |-> FALSE]
                                 \in Autorows
      BY NextTypes DEF Autorows, Settings
    <2>. QED BY <1>1, <2>1 DEF TypeOK, Create, Request, lost
  <1>2. CASE BeginUpdate(h)
    <2>1. PICK a \in Autos, s \in Offered :
              handler' = [handler EXCEPT ![h] = [at |-> "update", auto |-> a, set |-> s]]
      BY <1>2 DEF BeginUpdate
    <2>2. [at |-> "update", auto |-> a, set |-> s] \in Requests
      BY DEF Requests
    <2>. QED BY <1>2, <2>1, <2>2 DEF TypeOK, BeginUpdate, Request, lost
  <1>3. CASE Update(h)
    <2>1. handler[h].auto \in Autos /\ handler[h].set \in Settings
      BY <1>3 DEF TypeOK, Update, Requests
    <2>2. \A row \in Autorows, s \in Settings : Updated(row, s) \in Autorows
      BY NextTypes DEF Updated, Autorows, Settings
    <2>3. auto' \in [Autos -> Autorows \cup {None}]
      BY <1>3, <2>1, <2>2 DEF TypeOK, Update
    <2>4. handler' \in [Handlers -> Requests]
      BY <1>3 DEF TypeOK, Update, Requests
    <2>. QED BY <1>3, <2>3, <2>4 DEF TypeOK, Update, bounds, lost
  <1>4. CASE DeleteRuns(h)
    <2>1. \A a \in Autos : [at |-> "delete", auto |-> a] \in Requests
      BY DEF Requests
    <2>. QED BY <1>4, <2>1 DEF TypeOK, DeleteRuns, Request, lost
  <1>5. CASE Delete(h)
    <2>1. auto' \in [Autos -> Autorows \cup {None}]
      BY <1>5 DEF TypeOK, Delete
    <2>2. handler' \in [Handlers -> Requests]
      BY <1>5 DEF TypeOK, Delete, Requests
    <2>. QED BY <1>5, <2>1, <2>2 DEF TypeOK, Delete, bounds, lost
  <1>. QED BY <1>1, <1>2, <1>3, <1>4, <1>5

\* A manual execution takes a new number, too.
LEMMA TriggerEffect ==
    ASSUME TypeOK, NEW h \in Handlers, Trigger(h)
    PROVE  /\ TypeOK'
           /\ UNCHANGED <<auto, record, unended, stuck>>
           /\ \A r \in Runs : job[r] # None => job'[r] = job[r]
  <1>1. used \in Nat /\ used' = used + 1 /\ used < MaxRuns /\ used + 1 \in Runs
    BY Constants DEF TypeOK, Trigger, Runs
  <1>2. PICK a \in Autos :
            job' = [job EXCEPT ![used + 1] = Job(a, "manual", "none", {})]
    BY DEF Trigger
  <1>3. Job(a, "manual", "none", {}) \in Jobs
    BY DEF Job, Jobs, Schedules
  <1>4. job[used + 1] = None
    BY <1>1 DEF TypeOK
  <1>5. /\ job' \in [Runs -> Jobs \cup {None}]
        /\ \A r \in Runs : r # used + 1 => job'[r] = job[r]
    BY <1>2, <1>3 DEF TypeOK
  <1>6. \A r \in Runs : job'[r] # None => r <= used'
    BY <1>1, <1>5 DEF TypeOK, Runs
  <1>7. \A r \in Runs : job[r] # None => job'[r] = job[r]
    BY <1>4, <1>5
  <1>8. ops' \in 0 .. MaxOps
    BY Constants DEF TypeOK, Trigger, Request, lost
  <1>. QED BY <1>1, <1>5, <1>6, <1>7, <1>8, Constants DEF TypeOK, Trigger, Request, lost

LEMMA TickEffect ==
    ASSUME TypeOK, Tick \/ Webhook
    PROVE  /\ TypeOK'
           /\ UNCHANGED <<auto, record, unended, stuck>>
           /\ \A r \in Runs : job[r] # None => job'[r] = job[r]
  <1>1. CASE Tick
    <2>. DEFINE found == {a \in Autos : Due(a) /\ ~auto[a].running}
    <2>1. found \in SUBSET Autos /\ \A a \in found : auto[a] # None
      BY DEF Due
    <2>2. Start(found, "cron", FALSE)
      BY <1>1 DEF Tick
    <2>. HIDE DEF found
    <2>3. /\ job' \in [Runs -> Jobs \cup {None}]
          /\ used' \in 0 .. MaxRuns
          /\ \A r \in Runs : job'[r] # None => r <= used'
          /\ \A r \in Runs : job[r] # None => job'[r] = job[r]
      BY <2>1, <2>2, StartEffect
    <2>. QED BY <1>1, <2>3 DEF TypeOK, Tick, bounds, lost
  <1>2. CASE Webhook
    <2>. DEFINE found == {a \in Autos : Hooked(a) /\ ~auto[a].running}
    <2>1. found \in SUBSET Autos /\ \A a \in found : auto[a] # None
      BY DEF Hooked
    <2>2. Start(found, "webhook", TRUE)
      BY <1>2 DEF Webhook
    <2>. HIDE DEF found
    <2>3. /\ job' \in [Runs -> Jobs \cup {None}]
          /\ used' \in 0 .. MaxRuns
          /\ \A r \in Runs : job'[r] # None => r <= used'
          /\ \A r \in Runs : job[r] # None => job'[r] = job[r]
      BY <2>1, <2>2, StartEffect
    <2>4. ops' \in 0 .. MaxOps
      BY <1>2, Constants DEF TypeOK, Webhook
    <2>. QED BY <1>2, <2>3, <2>4 DEF TypeOK, Webhook, lost
  <1>. QED BY <1>1, <1>2

\* What each step of an execution does to the tables.
LEMMA MarkRow ==
    ASSUME TypeOK, NEW r \in Runs, MarkRunning(r)
    PROVE  /\ auto' \in [Autos -> Autorows \cup {None}]
           /\ \A a \in Autos : auto'[a] # None => auto[a] # None
           /\ \A a \in Autos : a # job[r].auto => auto'[a] = auto[a]
  <1>1. job[r] \in Jobs
    BY DEF TypeOK, MarkRunning, At
  <1>2. job[r].auto \in Autos /\ NextOf(job[r].schedule) \in {"empty", "future", "due"}
    BY <1>1, NextTypes DEF Jobs
  <1>3. CASE auto' = auto
    BY <1>3 DEF TypeOK
  <1>4. CASE /\ auto[job[r].auto] # None
             /\ auto' = [auto EXCEPT ![job[r].auto].next = NextOf(job[r].schedule),
                                     ![job[r].auto].running = TRUE]
    <2>1. auto[job[r].auto] \in Autorows
      BY <1>2, <1>4 DEF TypeOK
    <2>2. [auto[job[r].auto] EXCEPT !.next = NextOf(job[r].schedule), !.running = TRUE]
              \in Autorows
      BY <1>2, <2>1 DEF Autorows
    <2>. QED BY <1>2, <1>4, <2>2 DEF TypeOK
  <1>. QED BY <1>2, <1>3, <1>4 DEF MarkRunning

LEMMA StatsRow ==
    ASSUME TypeOK, NEW r \in Runs, Stats(r)
    PROVE  /\ auto' \in [Autos -> Autorows \cup {None}]
           /\ \A a \in Autos : auto'[a] # None => auto[a] # None
           /\ \A a \in Autos : a # job[r].auto => auto'[a] = auto[a]
           /\ auto'[job[r].auto] # None =>
                  ~auto'[job[r].auto].running \/ job[r].auto \in stuck'
           /\ \A a \in Autos : a # job[r].auto => (a \in stuck' <=> a \in stuck)
           /\ stuck' \subseteq Autos
  <1>1. job[r] \in Jobs
    BY DEF TypeOK, Stats, At
  <1>2. job[r].auto \in Autos
    BY <1>1 DEF Jobs
  <1>3. CASE auto' = auto /\ stuck' = stuck \cup {job[r].auto}
    BY <1>2, <1>3 DEF TypeOK
  <1>4. CASE /\ auto' = IF auto[job[r].auto] = None THEN auto
                        ELSE [auto EXCEPT ![job[r].auto].running = FALSE]
             /\ stuck' = stuck \ {job[r].auto}
    <2>1. CASE auto[job[r].auto] = None
      BY <1>2, <1>4, <2>1 DEF TypeOK
    <2>2. CASE auto[job[r].auto] # None
      <3>1. auto[job[r].auto] \in Autorows
        BY <1>2, <2>2 DEF TypeOK
      <3>2. /\ [auto[job[r].auto] EXCEPT !.running = FALSE] \in Autorows
            /\ ~[auto[job[r].auto] EXCEPT !.running = FALSE].running
        BY <3>1 DEF Autorows
      <3>3. auto' = [auto EXCEPT ![job[r].auto] =
                        [auto[job[r].auto] EXCEPT !.running = FALSE]]
        BY <1>4, <2>2
      <3>. QED BY <1>2, <1>4, <2>2, <3>2, <3>3 DEF TypeOK
    <2>. QED BY <2>1, <2>2
  <1>. QED BY <1>3, <1>4 DEF Stats

\* What a step of an execution does to the history of failed statements.
LEMMA FaultTypes ==
    ASSUME TypeOK, NEW r \in Runs, Execute(r)
    PROVE  /\ faults' \in 0 .. MaxFaults /\ unended' \subseteq Runs
           /\ unended \subseteq unended'
           /\ FinishRun(r) \/ UNCHANGED unended
           /\ Stats(r) \/ UNCHANGED stuck
           /\ ~Stats(r) => stuck' \subseteq Autos
  <1>1. Fails \/ UNCHANGED faults => faults' \in 0 .. MaxFaults
    BY Constants DEF Fails, TypeOK
  <1>2. Fails \/ UNCHANGED faults
    BY DEF Execute, InsertRun, MarkRunning, Work, FinishRun, Stats, Unwritten, lost
  <1>3. /\ FinishRun(r) \/ UNCHANGED unended
        /\ Stats(r) \/ UNCHANGED stuck
    BY DEF Execute, InsertRun, MarkRunning, Work, FinishRun, Stats, lost
  <1>4. unended' \subseteq Runs /\ unended \subseteq unended'
    BY <1>3 DEF FinishRun, TypeOK
  <1>. QED BY <1>1, <1>2, <1>3, <1>4 DEF TypeOK

LEMMA ExecuteTypes ==
    ASSUME TypeOK, NEW r \in Runs, Execute(r)
    PROVE  TypeOK'
  <1>1. /\ job' \in [Runs -> Jobs \cup {None}]
        /\ \A q \in Runs : job'[q] # None <=> job[q] # None
    <2>1. PICK s \in {"mark", "work", "finish", "stats", "over"} : job[r] # None /\ Step(r, s)
      BY DEF Execute, InsertRun, MarkRunning, Work, FinishRun, Stats, At
    <2>. QED BY <2>1, StepEffect
  <1>2. record' \in [Runs -> {"running", "ended", None}]
    BY DEF Execute, InsertRun, MarkRunning, Work, FinishRun, Stats, TypeOK
  <1>3. auto' \in [Autos -> Autorows \cup {None}]
    BY MarkRow, StatsRow DEF Execute, InsertRun, Work, FinishRun, TypeOK
  <1>4. UNCHANGED <<handler, stopping, used, ops, created, ends>>
    BY DEF Execute, InsertRun, MarkRunning, Work, FinishRun, Stats, bounds
  <1>5. stuck' \subseteq Autos
    BY FaultTypes, StatsRow
  <1>. QED BY <1>1, <1>2, <1>3, <1>4, <1>5, FaultTypes DEF TypeOK

\* The end of the process kills what has not ended.
LEMMA EndEffect ==
    ASSUME TypeOK, End
    PROVE  /\ TypeOK'
           /\ UNCHANGED <<auto, record, unended, stuck>>
           /\ \A r \in Runs : job[r] # None =>
                  /\ job'[r] # None /\ job'[r].auto = job[r].auto
                  /\ job[r].at # "over" => job'[r].at = "dead"
  <1>1. ASSUME NEW r \in Runs, job[r] # None
        PROVE  /\ job'[r] \in Jobs /\ job'[r].auto = job[r].auto
               /\ job[r].at # "over" => job'[r].at = "dead"
    <2>1. job[r] \in Jobs
      BY <1>1 DEF TypeOK
    <2>2. /\ [job[r] EXCEPT !.at = "dead"] \in Jobs
          /\ [job[r] EXCEPT !.at = "dead"].auto = job[r].auto
          /\ [job[r] EXCEPT !.at = "dead"].at = "dead"
      BY <2>1 DEF Jobs
    <2>3. job'[r] = IF job[r].at # "over" THEN [job[r] EXCEPT !.at = "dead"] ELSE job[r]
      BY <1>1 DEF End
    <2>. QED BY <2>1, <2>2, <2>3
  <1>2. \A r \in Runs : job[r] = None => job'[r] = None
    BY DEF End
  <1>3. job' \in [Runs -> Jobs \cup {None}]
    <2>1. DOMAIN job' = Runs /\ job' = [r \in Runs |-> job'[r]]
      BY DEF End
    <2>. QED BY <1>1, <1>2, <2>1
  <1>4. handler' \in [Handlers -> Requests]
    BY DEF End, Requests
  <1>5. \A r \in Runs : job'[r] # None => r <= used'
    BY <1>2 DEF TypeOK, End
  <1>6. ends' \in 0 .. MaxEnds
    BY Constants DEF TypeOK, End
  <1>. QED BY <1>1, <1>3, <1>4, <1>5, <1>6, Constants DEF TypeOK, End, lost

\* Elapse: time passes for one automation.
LEMMA ElapseRow ==
    ASSUME TypeOK, Elapse
    PROVE  /\ TypeOK'
           /\ UNCHANGED <<record, job, unended, stuck>>
           /\ \A a \in Autos : auto'[a] # None =>
                  auto[a] # None /\ auto'[a].running = auto[a].running
  <1>1. PICK b \in Autos : auto[b] # None /\ auto' = [auto EXCEPT ![b].next = "due"]
    BY DEF Elapse
  <1>2. auto[b] \in Autorows
    BY <1>1 DEF TypeOK
  <1>3. /\ [auto[b] EXCEPT !.next = "due"] \in Autorows
        /\ [auto[b] EXCEPT !.next = "due"].running = auto[b].running
    BY <1>2 DEF Autorows
  <1>4. auto' = [auto EXCEPT ![b] = [auto[b] EXCEPT !.next = "due"]]
    BY <1>1
  <1>. QED BY <1>1, <1>3, <1>4 DEF TypeOK, Elapse, bounds, lost

\* The type invariant: rows, executions and requests keep their shape.
THEOREM TypeCorrect == Spec => []TypeOK
  <1>1. ASSUME Init PROVE TypeOK
    <2>1. /\ 0 \in 0 .. MaxRuns /\ 0 \in 0 .. MaxOps /\ 0 \in 0 .. MaxEnds
          /\ 0 \in 0 .. MaxFaults
      BY Constants
    <2>2. [at |-> "idle"] \in Requests
      BY DEF Requests
    <2>3. \A r \in Runs : job[r] = None
      BY <1>1 DEF Init
    <2>4. handler \in [Handlers -> Requests]
      BY <1>1, <2>2 DEF Init
    <2>5. /\ auto \in [Autos -> Autorows \cup {None}]
          /\ record \in [Runs -> {"running", "ended", None}]
          /\ job \in [Runs -> Jobs \cup {None}]
      BY <1>1 DEF Init
    <2>6. /\ stopping \in BOOLEAN /\ created \subseteq Autos
          /\ used = 0 /\ ops = 0 /\ ends = 0
          /\ faults = 0 /\ unended \subseteq Runs /\ stuck \subseteq Autos
      BY <1>1 DEF Init
    <2>. QED BY <2>1, <2>3, <2>4, <2>5, <2>6 DEF TypeOK
  <1>2. TypeOK /\ [Next]_vars => TypeOK'
    <2>. SUFFICES ASSUME TypeOK, [Next]_vars PROVE TypeOK'
      OBVIOUS
    <2>1. CASE \E h \in Handlers : Create(h) \/ BeginUpdate(h) \/ Update(h)
                                   \/ DeleteRuns(h) \/ Delete(h)
      BY <2>1, RequestTypes
    <2>2. CASE \E h \in Handlers : Trigger(h)
      BY <2>2, TriggerEffect
    <2>3. CASE Tick \/ Webhook
      BY <2>3, TickEffect
    <2>4. CASE \E r \in Runs : Execute(r)
      BY <2>4, ExecuteTypes
    <2>5. CASE Elapse
      BY <2>5, ElapseRow
    <2>6. CASE Shutdown
      BY <2>6 DEF TypeOK, Shutdown, bounds, lost
    <2>7. CASE End
      BY <2>7, EndEffect
    <2>8. CASE UNCHANGED vars
      BY <2>8 DEF TypeOK, vars, bounds, lost
    <2>. QED BY <2>1, <2>2, <2>3, <2>4, <2>5, <2>6, <2>7, <2>8 DEF Next
  <1>. QED BY <1>1, <1>2, PTL DEF Spec

(***************************************************************************)
(* The tables tell the truth.  RunningIsTrue is inductive with the types:  *)
(* each part says who will clear what the table says.                      *)
(***************************************************************************)

\* An execution whose records and whose automation's flag a step leaves alone.
LEMMA WitnessesStay ==
    ASSUME TypeOK, RunningIsTrue, TypeOK', UNCHANGED <<unended, stuck>>,
           \A r \in Runs : job[r] # None =>
               /\ job'[r] # None /\ job'[r].auto = job[r].auto
               /\ \/ job'[r].at = job[r].at
                  \/ job[r].at # "over" /\ job'[r].at = "dead",
           \A a \in Autos : auto'[a] # None /\ auto'[a].running
                             => auto[a] # None /\ auto[a].running,
           \A r \in Runs : record'[r] = "running" => record[r] = "running"
    PROVE  RunningIsTrue'
  <1>1. ASSUME NEW a \in Autos, auto'[a] # None, auto'[a].running, a \notin stuck
        PROVE  (InProgress(a) \/ Killed(a))'
    <2>1. PICK r \in Runs : /\ job[r] # None /\ job[r].auto = a
                            /\ job[r].at \in {"work", "finish", "stats", "dead"}
      BY <1>1 DEF RunningIsTrue, InProgress, Killed
    <2>. QED BY <2>1 DEF InProgress, Killed
  <1>2. ASSUME NEW r \in Runs, record'[r] = "running"
        PROVE  job'[r] # None /\ (job'[r].at \in {"mark", "work", "finish", "dead"}
                                  \/ r \in unended)
    BY <1>2 DEF RunningIsTrue
  <1>. QED BY <1>1, <1>2 DEF RunningIsTrue

\* The steps of an execution.
LEMMA ExecuteTrue ==
    ASSUME TypeOK, RunningIsTrue, TypeOK', NEW r \in Runs, Execute(r)
    PROVE  RunningIsTrue'
  <1>1. PICK s \in {"mark", "work", "finish", "stats", "over"} :
            /\ job[r] # None /\ Step(r, s)
            /\ InsertRun(r) => job[r].at = "insert" /\ s \in {"mark", "work"}
            /\ MarkRunning(r) => job[r].at = "mark" /\ s = "work"
            /\ Work(r) => job[r].at = "work" /\ s = "finish"
            /\ FinishRun(r) => job[r].at = "finish" /\ s = "stats"
            /\ Stats(r) => job[r].at = "stats" /\ s = "over"
    BY DEF Execute, InsertRun, MarkRunning, Work, FinishRun, Stats, At
  <1>2. /\ job'[r] # None /\ job'[r].at = s /\ job'[r].auto = job[r].auto
        /\ \A q \in Runs \ {r} : job'[q] = job[q]
    BY <1>1, StepEffect
  <1>3. ASSUME NEW q \in Runs, record'[q] = "running", q \notin unended'
        PROVE  job'[q] # None /\ job'[q].at \in {"mark", "work", "finish", "dead"}
    <2>0. q \notin unended
      BY <1>3, FaultTypes
    <2>1. CASE q # r
      <3>1. record'[q] = record[q]
        BY <2>1 DEF TypeOK, Execute, InsertRun, MarkRunning, Work, FinishRun, Stats
      <3>. QED BY <1>2, <1>3, <2>0, <2>1, <3>1 DEF RunningIsTrue
    <2>2. CASE q = r
      <3>1. CASE InsertRun(r)
        <4>1. CASE record' = [record EXCEPT ![r] = "running"] /\ Step(r, "mark")
          <5>1. job'[r] # None /\ job'[r].at = "mark"
            BY <1>1, <4>1, StepEffect
          <5>. QED BY <2>2, <5>1
        <4>2. CASE UNCHANGED record
          BY <1>1, <1>2, <1>3, <2>0, <2>2, <3>1, <4>2 DEF RunningIsTrue
        <4>. QED BY <3>1, <4>1, <4>2 DEF InsertRun
      <3>2. CASE MarkRunning(r) \/ Work(r)
        BY <1>1, <1>2, <2>2, <3>2
      <3>3. CASE FinishRun(r)
        BY <1>3, <2>2, <3>3, Constants DEF FinishRun, TypeOK
      <3>4. CASE Stats(r)
        BY <1>1, <1>3, <2>0, <2>2, <3>4 DEF Stats, RunningIsTrue
      <3>. QED BY <3>1, <3>2, <3>3, <3>4 DEF Execute
    <2>. QED BY <2>1, <2>2
  <1>4. ASSUME NEW a \in Autos, auto'[a] # None, auto'[a].running, a \notin stuck'
        PROVE  (InProgress(a) \/ Killed(a))'
    <2>1. CASE a # job[r].auto
      <3>1. auto'[a] = auto[a]
        BY <2>1, MarkRow, StatsRow DEF Execute, InsertRun, Work, FinishRun
      <3>2. a \notin stuck
        BY <1>4, <2>1, StatsRow, FaultTypes
      <3>3. PICK q \in Runs : /\ job[q] # None /\ job[q].auto = a
                              /\ job[q].at \in {"work", "finish", "stats", "dead"}
        BY <1>4, <3>1, <3>2 DEF RunningIsTrue, InProgress, Killed
      <3>4. job'[q] = job[q]
        BY <1>2, <2>1, <3>3
      <3>. QED BY <3>3, <3>4 DEF InProgress, Killed
    <2>2. CASE a = job[r].auto /\ ~Stats(r)
      <3>1. CASE s # "mark"
        <4>1. s \in {"work", "finish", "stats"}
          BY <1>1, <2>2, <3>1 DEF Execute
        <4>. QED BY <1>2, <2>2, <4>1 DEF InProgress
      <3>2. CASE s = "mark"
        <4>1. InsertRun(r)
          BY <1>1, <2>2, <3>2 DEF Execute
        <4>2. auto' = auto /\ job[r].at = "insert" /\ a \notin stuck
          BY <1>1, <1>4, <2>2, <4>1, FaultTypes DEF InsertRun
        <4>3. PICK q \in Runs : /\ job[q] # None /\ job[q].auto = a
                                /\ job[q].at \in {"work", "finish", "stats", "dead"}
          BY <1>4, <4>2 DEF RunningIsTrue, InProgress, Killed
        <4>4. job'[q] = job[q]
          BY <1>2, <4>2, <4>3
        <4>. QED BY <4>3, <4>4 DEF InProgress, Killed
      <3>. QED BY <3>1, <3>2
    <2>3. CASE a = job[r].auto /\ Stats(r)
      BY <1>4, <2>3, StatsRow
    <2>. QED BY <2>1, <2>2, <2>3
  <1>5. ASSUME NEW q \in Runs, record'[q] = "running"
        PROVE  job'[q] # None
    <2>1. CASE q # r
      <3>1. record'[q] = record[q]
        BY <2>1 DEF TypeOK, Execute, InsertRun, MarkRunning, Work, FinishRun, Stats
      <3>. QED BY <1>2, <1>5, <2>1, <3>1 DEF RunningIsTrue
    <2>. QED BY <1>2, <2>1
  <1>. QED BY <1>3, <1>4, <1>5 DEF RunningIsTrue

\* A request never says that an automation is running, and records nothing.
LEMMA RequestTrue ==
    ASSUME TypeOK, RunningIsTrue, TypeOK', NEW h \in Handlers,
           Create(h) \/ BeginUpdate(h) \/ Update(h) \/ DeleteRuns(h) \/ Delete(h)
    PROVE  RunningIsTrue'
  <1>1. job' = job /\ UNCHANGED <<unended, stuck>>
    BY DEF Create, BeginUpdate, Update, DeleteRuns, Delete, Request, lost
  <1>2. \A r \in Runs : record'[r] = "running" => record[r] = "running"
    <2>1. CASE DeleteRuns(h)
      BY <2>1, Constants DEF DeleteRuns, TypeOK
    <2>. QED BY <2>1 DEF Create, BeginUpdate, Update, Delete
  <1>3. ASSUME NEW a \in Autos, auto'[a] # None, auto'[a].running
        PROVE  auto[a] # None /\ auto[a].running
    <2>1. CASE Create(h)
      <3>1. PICK b \in Autos, st \in Offered :
                auto' = [auto EXCEPT ![b] = [set |-> st, next |-> NextOf(st.schedule),
                                             running |-> FALSE]]
        BY <2>1 DEF Create
      <3>2. a # b
        BY <1>3, <3>1 DEF TypeOK
      <3>. QED BY <1>3, <3>1, <3>2 DEF TypeOK
    <2>2. CASE Update(h)
      <3>1. /\ handler[h].auto \in Autos
            /\ handler[h].set \in Settings
        BY <2>2 DEF TypeOK, Update, Requests
      <3>2. CASE a = handler[h].auto /\ auto[a] # None
        <4>1. auto'[a] = Updated(auto[a], handler[h].set)
          BY <2>2, <3>2 DEF TypeOK, Update
        <4>2. auto[a] \in Autorows
          BY <3>2 DEF TypeOK
        <4>3. Updated(auto[a], handler[h].set).running = auto[a].running
          BY <4>2 DEF Updated, Autorows
        <4>. QED BY <1>3, <3>2, <4>1, <4>3
      <3>3. CASE a # handler[h].auto \/ auto[a] = None
        BY <1>3, <2>2, <3>1, <3>3 DEF TypeOK, Update
      <3>. QED BY <3>2, <3>3
    <2>3. CASE Delete(h)
      BY <1>3, <2>3 DEF Delete, TypeOK
    <2>. QED BY <1>3, <2>1, <2>2, <2>3 DEF BeginUpdate, DeleteRuns
  <1>. QED BY <1>1, <1>2, <1>3, WitnessesStay

\* Whatever the tables call running is being executed, or was killed with the process,
\* or the statement that takes the mark away has failed: no overlap of executions,
\* requests and deletions leaves a stray "running" behind.
THEOREM RunningIsAlwaysTrue == Spec => []RunningIsTrue
  <1>1. Init => RunningIsTrue
    BY Constants DEF Init, RunningIsTrue
  <1>2. TypeOK /\ TypeOK' /\ RunningIsTrue /\ [Next]_vars => RunningIsTrue'
    <2>. SUFFICES ASSUME TypeOK, TypeOK', RunningIsTrue, [Next]_vars
                  PROVE  RunningIsTrue'
      OBVIOUS
    <2>1. CASE \E h \in Handlers : Create(h) \/ BeginUpdate(h) \/ Update(h)
                                   \/ DeleteRuns(h) \/ Delete(h)
      BY <2>1, RequestTrue
    <2>2. CASE \E h \in Handlers : Trigger(h)
      BY <2>2, TriggerEffect, WitnessesStay
    <2>3. CASE Tick \/ Webhook
      BY <2>3, TickEffect, WitnessesStay
    <2>4. CASE \E r \in Runs : Execute(r)
      BY <2>4, ExecuteTrue
    <2>5. CASE Elapse
      <3>1. /\ UNCHANGED <<record, job, unended, stuck>>
            /\ \A a \in Autos : auto'[a] # None =>
                   auto[a] # None /\ auto'[a].running = auto[a].running
        BY <2>5, ElapseRow
      <3>. QED BY <3>1, WitnessesStay
    <2>6. CASE Shutdown \/ UNCHANGED vars
      <3>1. UNCHANGED <<auto, record, job, unended, stuck>>
        BY <2>6 DEF Shutdown, vars, lost
      <3>. QED BY <3>1, WitnessesStay
    <2>7. CASE End
      <3>1. \A r \in Runs : job[r] # None =>
                /\ job'[r] # None /\ job'[r].auto = job[r].auto
                /\ \/ job'[r].at = job[r].at
                   \/ job[r].at # "over" /\ job'[r].at = "dead"
        <4>1. \A r \in Runs : job[r] # None /\ job[r].at = "over" => job'[r] = job[r]
          BY <2>7 DEF End
        <4>. QED BY <2>7, <4>1, EndEffect
      <3>. QED BY <2>7, <3>1, EndEffect, WitnessesStay
    <2>. QED BY <2>1, <2>2, <2>3, <2>4, <2>5, <2>6, <2>7 DEF Next
  <1>. QED BY <1>1, <1>2, TypeCorrect, PTL DEF Spec
=============================================================================

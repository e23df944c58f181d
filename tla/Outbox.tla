------------------------------- MODULE Outbox -------------------------------
(***************************************************************************)
(* The outbox table and a loop that delivers its records to handlers       *)
(* (pkg/substrate/outbox_worker.go), with crashes and with UPDATEs that    *)
(* fail: their errors are ignored.                                         *)
(*                                                                         *)
(* There are two such loops.  OutboxWorker.Run marks each record and saves *)
(* its cursor, but has no caller in production.  main.go starts one of its *)
(* own, which calls FetchBatch and Process, marks nothing, saves nothing,  *)
(* and begins at zero whenever the process is started.                     *)
(*                                                                         *)
(* The UPDATEs that should make a record done or dead set processed_at, a  *)
(* column that table outbox (internal/protocol/schema/002_outbox.sql) does *)
(* not have.  They fail every time, so a record is pending or failed.      *)
(***************************************************************************)
EXTENDS Naturals, FiniteSets

CONSTANTS
    MaxRecords,    \* bound: records that are posted
    Unhandled,     \* records for an engine that has no handler
    RunsWorker,    \* is the loop OutboxWorker.Run, or main's own
    BatchLimit,    \* records of a batch beyond the cursor (50, main's 20)
    RetryLimit,    \* failed records of a batch behind it (a quarter of that)
    MaxRetries,    \* 3
    MaxFailures,   \* bound: failures of handlers
    MaxFaults,     \* bound: UPDATEs that fail for another reason
    MaxRestarts    \* bound: restarts of the process

ASSUME OutboxAssumption ==
    /\ {MaxRecords, MaxFailures, MaxFaults, MaxRestarts} \subseteq Nat
    /\ {BatchLimit, RetryLimit, MaxRetries} \subseteq Nat \ {0}
    /\ Unhandled \subseteq 1 .. MaxRecords
    /\ RunsWorker \in BOOLEAN

VARIABLES
    rows,      \* table outbox; id = position, "absent" beyond the last record
    saved,     \* sys_config, key outbox_cursor
    worker,    \* the goroutine of the loop, with its cursor
    tried,     \* history: records that went through Process
    delivered, \* history: records whose handler succeeded
    failures,  \* history: how often each record's handler failed
    faulty,    \* history: records with a lost UPDATE
    restarts

outboxVars == <<rows, saved, worker, tried, delivered, failures, faulty, restarts>>

Ids == 1 .. MaxRecords

\* due: next_retry_at is NULL or has passed.
Rows == [status : {"absent", "pending", "failed"}, attempts : 0 .. MaxRetries - 1,
         due : BOOLEAN]

Workers == [pc : {"idle", "handle", "mark", "save"},
            cursor : 0 .. MaxRecords,
            todo : SUBSET Ids,       \* the rest of the batch
            max : 0 .. MaxRecords,   \* maxID
            ok : BOOLEAN]            \* did Process return nil

OutboxTypeOK ==
    /\ rows \in [Ids -> Rows]
    /\ saved \in 0 .. MaxRecords
    /\ worker \in Workers
    /\ tried \in SUBSET Ids /\ delivered \in SUBSET Ids /\ faulty \in SUBSET Ids
    /\ failures \in [Ids -> Nat]
    /\ restarts \in Nat

Idle(cursor) == [pc |-> "idle", cursor |-> cursor, todo |-> {}, max |-> cursor,
                 ok |-> FALSE]

OutboxInit ==
    /\ rows = [r \in Ids |-> [status |-> "absent", attempts |-> 0, due |-> TRUE]]
    /\ saved = 0
    /\ worker = Idle(0)
    /\ tried = {} /\ delivered = {} /\ faulty = {}
    /\ failures = [r \in Ids |-> 0]
    /\ restarts = 0

-----------------------------------------------------------------------------
\* A kernel inserts the next record.
Post(r) ==
    /\ rows[r].status = "absent"
    /\ \A q \in Ids : q < r => rows[q].status # "absent"
    /\ rows' = [rows EXCEPT ![r].status = "pending"]
    /\ UNCHANGED <<saved, worker, tried, delivered, failures, faulty, restarts>>

\* next_retry_at passes.
BecomeDue(r) ==
    /\ ~rows[r].due
    /\ rows' = [rows EXCEPT ![r].due = TRUE]
    /\ UNCHANGED <<saved, worker, tried, delivered, failures, faulty, restarts>>

\* The smallest n members of S: ORDER BY id LIMIT n.
Smallest(S, n) == {r \in S : Cardinality({q \in S : q < r}) < n}

\* FetchBatch: records beyond the cursor, and failed ones behind it.
\* Bug: next_retry_at is not looked at.
FetchBatchAtOnce(cursor) ==
    Smallest({r \in Ids : r > cursor /\ rows[r].status \in {"pending", "failed"}},
             BatchLimit)
    \cup Smallest({r \in Ids : cursor > 0 /\ r <= cursor /\ rows[r].status = "failed"},
                  RetryLimit)

\* Bug: the supplementary query is missing.
FetchBatchBeyondCursor(cursor) ==
    Smallest({r \in Ids : /\ r > cursor
                          /\ rows[r].status \in {"pending", "failed"}
                          /\ rows[r].due},
             BatchLimit)

FetchBatch(cursor) ==
    Smallest({r \in Ids : /\ r > cursor
                          /\ rows[r].status \in {"pending", "failed"}
                          /\ rows[r].due},
             BatchLimit)
    \cup Smallest({r \in Ids : /\ cursor > 0 /\ r <= cursor
                               /\ rows[r].status = "failed"
                               /\ rows[r].due},
                  RetryLimit)

\* Bug: the cursor is saved before the batch is processed.
PollAndSave ==
    /\ worker.pc = "idle"
    /\ FetchBatch(worker.cursor) # {}
    /\ worker' = [worker EXCEPT !.pc = "handle", !.todo = FetchBatch(worker.cursor),
                                !.max = worker.cursor]
    /\ \E r \in FetchBatch(worker.cursor) \cup {worker.cursor} :
          /\ \A q \in FetchBatch(worker.cursor) : q <= r
          /\ saved' = r
    /\ UNCHANGED <<rows, tried, delivered, failures, faulty, restarts>>

\* A tick that finds something.
Poll ==
    /\ worker.pc = "idle"
    /\ FetchBatch(worker.cursor) # {}
    /\ worker' = [worker EXCEPT !.pc = "handle", !.todo = FetchBatch(worker.cursor),
                                !.max = worker.cursor]
    /\ UNCHANGED <<rows, saved, tried, delivered, failures, faulty, restarts>>

\* The batch is in the order of the two queries.
IsNext(r) ==
    /\ r \in worker.todo
    /\ \A q \in worker.todo :
          (q > worker.cursor <=> r > worker.cursor) \/ q <= worker.cursor
    /\ \A q \in worker.todo :
          (q > worker.cursor <=> r > worker.cursor) => r <= q

TotalFailures == LET f[n \in 0 .. MaxRecords] == IF n = 0 THEN 0 ELSE f[n - 1] + failures[n]
                 IN  f[MaxRecords]

\* Process: the handler is called, and returns nil or an error.  Without a
\* handler nothing happens and the result is nil.
Handle(r) ==
    /\ worker.pc = "handle"
    /\ IsNext(r)
    /\ tried' = tried \cup {r}
    /\ \/ /\ delivered' = delivered \cup ({r} \ Unhandled)
          /\ worker' = [worker EXCEPT !.pc = "mark", !.ok = TRUE]
          /\ UNCHANGED failures
       \/ /\ r \notin Unhandled
          /\ TotalFailures < MaxFailures
          /\ failures' = [failures EXCEPT ![r] = @ + 1]
          /\ worker' = [worker EXCEPT !.pc = "mark", !.ok = FALSE]
          /\ UNCHANGED delivered
    /\ UNCHANGED <<rows, saved, faulty, restarts>>

\* The record is off the batch.
Processed(r) ==
    worker' = [worker EXCEPT !.pc = IF worker.todo = {r} THEN "save" ELSE "handle",
                             !.todo = @ \ {r},
                             !.max = IF r > @ THEN r ELSE @]

\* attempts + 1 has reached the limit: the record should be dead.
LastAttempt(r) == rows[r].attempts + 1 >= MaxRetries

\* processAndMark goes on to update the row.  To "done" and to "dead" it never
\* is; to "failed" it is, with a time to retry, unless the UPDATE fails.  Main's
\* loop has no such step.
Mark(r) ==
    /\ worker.pc = "mark"
    /\ IsNext(r)
    /\ Processed(r)
    /\ IF worker.ok \/ LastAttempt(r) \/ ~RunsWorker
       THEN UNCHANGED <<rows, faulty>>
       ELSE \/ /\ rows' = [rows EXCEPT ![r] = [status |-> "failed",
                                               attempts |-> @.attempts + 1,
                                               due |-> FALSE]]
               /\ UNCHANGED faulty
            \/ /\ Cardinality(faulty) < MaxFaults
               /\ faulty' = faulty \cup {r}
               /\ UNCHANGED rows
    /\ UNCHANGED <<saved, tried, delivered, failures, restarts>>

\* The cursor moves to the largest id of the batch.  Run saves it, unless that
\* fails.
Save ==
    /\ worker.pc = "save"
    /\ worker' = Idle(worker.max)
    /\ \/ saved' = saved
       \/ RunsWorker /\ worker.max > worker.cursor /\ saved' = worker.max
    /\ UNCHANGED <<rows, tried, delivered, failures, faulty, restarts>>

\* The process ends at any point and is started again.
Restart ==
    /\ restarts < MaxRestarts
    /\ restarts' = restarts + 1
    /\ worker' = Idle(saved)
    /\ UNCHANGED <<rows, saved, tried, delivered, failures, faulty>>
-----------------------------------------------------------------------------
OutboxNext ==
    \/ \E r \in Ids : Post(r) \/ BecomeDue(r) \/ Handle(r) \/ Mark(r)
    \/ Poll \/ Save \/ Restart

OutboxSpec == OutboxInit /\ [][OutboxNext]_outboxVars

\* The loop runs and time passes.
OutboxFairSpec ==
    /\ OutboxSpec
    /\ WF_outboxVars(Poll \/ Save \/ \E r \in Ids : Handle(r) \/ Mark(r))
    /\ \A r \in Ids : WF_outboxVars(BecomeDue(r))
-----------------------------------------------------------------------------
(* Properties *)

\* The cursor passes no record that has not been processed, neither in
\* memory nor in sys_config, where a restart finds it (outbox_worker.go:135).
NoneSkipped ==
    \A r \in Ids : r <= saved \/ r <= worker.cursor => r \in tried

\* A record that failed is left alone until its retry is due
\* (state.yaml, outbox_inv_04).
RetryWaits ==
    [][\A r \in Ids : rows[r].status = "failed" /\ ~rows[r].due =>
         failures'[r] = failures[r] /\ (r \in delivered' => r \in delivered)]_outboxVars

\* Delivered records stay failed and are due for good, so as many of them as the
\* query for retries takes keep a later one from it.
Crowded(r) ==
    Cardinality({q \in Ids : q < r /\ rows[q].status = "failed"}) >= RetryLimit

\* Run delivers every record with a handler at last, over failures and crashes
\* (state.yaml, outbox_inv_01), unless the UPDATE that keeps it for a retry is
\* lost or the query for retries is full.
AtLeastOnce ==
    \A r \in Ids \ Unhandled :
        rows[r].status # "absent" ~> (r \in delivered \/ r \in faulty \/ Crowded(r))
-----------------------------------------------------------------------------
(* What the documents say and the code does not do *)

\* "Each outbox entry is processed at least once" (state.yaml:607), where only
\* a lost UPDATE is an excuse.
EachIsDelivered ==
    \A r \in Ids : rows[r].status # "absent" ~> (r \in delivered \/ r \in faulty)

\* "A record that exceeds max_attempts is dead, never silently dropped or
\* retried" (M02-Storage-Fabric.md:23, outbox_worker.go:194): when the worker is
\* idle, a record that failed MaxRetries times is not up for another try.
DeadAfterMaxRetries ==
    worker.pc = "idle" =>
        \A r \in Ids : failures[r] >= MaxRetries => r \notin FetchBatch(worker.cursor)
=============================================================================

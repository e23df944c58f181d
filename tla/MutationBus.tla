----------------------------- MODULE MutationBus -----------------------------
(***************************************************************************)
(* The serial write bus: DatabaseWriter (pkg/substrate/mutation_bus.go and *)
(* mutation_bus_execute.go), between the goroutines that submit intents    *)
(* and the SQLite tables.                                                  *)
(*                                                                         *)
(* A caller makes one call: Submit of one intent, SubmitBatch of several,  *)
(* or SubmitComposite of a group; Program gives its intents in the order   *)
(* of submission.  Intent <<c, n>> is the n-th of caller c.  Every result  *)
(* channel holds one answer, as all callers of the repository make them,   *)
(* so delivering an answer never blocks; an intent without a channel is    *)
(* one whose answer nobody reads.                                          *)
(*                                                                         *)
(* Only the writer uses the database here, and it holds the connection     *)
(* from BEGIN to COMMIT; the lease checker is asked before that.           *)
(***************************************************************************)
EXTENDS Integers, Sequences, FiniteSets

CONSTANTS
    Callers,      \* goroutines that submit
    Program,      \* the requests of each caller's call
    Composite,    \* the callers that use SubmitComposite
    Keys,         \* keys of the versioned table, and event ids
    Tasks,        \* tasks under a lease
    NoTask,       \* the intent is not made for a task (TaskID "")
    NoEvent,      \* prev_hash is NULL: the first event of the chain
    Nil,          \* what a closed channel yields
    ChCap,        \* capacity of ch (4096 in the code)
    PriorityCap,  \* capacity of priorityCh (256)
    MaxBatchSize  \* 64

\* claimed is ClaimedVersion, 0 where the writer should not compare versions.
\* An intent of the EventWriteBuffer is an "upsert" of table events, "emit".
Requests == [op : {"event", "decision", "insert", "upsert", "delete", "emit"},
             key : Keys, claimed : Nat, flush : BOOLEAN, task : Tasks \cup {NoTask}]

ASSUME BusAssumption ==
    /\ Program \in [Callers -> Seq(Requests)]
    /\ Composite \subseteq Callers
    /\ NoTask \notin Tasks
    /\ NoEvent \notin Keys
    /\ ChCap \in Nat \ {0}
    /\ PriorityCap \in Nat \ {0}
    /\ MaxBatchSize \in Nat \ {0}

Intents == UNION {{c} \X DOMAIN Program[c] : c \in Callers}
Req(i)  == Program[i[1]][i[2]]

ASSUME NilAssumption == Nil \notin Intents

VARIABLES
    sent,       \* how many of its intents each caller has got accepted
    accepted,   \* history: the intents each channel accepted, in order
    ch, prio,   \* the two channels
    closed,     \* Close has closed ch
    cancelled,  \* the context of Run is done
    lease,      \* does the lease checker still know the task's lease
    writer,     \* the goroutine of Run
    tx,         \* the open transaction
    db,         \* what is committed
    told        \* the answer in the result channel

vars == <<sent, accepted, ch, prio, closed, cancelled, lease, writer, tx, db, told>>

NoRow == -2     \* no row has the key
Null  == -1     \* the row's version is NULL

Answers == {"none", "ok", "stale", "failed"}

\* An event's prev_hash; read: history, whether that hash could be read.
Events == [key : Keys, prev : Keys \cup {NoEvent}, read : BOOLEAN]

\* table: the version under each key; log: table events; done: history, the
\* intents whose statement succeeded.
Stores == [table : [Keys -> {NoRow, Null} \cup Nat],
           log : Seq(Events),
           done : Seq(Intents)]

Writers == [pc : {"poll", "wait", "verify", "recheck", "begin", "execute",
                  "stopped", "panicked"},
            batch : Seq(Intents \cup {Nil}),  \* dw.batch
            todo  : Seq(Intents),             \* the rest of the range loop
            valid : Seq(Intents),             \* validBatch
            lost  : SUBSET Callers,           \* groups not in pendingComposite
            last  : BOOLEAN]                  \* the flush is Run's last

TypeOK ==
    /\ sent \in [Callers -> Nat]
    /\ accepted \in [ch : Seq(Intents), prio : Seq(Intents)]
    /\ ch \in Seq(Intents) /\ Len(ch) <= ChCap
    /\ prio \in Seq(Intents) /\ Len(prio) <= PriorityCap
    /\ closed \in BOOLEAN /\ cancelled \in BOOLEAN
    /\ lease \in [Tasks -> BOOLEAN]
    /\ writer \in Writers
    /\ tx \in [store : Stores, stale : SUBSET Intents]
    /\ db \in Stores
    /\ told \in [Intents -> Answers]

EmptyStore == [table |-> [k \in Keys |-> NoRow], log |-> <<>>, done |-> <<>>]

Init ==
    /\ sent = [c \in Callers |-> 0]
    /\ accepted = [ch |-> <<>>, prio |-> <<>>]
    /\ ch = <<>> /\ prio = <<>>
    /\ closed = FALSE /\ cancelled = FALSE
    /\ lease = [t \in Tasks |-> TRUE]
    /\ writer = [pc |-> "poll", batch |-> <<>>, todo |-> <<>>, valid |-> <<>>,
                 lost |-> {}, last |-> FALSE]
    /\ tx = [store |-> EmptyStore, stale |-> {}]
    /\ db = EmptyStore
    /\ told = [i \in Intents |-> "none"]

Elements(s) == {s[n] : n \in DOMAIN s}

-----------------------------------------------------------------------------
(* The callers *)

NextIntent(c) == <<c, sent[c] + 1>>

HasMore(c)    == sent[c] < Len(Program[c])

Enqueue(c) ==
    /\ sent' = [sent EXCEPT ![c] = @ + 1]
    /\ IF Req(NextIntent(c)).flush
       THEN /\ prio' = Append(prio, NextIntent(c))
            /\ accepted' = [accepted EXCEPT !.prio = Append(@, NextIntent(c))]
            /\ UNCHANGED ch
       ELSE /\ ch' = Append(ch, NextIntent(c))
            /\ accepted' = [accepted EXCEPT !.ch = Append(@, NextIntent(c))]
            /\ UNCHANGED prio
    /\ UNCHANGED <<closed, cancelled, lease, writer, tx, db, told>>

\* Submit, SubmitBatch and SubmitComposite, one intent.  When the channel stays
\* full over all retries, when the caller's context is done or when the channel
\* is closed (which panics), the call ends and the rest of a batch or a group is
\* not submitted: such a caller takes no further step.
Submit(c) ==
    /\ HasMore(c)
    /\ IF Req(NextIntent(c)).flush
       THEN Len(prio) < PriorityCap
       ELSE Len(ch) < ChCap /\ ~closed
    /\ Enqueue(c)

\* The task is evicted: its lease is not valid any more, and never again.
LoseLease(t) ==
    /\ lease[t]
    /\ writer.pc # "execute"   \* the eviction needs the connection
    /\ lease' = [lease EXCEPT ![t] = FALSE]
    /\ UNCHANGED <<sent, accepted, ch, prio, closed, cancelled, writer, tx, db, told>>

\* The process shuts down: the context is cancelled, and Close is called when
\* Run has ended, or 30 seconds later in any case (main.go).
Cancel ==
    /\ ~cancelled
    /\ cancelled' = TRUE
    /\ UNCHANGED <<sent, accepted, ch, prio, closed, lease, writer, tx, db, told>>

Close ==
    /\ cancelled /\ ~closed
    /\ closed' = TRUE
    /\ UNCHANGED <<sent, accepted, ch, prio, cancelled, lease, writer, tx, db, told>>

-----------------------------------------------------------------------------
(* The loop of Run *)

\* flushBatch up to its first check of a lease.  A nil intent is dereferenced:
\* the panic is recovered in Run, which ends.
Flush(w, last) ==
    IF w.batch = <<>> THEN [w EXCEPT !.pc = IF last THEN "stopped" ELSE "poll"]
    ELSE IF Nil \in Elements(w.batch) THEN [w EXCEPT !.pc = "panicked", !.batch = <<>>]
    ELSE [w EXCEPT !.pc = "verify", !.batch = <<>>, !.todo = w.batch,
                   !.valid = <<>>, !.lost = {}, !.last = last]

\* Bug: the batch is filled from the front.
CollectInFront(i) ==
    LET w == [writer EXCEPT !.batch = <<i>> \o @, !.pc = "poll"]
    IN  writer' = IF Len(w.batch) >= MaxBatchSize THEN Flush(w, FALSE) ELSE w

\* An intent joins the batch, which is flushed when it is full.
Collect(i) ==
    LET w == [writer EXCEPT !.batch = Append(@, i), !.pc = "poll"]
    IN  writer' = IF Len(w.batch) >= MaxBatchSize THEN Flush(w, FALSE) ELSE w

WriterOnly == UNCHANGED <<sent, accepted, closed, cancelled, lease, tx, db, told>>

\* Both selects take priority intents; the first is tried before anything else.
TakePriority ==
    /\ writer.pc \in {"poll", "wait"}
    /\ prio # <<>>
    /\ prio' = Tail(prio)
    /\ Collect(Head(prio))
    /\ UNCHANGED ch
    /\ WriterOnly

\* The default branch of the first select.
NothingUrgent ==
    /\ writer.pc = "poll"
    /\ prio = <<>> /\ ~cancelled
    /\ writer' = [writer EXCEPT !.pc = "wait"]
    /\ UNCHANGED <<ch, prio>>
    /\ WriterOnly

TakeNormal ==
    /\ writer.pc = "wait"
    /\ ch # <<>>
    /\ ch' = Tail(ch)
    /\ Collect(Head(ch))
    /\ UNCHANGED prio
    /\ WriterOnly

\* A closed and empty channel yields nil at once, and again and again.
TakeNil ==
    /\ writer.pc = "wait"
    /\ closed /\ ch = <<>>
    /\ Collect(Nil)
    /\ UNCHANGED <<ch, prio>>
    /\ WriterOnly

\* Bug: the ticker flushes full batches only.
TickOnFull ==
    /\ writer.pc = "wait"
    /\ Len(writer.batch) >= MaxBatchSize
    /\ writer' = Flush(writer, FALSE)
    /\ UNCHANGED <<ch, prio>>
    /\ WriterOnly

Tick ==
    /\ writer.pc = "wait"
    /\ writer.batch # <<>>
    /\ writer' = Flush(writer, FALSE)
    /\ UNCHANGED <<ch, prio>>
    /\ WriterOnly

Done ==
    /\ writer.pc \in {"poll", "wait"}
    /\ cancelled
    /\ writer' = Flush(writer, TRUE)
    /\ UNCHANGED <<ch, prio>>
    /\ WriterOnly

-----------------------------------------------------------------------------
(* flushBatch *)

FlushOnly == UNCHANGED <<sent, accepted, ch, prio, closed, cancelled, lease>>

Current   == Head(writer.todo)
Grouped   == Current[1] \in Composite
LeaseLost == Req(Current).task # NoTask /\ ~lease[Req(Current).task]

EndOfFlush == [writer EXCEPT !.pc = IF writer.last THEN "stopped" ELSE "poll",
                             !.todo = <<>>, !.valid = <<>>]

\* The range over validBatch begins.
ToBegin(w) == IF w.todo = <<>>
              THEN [w EXCEPT !.pc = "begin", !.todo = w.valid]
              ELSE [w EXCEPT !.pc = "verify"]

\* Bug: an intent that was answered stays in the batch.
VerifyWithoutContinue ==
    /\ writer.pc = "verify"
    /\ told' = IF LeaseLost THEN [told EXCEPT ![Current] = "stale"] ELSE told
    /\ writer' = ToBegin([writer EXCEPT !.todo = Tail(@), !.valid = Append(@, Current)])
    /\ UNCHANGED <<tx, db>>
    /\ FlushOnly

\* Step 1: an intent whose lease is lost is answered and dropped.  A member of
\* a group that passes is checked a second time.
Verify ==
    /\ writer.pc = "verify"
    /\ LET rest == [writer EXCEPT !.todo = Tail(@)]
           pass == [rest EXCEPT !.valid = Append(@, Current)]
       IN  IF LeaseLost
           THEN /\ told' = [told EXCEPT ![Current] = "stale"]
                /\ writer' = ToBegin(rest)
           ELSE /\ writer' = IF Grouped /\ Req(Current).task # NoTask
                             THEN [writer EXCEPT !.pc = "recheck",
                                                 !.valid = Append(@, Current)]
                             ELSE ToBegin(pass)
                /\ UNCHANGED told
    /\ UNCHANGED <<tx, db>>
    /\ FlushOnly

\* ... and gives up its whole group if the lease was lost in between.
Recheck ==
    /\ writer.pc = "recheck"
    /\ writer' = ToBegin([writer EXCEPT
                            !.todo = Tail(@),
                            !.lost = IF LeaseLost THEN @ \cup {Current[1]} ELSE @])
    /\ UNCHANGED <<tx, db, told>>
    /\ FlushOnly

\* Bug: what was executed before the failing statement is committed.
FailAllKeepDone ==
    /\ told' = [i \in Intents |->
                  IF i \in Elements(writer.valid) THEN "failed" ELSE told[i]]
    /\ tx' = [tx EXCEPT !.stale = {}]
    /\ writer' = EndOfFlush
    /\ db' = tx.store

\* failAll: everything that is still to be answered fails, and the transaction
\* is rolled back.
FailAll ==
    /\ told' = [i \in Intents |->
                  IF i \in Elements(writer.valid) THEN "failed" ELSE told[i]]
    /\ tx' = [store |-> db, stale |-> {}]
    /\ writer' = EndOfFlush
    /\ UNCHANGED db

\* Step 2: BEGIN, which fails when the context is done; nothing is left to do
\* when no intent has passed.
Begin ==
    /\ writer.pc = "begin"
    /\ IF writer.valid = <<>>
       THEN writer' = EndOfFlush /\ UNCHANGED <<tx, told>>
       ELSE /\ ~cancelled
            /\ writer' = [writer EXCEPT !.pc = "execute"]
            /\ tx' = [store |-> db, stale |-> {}]
            /\ UNCHANGED told
    /\ UNCHANGED db
    /\ FlushOnly

\* BEGIN, a statement or COMMIT fails: a fault of the database, or the context
\* is done, which rolls the transaction back.
Fault ==
    /\ writer.pc \in {"begin", "execute"}
    /\ writer.valid # <<>>
    /\ FailAll
    /\ FlushOnly

\* The version a statement on the versioned table leaves under its key.
NewVersion(r) ==
    IF r.op = "delete" THEN NoRow
    ELSE IF r.op = "upsert" /\ r.claimed = 0 THEN Null
    ELSE r.claimed

\* Bug: the UPDATE that is tried again after a failed INSERT has lost its
\* condition on the version.
VersionMatchesForInsert(r, v) == r.op \in {"delete", "upsert"} \/ r.claimed = 0 \/ v = r.claimed - 1

\* executeInsert and executeUpsert with a version: UPDATE ... WHERE version =
\* ClaimedVersion - 1, and an upsert inserts where there is no row.
VersionMatches(r, v) ==
    \/ r.op = "delete"
    \/ r.claimed = 0
    \/ v = r.claimed - 1
    \/ r.op = "upsert" /\ v = NoRow

\* Bug: the hash is read outside of the transaction.
CommittedHash == IF db.log = <<>> THEN NoEvent ELSE db.log[Len(db.log)].key

\* The hash of the event before, which the transaction itself may have written.
PrevHash == IF tx.store.log = <<>> THEN NoEvent ELSE tx.store.log[Len(tx.store.log)].key

\* The event that is written.  The error of the SELECT for the hash before is ignored: an
\* event whose SELECT failed is written as the first of a chain.
NewEvents(key) ==
    {[key |-> key, prev |-> PrevHash, read |-> TRUE],
     [key |-> key, prev |-> NoEvent, read |-> FALSE]}

\* The statement of intent i has left the table and the events so.
Executed(i, table, log) ==
    [store |-> [table |-> table, log |-> log, done |-> Append(tx.store.done, i)],
     stale |-> tx.stale]

\* Step 3, one statement that succeeds or finds another version than it claims.
Execute ==
    /\ writer.pc = "execute"
    /\ writer.todo # <<>>
    /\ LET r == Req(Current)
           v == tx.store.table[r.key]
       IN  \/ /\ \/ Grouped /\ Current[1] \in writer.lost
                 \/ r.op \in {"insert", "upsert", "delete"} /\ ~VersionMatches(r, v)
              /\ tx' = [tx EXCEPT !.stale = @ \cup {Current}]
           \/ /\ ~(Grouped /\ Current[1] \in writer.lost)
              /\ \/ /\ r.op \in {"insert", "upsert", "delete"}
                    /\ VersionMatches(r, v)
                    /\ tx' = Executed(Current, [tx.store.table EXCEPT ![r.key] = NewVersion(r)],
                                      tx.store.log)
                 \/ /\ r.op = "decision"
                    /\ tx' = Executed(Current, tx.store.table, tx.store.log)
                 \/ /\ r.op = "event"
                    /\ \A n \in DOMAIN tx.store.log : tx.store.log[n].key # r.key
                    /\ \E event \in NewEvents(r.key) :
                          tx' = Executed(Current, tx.store.table,
                                         Append(tx.store.log, event))
    /\ writer' = [writer EXCEPT !.todo = Tail(@)]
    /\ UNCHANGED <<db, told>>
    /\ FlushOnly

\* Step 3, a statement that must fail: an event id that is there already
\* (UNIQUE), or an event of the EventWriteBuffer, whose upsert names columns
\* that table events does not have.
Reject ==
    /\ writer.pc = "execute"
    /\ writer.todo # <<>>
    /\ ~(Grouped /\ Current[1] \in writer.lost)
    /\ LET r == Req(Current)
       IN  \/ r.op = "emit"
           \/ r.op = "event" /\ \E n \in DOMAIN tx.store.log : tx.store.log[n].key = r.key
    /\ FailAll
    /\ FlushOnly

\* Steps 4 and 5.
Commit ==
    /\ writer.pc = "execute"
    /\ writer.todo = <<>>
    /\ ~cancelled
    /\ db' = tx.store
    /\ told' = [i \in Intents |->
                  IF i \in tx.stale THEN "stale"
                  ELSE IF i \in Elements(writer.valid) THEN "ok" ELSE told[i]]
    /\ writer' = EndOfFlush
    /\ tx' = [tx EXCEPT !.stale = {}]
    /\ FlushOnly
-----------------------------------------------------------------------------
Writer == \/ TakePriority \/ NothingUrgent \/ TakeNormal \/ TakeNil \/ Tick \/ Done
          \/ Verify \/ Recheck \/ Begin \/ Fault \/ Execute \/ Reject \/ Commit

Next ==
    \/ \E c \in Callers : Submit(c)
    \/ \E t \in Tasks : LoseLease(t)
    \/ Cancel
    \/ Close
    \/ Writer

Spec == Init /\ [][Next]_vars

\* The goroutine of Run is scheduled, and the database answers.
FairSpec == Spec /\ WF_vars(Writer)
-----------------------------------------------------------------------------
(* Properties *)

Accepted(i) == i[2] <= sent[i[1]]

\* What a caller is told is what happened: "ok" exactly to the intents whose
\* effect is committed, whatever failed next to them in the batch.
AnswersTrue ==
    \A i \in Intents : told[i] = "ok" <=> i \in Elements(db.done)

\* An answer is final.  A second one would block the writer for ever: the
\* channel has room for one, and steps 1 and 5 wait for room.
AnsweredOnce == [][\A i \in Intents : told[i] # "none" => told'[i] = told[i]]_vars

\* A lost lease concerns the intent itself and the rest of its group.
Leased ==
    {i \in Intents : \/ Req(i).task # NoTask
                     \/ /\ i[1] \in Composite
                        /\ \E n \in DOMAIN Program[i[1]] : Program[i[1]][n].task # NoTask}

Log == INSTANCE CommitLog WITH
    Request <- [i \in Intents |-> Req(i)],
    normal <- accepted.ch, urgent <- accepted.prio,
    answer <- told, history <- db.done, table <- db.table

\* To its callers the bus is one log, to which it adds a batch as a whole
\* (mutation_bus.go:11 and the steps of flushBatch): each intent is made for the
\* version that the ones before it left, after what its lane accepted earlier;
\* a "stale" has its reason, and what fails has no effect.
LogRefinement == Log!LogSpec

\* The events form one chain: every event has the hash of the one before it,
\* also within a batch and after a batch was rolled back, and none is there
\* twice.  Only an event for which the SELECT of that hash failed begins anew.
HashChain ==
    \A n \in DOMAIN db.log :
        /\ db.log[n].prev =
               IF n = 1 \/ ~db.log[n].read THEN NoEvent ELSE db.log[n - 1].key
        /\ \A m \in 1 .. n - 1 : db.log[m].key # db.log[n].key

Versioned(i)   == Req(i).op \in {"insert", "upsert"} /\ Req(i).claimed > 0
Unversioned(i) == \/ Req(i).op \in {"insert", "upsert"} /\ Req(i).claimed = 0
                  \/ Req(i).op = "delete"

\* Of the intents that claim the same version of a key at most one succeeds, as
\* long as nobody writes the key without a version.
OneWinner ==
    \A i, j \in Elements(db.done) :
        /\ Versioned(i) /\ Versioned(j)
        /\ Req(i).key = Req(j).key
        /\ Req(i).claimed = Req(j).claimed
        /\ \A m \in Elements(db.done) : Unversioned(m) => Req(m).key # Req(i).key
        => i = j

\* Intents of the same priority take effect in the order in which they were
\* accepted.
SubmissionOrder ==
    \A s \in {accepted.ch, accepted.prio} :
        \A m, n \in DOMAIN db.done, p, q \in DOMAIN s :
            db.done[m] = s[p] /\ db.done[n] = s[q] /\ p < q => m < n

\* As long as the bus is not shut down, every accepted intent is answered.
Answered ==
    \A i \in Intents :
        Accepted(i) ~> (told[i] # "none" \/ cancelled)
-----------------------------------------------------------------------------
(* What the documents say and the code does not do *)

\* "SubmitComposite: one group of intents is committed atomically, all or
\* nothing" (mutation_bus.go:130): no member takes effect when another one was
\* turned down.
CompositeAtomic ==
    \A c \in Composite :
        \/ \A n \in DOMAIN Program[c] : told[<<c, n>>] # "ok"
        \/ \A n \in DOMAIN Program[c] :
               told[<<c, n>>] \in {"none", "ok"}

\* The hash before is visible to the query, which keeps the chain unbroken within a
\* batch (mutation_bus_execute.go:28).
ChainIsUnbroken ==
    \A n \in DOMAIN db.log :
        n > 1 => db.log[n].prev = db.log[n - 1].key

\* Shutting down flushes what is left (main.go:270), and Close drains the
\* channel (mutation_bus.go:191): when the writer has stopped, no accepted
\* intent is without an answer.
ShutdownAnswers ==
    writer.pc = "stopped" /\ closed =>
        \A i \in Intents : Accepted(i) => told[i] # "none"
=============================================================================

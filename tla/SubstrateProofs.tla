-------------------------- MODULE SubstrateProofs ---------------------------
(***************************************************************************)
(* Proofs about the components that write to and read from the store:      *)
(* first MutationBus, for any programs of any number of callers, any       *)
(* capacities and any size of a batch, then Outbox, for any number of      *)
(* records, any limits of a round and any numbers of faults and restarts.  *)
(*                                                                         *)
(* MutationBus.  What the database holds (HashChain, OneWinner) follows    *)
(* from the store of the open transaction alone: SoundStore.  The answers  *)
(* and their order follow from the way of an intent through the channels,  *)
(* the batch and the transaction: at any time it is at one place, has no   *)
(* answer there, and whoever was accepted later on the same channel is     *)
(* behind it.  That the bus implements the commit log rests on more: who   *)
(* is accepted and has no answer is at one of these places (NoneLost), the *)
(* store of a transaction only grows (Continues), and its tables are what  *)
(* its history makes of empty ones (Lawful).                               *)
(*                                                                         *)
(* Outbox.  The worker's cursor passes a record only when the record is    *)
(* dealt with: CursorInv, which follows the batch from the query to the    *)
(* cursor.                                                                 *)
(***************************************************************************)
EXTENDS MutationBus, Outbox, TLAPS, FiniteSetTheorems

(***************************************************************************)
(* Sequences.                                                              *)
(***************************************************************************)
LEMMA AppendFacts ==
    ASSUME NEW S, NEW s \in Seq(S), NEW x \in S
    PROVE  /\ Append(s, x) \in Seq(S)
           /\ Len(Append(s, x)) = Len(s) + 1
           /\ Len(s) \in Nat
           /\ DOMAIN Append(s, x) = 1 .. Len(s) + 1
           /\ DOMAIN s = 1 .. Len(s)
           /\ Append(s, x)[Len(s) + 1] = x
           /\ \A n \in 1 .. Len(s) : Append(s, x)[n] = s[n]
           /\ Elements(Append(s, x)) = Elements(s) \cup {x}
<1>1. /\ Append(s, x) \in Seq(S)
      /\ Len(Append(s, x)) = Len(s) + 1
      /\ Len(s) \in Nat
      /\ DOMAIN Append(s, x) = 1 .. Len(s) + 1
      /\ DOMAIN s = 1 .. Len(s)
      /\ Append(s, x)[Len(s) + 1] = x
      /\ \A n \in 1 .. Len(s) : Append(s, x)[n] = s[n]
  OBVIOUS
<1>2. ASSUME NEW e PROVE e \in Elements(Append(s, x)) <=> e \in Elements(s) \cup {x}
  <2>1. e \in Elements(Append(s, x)) <=> \E n \in 1 .. Len(s) + 1 : e = Append(s, x)[n]
    BY <1>1 DEF Elements
  <2>2. e \in Elements(s) <=> \E n \in 1 .. Len(s) : e = s[n]
    BY <1>1 DEF Elements
  <2>. QED BY <1>1, <2>1, <2>2
<1>. QED BY <1>1, <1>2

LEMMA TailFacts ==
    ASSUME NEW S, NEW s \in Seq(S), s # <<>>
    PROVE  /\ Tail(s) \in Seq(S)
           /\ Head(s) \in S
           /\ Head(s) = s[1]
           /\ 1 \in DOMAIN s
           /\ Len(s) \in Nat \ {0}
           /\ Len(Tail(s)) = Len(s) - 1
           /\ DOMAIN s = 1 .. Len(s)
           /\ DOMAIN Tail(s) = 1 .. Len(s) - 1
           /\ \A n \in 1 .. Len(s) - 1 : Tail(s)[n] = s[n + 1]
           /\ Elements(s) = {Head(s)} \cup Elements(Tail(s))
<1>1. /\ Tail(s) \in Seq(S)
      /\ Head(s) \in S
      /\ Head(s) = s[1]
      /\ 1 \in DOMAIN s
      /\ Len(s) \in Nat \ {0}
      /\ Len(Tail(s)) = Len(s) - 1
      /\ DOMAIN s = 1 .. Len(s)
      /\ DOMAIN Tail(s) = 1 .. Len(s) - 1
      /\ \A n \in 1 .. Len(s) - 1 : Tail(s)[n] = s[n + 1]
  OBVIOUS
<1>2. ASSUME NEW e PROVE e \in Elements(s) <=> e \in {Head(s)} \cup Elements(Tail(s))
  <2>1. e \in Elements(s) <=> \E n \in 1 .. Len(s) : e = s[n]
    BY <1>1 DEF Elements
  <2>2. e \in Elements(Tail(s)) <=> \E n \in 1 .. Len(s) - 1 : e = s[n + 1]
    BY <1>1 DEF Elements
  <2>3. ASSUME NEW n \in 1 .. Len(s), n # 1 PROVE n - 1 \in 1 .. Len(s) - 1 /\ n = (n - 1) + 1
    BY <1>1, <2>3
  <2>. QED BY <1>1, <2>1, <2>2, <2>3
<1>. QED BY <1>1, <1>2

LEMMA LastFacts ==
    ASSUME NEW S, NEW s \in Seq(S), s # <<>>
    PROVE  Len(s) \in DOMAIN s /\ s[Len(s)] \in S
  OBVIOUS

LEMMA EmptyFacts ==
    /\ \A S : <<>> \in Seq(S)
    /\ Elements(<<>>) = {}
    /\ \A S : \A s \in Seq(S) : Elements(s) \subseteq S
  BY DEF Elements

\* A batch without nil is one of intents.
LEMMA WithoutNil ==
    ASSUME NEW s \in Seq(Intents \cup {Nil}), Nil \notin Elements(s)
    PROVE  s \in Seq(Intents)
<1>1. Len(s) \in Nat /\ DOMAIN s = 1 .. Len(s) /\ s = [n \in 1 .. Len(s) |-> s[n]]
  OBVIOUS
<1>2. \A n \in 1 .. Len(s) : s[n] \in Intents
  BY <1>1 DEF Elements
<1>. QED BY <1>1, <1>2

(***************************************************************************)
(* What the database holds.                                                *)
(***************************************************************************)
Chained(log) ==
    \A n \in DOMAIN log :
        /\ log[n].prev = IF n = 1 \/ ~log[n].read THEN NoEvent ELSE log[n - 1].key
        /\ \A m \in 1 .. n - 1 : log[m].key # log[n].key

VersionedOnly(done, k) == \A m \in Elements(done) : Unversioned(m) => Req(m).key # k

\* The version under a key is as high as any that was claimed.
VersionsGrow(s) ==
    \A i \in Elements(s.done) :
        Versioned(i) /\ VersionedOnly(s.done, Req(i).key)
            => Req(i).claimed <= s.table[Req(i).key]

OneClaim(done) ==
    \A i, j \in Elements(done) :
        /\ Versioned(i) /\ Versioned(j)
        /\ Req(i).key = Req(j).key
        /\ Req(i).claimed = Req(j).claimed
        /\ VersionedOnly(done, Req(i).key)
        => i = j

SoundStore(s) == Chained(s.log) /\ VersionsGrow(s) /\ OneClaim(s.done)

Stored == SoundStore(db) /\ SoundStore(tx.store)

(***************************************************************************)
(* Types.                                                                  *)
(***************************************************************************)
LEMMA IntentTypes ==
    /\ \A i \in Intents : Req(i) \in Requests
    /\ \A i \in Intents : i[1] \in Callers /\ i[2] \in DOMAIN Program[i[1]] /\ i = <<i[1], i[2]>>
    /\ \A c \in Callers : \A n \in DOMAIN Program[c] : <<c, n>> \in Intents
    /\ \A c \in Callers : DOMAIN Program[c] = 1 .. Len(Program[c]) /\ Len(Program[c]) \in Nat
<1>1. \A c \in Callers : /\ DOMAIN Program[c] = 1 .. Len(Program[c]) /\ Len(Program[c]) \in Nat
                         /\ \A n \in DOMAIN Program[c] : Program[c][n] \in Requests
  BY BusAssumption
<1>2. \A c \in Callers : \A n \in DOMAIN Program[c] : <<c, n>> \in Intents
  BY DEF Intents
<1>3. \A i \in Intents : i[1] \in Callers /\ i[2] \in DOMAIN Program[i[1]] /\ i = <<i[1], i[2]>>
  BY DEF Intents
<1>. QED BY <1>1, <1>2, <1>3 DEF Req

LEMMA SubmitTypes ==
    ASSUME TypeOK, NEW c \in Callers, Submit(c)
    PROVE  TypeOK' /\ NextIntent(c) \in Intents
<1>1. sent[c] \in Nat /\ sent[c] < Len(Program[c])
  BY DEF Submit, HasMore, TypeOK
<1>2. NextIntent(c) \in Intents
  BY <1>1, IntentTypes DEF NextIntent
<1>3. sent' \in [Callers -> Nat]
  BY <1>1 DEF Submit, Enqueue, TypeOK
<1>4. CASE Req(NextIntent(c)).flush
  <2>1. /\ prio' = Append(prio, NextIntent(c)) /\ Len(prio) < PriorityCap
        /\ accepted' = [accepted EXCEPT !.prio = Append(@, NextIntent(c))]
        /\ UNCHANGED ch
    BY <1>4 DEF Submit, Enqueue
  <2>2. prio' \in Seq(Intents) /\ Len(prio') <= PriorityCap
    BY <1>2, <2>1, AppendFacts, BusAssumption DEF TypeOK
  <2>3. accepted' \in [ch : Seq(Intents), prio : Seq(Intents)]
    BY <1>2, <2>1, AppendFacts DEF TypeOK
  <2>. QED BY <1>2, <1>3, <2>1, <2>2, <2>3 DEF Submit, Enqueue, TypeOK
<1>5. CASE ~Req(NextIntent(c)).flush
  <2>1. /\ ch' = Append(ch, NextIntent(c)) /\ Len(ch) < ChCap
        /\ accepted' = [accepted EXCEPT !.ch = Append(@, NextIntent(c))]
        /\ UNCHANGED prio
    BY <1>5 DEF Submit, Enqueue
  <2>2. ch' \in Seq(Intents) /\ Len(ch') <= ChCap
    BY <1>2, <2>1, AppendFacts, BusAssumption DEF TypeOK
  <2>3. accepted' \in [ch : Seq(Intents), prio : Seq(Intents)]
    BY <1>2, <2>1, AppendFacts DEF TypeOK
  <2>. QED BY <1>2, <1>3, <2>1, <2>2, <2>3 DEF Submit, Enqueue, TypeOK
<1>. QED BY <1>4, <1>5

\* What the steps of the loop do to the writer.
LEMMA FlushFacts ==
    ASSUME NEW w \in Writers, w.todo = <<>>, w.valid = <<>>, NEW last \in BOOLEAN
    PROVE  LET f == Flush(w, last)
           IN  /\ f \in Writers
               /\ \/ f.pc \in {"stopped", "poll"} /\ f.batch = <<>> /\ f.todo = <<>> /\ w.batch = <<>>
                  \/ f.pc = "panicked" /\ f.batch = <<>> /\ f.todo = <<>>
                  \/ /\ f.pc = "verify" /\ f.batch = <<>>
                     /\ Nil \notin Elements(w.batch) /\ f.todo = w.batch /\ f.todo # <<>>
               /\ f.valid = <<>>
<1>1. CASE w.batch = <<>>
  BY <1>1 DEF Flush, Writers
<1>2. CASE w.batch # <<>> /\ Nil \in Elements(w.batch)
  BY <1>2, EmptyFacts DEF Flush, Writers
<1>3. CASE w.batch # <<>> /\ Nil \notin Elements(w.batch)
  <2>1. w.batch \in Seq(Intents)
    BY <1>3, WithoutNil DEF Writers
  <2>2. Flush(w, last) = [w EXCEPT !.pc = "verify", !.batch = <<>>, !.todo = w.batch,
                                   !.valid = <<>>, !.lost = {}, !.last = last]
    BY <1>3 DEF Flush
  <2>0. <<>> \in Seq(Intents) /\ <<>> \in Seq(Intents \cup {Nil})
    BY EmptyFacts
  <2>3. Flush(w, last) \in Writers
    BY <2>0, <2>1, <2>2 DEF Writers
  <2>4. /\ Flush(w, last).pc = "verify" /\ Flush(w, last).batch = <<>>
        /\ Flush(w, last).todo = w.batch /\ Flush(w, last).valid = <<>>
    BY <2>2 DEF Writers
  <2>. QED BY <1>3, <2>3, <2>4
<1>. QED BY <1>1, <1>2, <1>3

LEMMA CollectFacts ==
    ASSUME TypeOK, NEW i \in Intents \cup {Nil}, Collect(i),
           writer.todo = <<>>, writer.valid = <<>>
    PROVE  /\ writer' \in Writers
           /\ writer'.valid = <<>>
           /\ \/ /\ writer'.pc = "poll" /\ writer'.batch = Append(writer.batch, i)
                 /\ writer'.todo = <<>>
              \/ writer'.pc = "panicked" /\ writer'.batch = <<>> /\ writer'.todo = <<>>
              \/ /\ writer'.pc = "verify" /\ writer'.batch = <<>>
                 /\ Nil \notin Elements(Append(writer.batch, i))
                 /\ writer'.todo = Append(writer.batch, i) /\ writer'.todo # <<>>
<1> DEFINE w == [writer EXCEPT !.batch = Append(@, i), !.pc = "poll"]
<1>1. writer \in Writers /\ writer.batch \in Seq(Intents \cup {Nil})
  BY DEF TypeOK, Writers
<1>2. Append(writer.batch, i) \in Seq(Intents \cup {Nil})
  BY <1>1, AppendFacts
<1>5. Append(writer.batch, i) # <<>>
  BY <1>1, AppendFacts
<1>3. /\ w \in Writers /\ w.todo = <<>> /\ w.valid = <<>> /\ w.pc = "poll"
      /\ w.batch = Append(writer.batch, i)
  BY <1>1, <1>2 DEF Writers
<1>4. writer' = IF Len(w.batch) >= MaxBatchSize THEN Flush(w, FALSE) ELSE w
  BY DEF Collect
<1> HIDE DEF w
<1>. QED BY <1>3, <1>4, <1>5, FlushFacts

LEMMA EndFacts ==
    ASSUME TypeOK
    PROVE  /\ EndOfFlush \in Writers
           /\ EndOfFlush.pc \in {"stopped", "poll"}
           /\ EndOfFlush.batch = writer.batch
           /\ EndOfFlush.todo = <<>> /\ EndOfFlush.valid = <<>>
  BY EmptyFacts DEF EndOfFlush, TypeOK, Writers

LEMMA ToBeginFacts ==
    ASSUME NEW w \in Writers
    PROVE  LET b == ToBegin(w)
           IN  /\ b \in Writers
               /\ b.batch = w.batch /\ b.valid = w.valid
               /\ \/ b.pc = "begin" /\ w.todo = <<>> /\ b.todo = w.valid
                  \/ b.pc = "verify" /\ w.todo # <<>> /\ b.todo = w.todo
  BY DEF ToBegin, Writers

\* At which step of the flush which part of the batch is left.
Stages ==
    /\ writer.pc \in {"poll", "wait", "stopped", "panicked"} =>
           writer.todo = <<>> /\ writer.valid = <<>>
    /\ writer.pc \in {"verify", "recheck", "begin", "execute"} => writer.batch = <<>>
    /\ writer.pc \in {"verify", "recheck"} => writer.todo # <<>>
    /\ writer.pc = "begin" => writer.todo = writer.valid

Polling ==
    \/ TakePriority \/ NothingUrgent \/ TakeNormal \/ TakeNil \/ Tick \/ Done

LEMMA PollingTypes ==
    ASSUME TypeOK, Stages, Polling
    PROVE  TypeOK' /\ Stages'
<1>1. /\ writer \in Writers /\ writer.todo = <<>> /\ writer.valid = <<>>
      /\ writer.pc \in {"poll", "wait"}
  BY DEF Polling, TakePriority, NothingUrgent, TakeNormal, TakeNil, Tick, Done, TypeOK, Stages
<1>2. UNCHANGED <<sent, accepted, closed, cancelled, lease, tx, db, told>>
  BY DEF Polling, TakePriority, NothingUrgent, TakeNormal, TakeNil, Tick, Done, WriterOnly
<1>3. ch' \in Seq(Intents) /\ Len(ch') <= ChCap /\ prio' \in Seq(Intents) /\ Len(prio') <= PriorityCap
  <2>1. \A q \in Seq(Intents) : q # <<>> => /\ Tail(q) \in Seq(Intents)
                                          /\ Len(Tail(q)) \in Nat /\ Len(Tail(q)) <= Len(q)
    BY TailFacts
  <2>2. /\ \/ ch' = ch
           \/ ch # <<>> /\ ch' = Tail(ch)
        /\ \/ prio' = prio
           \/ prio # <<>> /\ prio' = Tail(prio)
    BY DEF Polling, TakePriority, NothingUrgent, TakeNormal, TakeNil, Tick, Done
  <2>3. /\ ch \in Seq(Intents) /\ prio \in Seq(Intents)
        /\ Len(ch) \in Nat /\ Len(prio) \in Nat /\ Len(ch) <= ChCap /\ Len(prio) <= PriorityCap
        /\ ChCap \in Nat /\ PriorityCap \in Nat
    BY BusAssumption DEF TypeOK
  <2>4. ch' \in Seq(Intents) /\ Len(ch') \in Nat /\ Len(ch') <= Len(ch)
    <3>1. CASE ch' = ch
      BY <2>3, <3>1
    <3>2. CASE ch # <<>> /\ ch' = Tail(ch)
      BY <2>1, <2>3, <3>2
    <3>. QED BY <2>2, <3>1, <3>2
  <2>5. prio' \in Seq(Intents) /\ Len(prio') \in Nat /\ Len(prio') <= Len(prio)
    <3>1. CASE prio' = prio
      BY <2>3, <3>1
    <3>2. CASE prio # <<>> /\ prio' = Tail(prio)
      BY <2>1, <2>3, <3>2
    <3>. QED BY <2>2, <3>1, <3>2
  <2>. QED BY <2>3, <2>4, <2>5
<1>4. /\ writer' \in Writers
      /\ writer'.valid = <<>>
      /\ writer'.pc \in {"poll", "wait", "stopped", "panicked"} => writer'.todo = <<>>
      /\ writer'.pc \in {"poll", "wait", "stopped", "panicked", "verify"}
      /\ writer'.pc = "verify" => writer'.batch = <<>> /\ writer'.todo # <<>>
  <2>1. CASE TakePriority
    <3>1. Head(prio) \in Intents /\ Collect(Head(prio))
      BY <2>1, TailFacts DEF TakePriority, TypeOK
    <3>. QED BY <1>1, <3>1, CollectFacts
  <2>2. CASE TakeNormal
    <3>1. Head(ch) \in Intents /\ Collect(Head(ch))
      BY <2>2, TailFacts DEF TakeNormal, TypeOK
    <3>. QED BY <1>1, <3>1, CollectFacts
  <2>3. CASE TakeNil
    BY <1>1, <2>3, CollectFacts DEF TakeNil
  <2>4. CASE Tick \/ Done
    BY <1>1, <2>4, FlushFacts DEF Tick, Done
  <2>5. CASE NothingUrgent
    BY <1>1, <2>5 DEF NothingUrgent, Writers
  <2>. QED BY <2>1, <2>2, <2>3, <2>4, <2>5 DEF Polling
<1>5. TypeOK'
  BY <1>2, <1>3, <1>4 DEF TypeOK
<1>. QED BY <1>4, <1>5 DEF Stages

Flushing ==
    \/ Verify \/ Recheck \/ Begin \/ Fault \/ Execute \/ Reject \/ Commit

\* What checking one lease leaves of the batch.
LEMMA VerifyFacts ==
    ASSUME TypeOK, Stages, Verify
    PROVE  /\ writer' \in Writers /\ Stages' /\ Current \in Intents
           /\ writer'.batch = writer.batch
           /\ \/ /\ told' = [told EXCEPT ![Current] = "stale"]
                 /\ writer'.valid = writer.valid
                 /\ writer'.pc = "verify" /\ writer'.todo = Tail(writer.todo)
              \/ /\ told' = [told EXCEPT ![Current] = "stale"]
                 /\ writer'.valid = writer.valid
                 /\ writer'.pc = "begin" /\ writer'.todo = writer.valid
                 /\ Tail(writer.todo) = <<>>
              \/ /\ told' = told
                 /\ writer'.valid = Append(writer.valid, Current)
                 /\ writer'.pc = "recheck" /\ writer'.todo = writer.todo /\ Grouped
              \/ /\ told' = told
                 /\ writer'.valid = Append(writer.valid, Current)
                 /\ writer'.pc = "verify" /\ writer'.todo = Tail(writer.todo)
              \/ /\ told' = told
                 /\ writer'.valid = Append(writer.valid, Current)
                 /\ writer'.pc = "begin" /\ writer'.todo = writer'.valid
                 /\ Tail(writer.todo) = <<>>
<1> DEFINE rest == [writer EXCEPT !.todo = Tail(@)]
           pass == [rest EXCEPT !.valid = Append(@, Current)]
           again == [writer EXCEPT !.pc = "recheck", !.valid = Append(@, Current)]
<1>1. /\ writer \in Writers /\ writer.todo \in Seq(Intents) /\ writer.valid \in Seq(Intents)
      /\ writer.pc = "verify" /\ writer.todo # <<>> /\ writer.batch = <<>>
  BY DEF Verify, TypeOK, Stages, Writers
<1>2. Current \in Intents /\ Tail(writer.todo) \in Seq(Intents)
  BY <1>1, TailFacts DEF Current
<1>3. Append(writer.valid, Current) \in Seq(Intents)
  BY <1>1, <1>2, AppendFacts
<1>4. /\ rest \in Writers /\ rest.todo = Tail(writer.todo) /\ rest.valid = writer.valid
      /\ rest.batch = <<>>
  BY <1>1, <1>2 DEF Writers
<1>5. /\ pass \in Writers /\ pass.todo = Tail(writer.todo)
      /\ pass.valid = Append(writer.valid, Current) /\ pass.batch = <<>>
  BY <1>1, <1>2, <1>3 DEF Writers
<1>6. /\ again \in Writers /\ again.todo = writer.todo /\ again.pc = "recheck"
      /\ again.valid = Append(writer.valid, Current) /\ again.batch = <<>>
  BY <1>1, <1>3 DEF Writers
<1>7. \/ told' = [told EXCEPT ![Current] = "stale"] /\ writer' = ToBegin(rest)
      \/ told' = told /\ writer' = again /\ Grouped
      \/ told' = told /\ writer' = ToBegin(pass)
  BY DEF Verify
<1> HIDE DEF rest, pass, again
<1>8. CASE told' = [told EXCEPT ![Current] = "stale"] /\ writer' = ToBegin(rest)
  BY <1>1, <1>2, <1>4, <1>8, ToBeginFacts DEF Stages
<1>9. CASE told' = told /\ writer' = again /\ Grouped
  BY <1>1, <1>2, <1>6, <1>9 DEF Stages
<1>10. CASE told' = told /\ writer' = ToBegin(pass)
  BY <1>1, <1>2, <1>5, <1>10, ToBeginFacts DEF Stages
<1>. QED BY <1>7, <1>8, <1>9, <1>10

LEMMA RecheckFacts ==
    ASSUME TypeOK, Stages, Recheck
    PROVE  /\ writer' \in Writers /\ Stages'
           /\ writer'.batch = writer.batch /\ writer'.valid = writer.valid
           /\ \/ writer'.pc = "verify" /\ writer'.todo = Tail(writer.todo)
              \/ /\ writer'.pc = "begin" /\ writer'.todo = writer.valid
                 /\ Tail(writer.todo) = <<>>
<1> DEFINE w == [writer EXCEPT
                   !.todo = Tail(@),
                   !.lost = IF LeaseLost THEN @ \cup {Current[1]} ELSE @]
<1>1. /\ writer \in Writers /\ writer.todo \in Seq(Intents)
      /\ writer.pc = "recheck" /\ writer.todo # <<>> /\ writer.batch = <<>>
  BY DEF Recheck, TypeOK, Stages, Writers
<1>2. Tail(writer.todo) \in Seq(Intents) /\ Current \in Intents /\ Current[1] \in Callers
  BY <1>1, TailFacts, IntentTypes DEF Current
<1>3. /\ w \in Writers /\ w.todo = Tail(writer.todo) /\ w.valid = writer.valid
      /\ w.batch = <<>>
  BY <1>1, <1>2 DEF Writers
<1>4. writer' = ToBegin(w)
  BY DEF Recheck
<1> HIDE DEF w
<1>. QED BY <1>1, <1>3, <1>4, ToBeginFacts DEF Stages

LEMMA StoreTypes ==
    ASSUME NEW s \in Stores
    PROVE  /\ s.table \in [Keys -> {NoRow, Null} \cup Nat]
           /\ s.log \in Seq(Events)
           /\ s.done \in Seq(Intents)
  BY DEF Stores

\* One statement that does not fail, in four kinds.
Skips   == tx' = [tx EXCEPT !.stale = @ \cup {Current}]
Writes  == /\ Req(Current).op \in {"insert", "upsert", "delete"}
           /\ VersionMatches(Req(Current), tx.store.table[Req(Current).key])
           /\ tx'.store.done = Append(tx.store.done, Current)
           /\ tx'.store.table = [tx.store.table EXCEPT
                                   ![Req(Current).key] = NewVersion(Req(Current))]
           /\ tx'.store.log = tx.store.log
           /\ tx'.stale = tx.stale
Decides == /\ Req(Current).op = "decision"
           /\ tx'.store.done = Append(tx.store.done, Current)
           /\ tx'.store.table = tx.store.table
           /\ tx'.store.log = tx.store.log
           /\ tx'.stale = tx.stale
Logs    == /\ Req(Current).op = "event"
           /\ \A n \in DOMAIN tx.store.log : tx.store.log[n].key # Req(Current).key
           /\ tx'.store.done = Append(tx.store.done, Current)
           /\ tx'.store.table = tx.store.table
           /\ \E e \in NewEvents(Req(Current).key) : tx'.store.log = Append(tx.store.log, e)
           /\ tx'.stale = tx.stale

\* An event has the hash of the one before it, if that could be read.
LEMMA EventFacts ==
    ASSUME NEW k \in Keys, tx.store.log \in Seq(Events), NEW e \in NewEvents(k)
    PROVE  /\ e \in Events /\ e.key = k
           /\ e.prev = IF tx.store.log = <<>> \/ ~e.read THEN NoEvent
                       ELSE tx.store.log[Len(tx.store.log)].key
<1>1. PrevHash \in Keys \cup {NoEvent}
  <2>1. CASE tx.store.log = <<>>
    BY <2>1 DEF PrevHash
  <2>2. CASE tx.store.log # <<>>
    <3>1. tx.store.log[Len(tx.store.log)] \in Events
      BY <2>2, LastFacts
    <3>. QED BY <2>2, <3>1 DEF PrevHash, Events
  <2>. QED BY <2>1, <2>2
<1>2. CASE e = [key |-> k, prev |-> PrevHash, read |-> TRUE]
  BY <1>1, <1>2 DEF Events, PrevHash
<1>3. CASE e = [key |-> k, prev |-> NoEvent, read |-> FALSE]
  BY <1>3 DEF Events
<1>. QED BY <1>2, <1>3 DEF NewEvents

LEMMA ExecuteFacts ==
    ASSUME TypeOK, Execute
    PROVE  /\ Current \in Intents /\ Current \in Elements(writer.todo)
           /\ Skips \/ Writes \/ Decides \/ Logs
           /\ tx' \in [store : Stores, stale : SUBSET Intents]
<1> DEFINE r == Req(Current)
<1>1. /\ writer.todo \in Seq(Intents) /\ writer.todo # <<>>
      /\ tx \in [store : Stores, stale : SUBSET Intents]
      /\ tx.store \in Stores
  BY DEF Execute, TypeOK, Writers
<1>2. Current \in Intents /\ Current \in Elements(writer.todo)
  BY <1>1, TailFacts DEF Current
<1>3. r \in Requests /\ r.key \in Keys /\ r.claimed \in Nat
  BY <1>2, IntentTypes DEF Requests
<1>4. /\ tx.store.table \in [Keys -> {NoRow, Null} \cup Nat]
      /\ tx.store.log \in Seq(Events)
      /\ tx.store.done \in Seq(Intents)
  BY <1>1, StoreTypes
<1>5. Append(tx.store.done, Current) \in Seq(Intents)
  BY <1>2, <1>4, AppendFacts
<1>6. ASSUME NEW entry \in NewEvents(r.key) PROVE entry \in Events
  BY <1>3, <1>4, EventFacts
<1>7. ASSUME NEW entry \in NewEvents(r.key) PROVE Append(tx.store.log, entry) \in Seq(Events)
  BY <1>4, <1>6, AppendFacts
<1>8. NewVersion(r) \in {NoRow, Null} \cup Nat
  BY <1>3 DEF NewVersion
<1>9. \/ Skips
      \/ /\ r.op \in {"insert", "upsert", "delete"}
         /\ VersionMatches(r, tx.store.table[r.key])
         /\ tx' = Executed(Current, [tx.store.table EXCEPT ![r.key] = NewVersion(r)],
                           tx.store.log)
      \/ /\ r.op = "decision"
         /\ tx' = Executed(Current, tx.store.table, tx.store.log)
      \/ /\ r.op = "event"
         /\ \A n \in DOMAIN tx.store.log : tx.store.log[n].key # r.key
         /\ \E entry \in NewEvents(r.key) :
               tx' = Executed(Current, tx.store.table, Append(tx.store.log, entry))
  BY DEF Execute, Skips
<1>10. CASE Skips
  BY <1>1, <1>2, <1>10 DEF Skips
<1>11. ASSUME NEW table \in [Keys -> {NoRow, Null} \cup Nat],
              NEW log \in Seq(Events),
              tx' = Executed(Current, table, log)
       PROVE  /\ tx' \in [store : Stores, stale : SUBSET Intents]
              /\ tx'.store.table = table /\ tx'.store.log = log /\ tx'.stale = tx.stale
              /\ tx'.store.done = Append(tx.store.done, Current)
  BY <1>1, <1>5, <1>11 DEF Executed, Stores
<1>12. CASE /\ r.op \in {"insert", "upsert", "delete"}
            /\ VersionMatches(r, tx.store.table[r.key])
            /\ tx' = Executed(Current, [tx.store.table EXCEPT ![r.key] = NewVersion(r)],
                              tx.store.log)
  <2>1. [tx.store.table EXCEPT ![r.key] = NewVersion(r)] \in [Keys -> {NoRow, Null} \cup Nat]
    BY <1>3, <1>4, <1>8
  <2>. QED BY <1>2, <1>4, <1>11, <1>12, <2>1 DEF Writes
<1>13. CASE r.op = "decision" /\ tx' = Executed(Current, tx.store.table, tx.store.log)
  BY <1>2, <1>4, <1>11, <1>13 DEF Decides
<1>14. CASE /\ r.op = "event"
            /\ \A n \in DOMAIN tx.store.log : tx.store.log[n].key # r.key
            /\ \E entry \in NewEvents(r.key) :
                  tx' = Executed(Current, tx.store.table, Append(tx.store.log, entry))
  <2>1. PICK entry \in NewEvents(r.key) :
            tx' = Executed(Current, tx.store.table, Append(tx.store.log, entry))
    BY <1>14
  <2>. QED BY <1>2, <1>4, <1>7, <1>11, <1>14, <2>1 DEF Logs
<1>. QED BY <1>9, <1>10, <1>12, <1>13, <1>14

\* Everything of the batch that is still to be answered fails.
LEMMA FailFacts ==
    ASSUME TypeOK, Stages, Fault \/ Reject
    PROVE  /\ FailAll /\ writer' = EndOfFlush
           /\ UNCHANGED <<sent, accepted, ch, prio, closed, cancelled, lease, db>>
           /\ tx' = [store |-> db, stale |-> {}]
           /\ writer.pc \in {"begin", "execute"} /\ writer.batch = <<>>
           /\ told' \in [Intents -> Answers]
           /\ tx' \in [store : Stores, stale : SUBSET Intents]
<1>1. /\ FailAll /\ writer' = EndOfFlush
      /\ UNCHANGED <<sent, accepted, ch, prio, closed, cancelled, lease, db>>
      /\ tx' = [store |-> db, stale |-> {}]
      /\ writer.pc \in {"begin", "execute"}
  BY DEF Fault, Reject, FailAll, FlushOnly
<1>2. told' \in [Intents -> Answers]
  BY DEF Fault, Reject, FailAll, TypeOK, Answers
<1>3. tx' \in [store : Stores, stale : SUBSET Intents]
  BY <1>1 DEF TypeOK
<1>. QED BY <1>1, <1>2, <1>3 DEF Stages

LEMMA BeginFacts ==
    ASSUME TypeOK, Stages, Begin
    PROVE  /\ UNCHANGED <<sent, accepted, ch, prio, closed, cancelled, lease, db, told>>
           /\ writer.batch = <<>> /\ writer.todo = writer.valid /\ writer' \in Writers /\ Stages'
           /\ \/ writer' = EndOfFlush /\ UNCHANGED tx /\ writer.valid = <<>>
              \/ /\ writer'.pc = "execute" /\ writer'.batch = <<>>
                 /\ writer'.todo = writer.todo /\ writer'.valid = writer.valid
                 /\ tx' = [store |-> db, stale |-> {}]
<1>1. /\ writer \in Writers /\ writer.pc = "begin"
      /\ writer.batch = <<>> /\ writer.todo = writer.valid
      /\ UNCHANGED <<sent, accepted, ch, prio, closed, cancelled, lease, db, told>>
  BY DEF Begin, FlushOnly, TypeOK, Stages
<1>2. CASE writer' = EndOfFlush /\ UNCHANGED tx /\ writer.valid = <<>>
  BY <1>1, <1>2, EndFacts DEF Stages
<1>3. CASE /\ writer' = [writer EXCEPT !.pc = "execute"]
           /\ tx' = [store |-> db, stale |-> {}]
  <2>1. /\ writer' \in Writers /\ writer'.pc = "execute" /\ writer'.batch = <<>>
        /\ writer'.todo = writer.todo /\ writer'.valid = writer.valid
    BY <1>1, <1>3 DEF Writers
  <2>. QED BY <1>1, <1>3, <2>1 DEF Stages
<1>. QED BY <1>2, <1>3 DEF Begin

LEMMA NextStatement ==
    ASSUME TypeOK, Stages, Execute
    PROVE  /\ UNCHANGED <<sent, accepted, ch, prio, closed, cancelled, lease, db, told>>
           /\ writer' \in Writers /\ Stages'
           /\ writer.pc = "execute" /\ writer'.pc = "execute"
           /\ writer.batch = <<>> /\ writer'.batch = <<>> /\ writer.todo # <<>>
           /\ writer'.todo = Tail(writer.todo) /\ writer'.valid = writer.valid
<1>1. /\ writer \in Writers /\ writer.todo \in Seq(Intents) /\ writer.todo # <<>>
      /\ writer.pc = "execute" /\ writer.batch = <<>>
      /\ writer' = [writer EXCEPT !.todo = Tail(@)]
      /\ UNCHANGED <<sent, accepted, ch, prio, closed, cancelled, lease, db, told>>
  BY DEF Execute, FlushOnly, TypeOK, Stages, Writers
<1>2. Tail(writer.todo) \in Seq(Intents)
  BY <1>1, TailFacts
<1>3. /\ writer' \in Writers /\ writer'.pc = "execute" /\ writer'.batch = <<>>
      /\ writer'.todo = Tail(writer.todo) /\ writer'.valid = writer.valid
  BY <1>1, <1>2 DEF Writers
<1>. QED BY <1>1, <1>3 DEF Stages

LEMMA CommitFacts ==
    ASSUME TypeOK, Stages, Commit
    PROVE  /\ UNCHANGED <<sent, accepted, ch, prio, closed, cancelled, lease>>
           /\ writer' = EndOfFlush /\ writer' \in Writers /\ Stages'
           /\ writer.pc = "execute" /\ writer.todo = <<>> /\ writer.batch = <<>>
           /\ db' = tx.store /\ tx'.store = tx.store
           /\ tx' \in [store : Stores, stale : SUBSET Intents]
           /\ told' = [i \in Intents |->
                         IF i \in tx.stale THEN "stale"
                         ELSE IF i \in Elements(writer.valid) THEN "ok" ELSE told[i]]
           /\ told' \in [Intents -> Answers]
<1>1. /\ writer' = EndOfFlush /\ writer.pc = "execute" /\ writer.todo = <<>>
      /\ UNCHANGED <<sent, accepted, ch, prio, closed, cancelled, lease>>
      /\ db' = tx.store /\ tx' = [tx EXCEPT !.stale = {}]
      /\ told' = [i \in Intents |->
                    IF i \in tx.stale THEN "stale"
                    ELSE IF i \in Elements(writer.valid) THEN "ok" ELSE told[i]]
  BY DEF Commit, FlushOnly
<1>2. writer.batch = <<>> /\ writer' \in Writers /\ Stages'
  BY <1>1, EndFacts DEF Stages
<1>3. tx' \in [store : Stores, stale : SUBSET Intents] /\ tx'.store = tx.store
  BY <1>1 DEF TypeOK
<1>4. told' \in [Intents -> Answers]
  BY <1>1 DEF TypeOK, Answers
<1>. QED BY <1>1, <1>2, <1>3, <1>4

LEMMA FlushingTypes ==
    ASSUME TypeOK, Stages, Flushing
    PROVE  TypeOK' /\ Stages'
<1>1. UNCHANGED <<sent, accepted, ch, prio, closed, cancelled, lease>>
  BY DEF Flushing, Verify, Recheck, Begin, Fault, Execute, Reject, Commit, FlushOnly
<1>2. SUFFICES /\ writer' \in Writers /\ Stages' /\ db' \in Stores
               /\ tx' \in [store : Stores, stale : SUBSET Intents]
               /\ told' \in [Intents -> Answers]
  BY <1>1 DEF TypeOK
<1>3. CASE Verify
  <2>1. told' \in [Intents -> Answers] /\ UNCHANGED <<tx, db>>
    BY <1>3, VerifyFacts DEF Verify, TypeOK, Answers
  <2>. QED BY <1>3, <2>1, VerifyFacts DEF TypeOK
<1>4. CASE Recheck
  BY <1>4, RecheckFacts DEF Recheck, TypeOK
<1>5. CASE Begin
  <2>1. tx' \in [store : Stores, stale : SUBSET Intents]
    BY <1>5, BeginFacts DEF TypeOK
  <2>. QED BY <1>5, <2>1, BeginFacts DEF TypeOK
<1>6. CASE Fault \/ Reject
  <2>1. writer' \in Writers /\ Stages'
    BY <1>6, FailFacts, EndFacts DEF Stages
  <2>. QED BY <1>6, <2>1, FailFacts DEF TypeOK
<1>7. CASE Execute
  BY <1>7, NextStatement, ExecuteFacts DEF TypeOK
<1>8. CASE Commit
  BY <1>8, CommitFacts DEF TypeOK
<1>. QED BY <1>3, <1>4, <1>5, <1>6, <1>7, <1>8 DEF Flushing

LEMMA InitTypes == Init => TypeOK /\ Stages
<1>1. SUFFICES ASSUME Init PROVE TypeOK /\ Stages
  OBVIOUS
<1>2. /\ \A S : <<>> \in Seq(S)
      /\ Len(ch) = 0 /\ Len(prio) = 0
  BY <1>1 DEF Init
<1>3. EmptyStore \in Stores
  BY <1>2 DEF EmptyStore, Stores
<1>4. writer \in Writers /\ Stages
  BY <1>1, <1>2 DEF Init, Writers, Stages
<1>5. tx \in [store : Stores, stale : SUBSET Intents] /\ db \in Stores
  BY <1>1, <1>3 DEF Init
<1>6. /\ sent \in [Callers -> Nat]
      /\ accepted \in [ch : Seq(Intents), prio : Seq(Intents)]
      /\ lease \in [Tasks -> BOOLEAN] /\ told \in [Intents -> Answers]
      /\ closed \in BOOLEAN /\ cancelled \in BOOLEAN
  BY <1>1, <1>2 DEF Init, Answers
<1>7. /\ ch \in Seq(Intents) /\ Len(ch) <= ChCap
      /\ prio \in Seq(Intents) /\ Len(prio) <= PriorityCap
  BY <1>1, <1>2, BusAssumption DEF Init
<1>. QED BY <1>4, <1>5, <1>6, <1>7 DEF TypeOK

\* The environment of the bus.
Around == (\E t \in Tasks : LoseLease(t)) \/ Cancel \/ Close

LEMMA NextCases ==
    [Next]_vars <=> \/ \E c \in Callers : Submit(c)
                    \/ Around \/ Polling \/ Flushing
                    \/ UNCHANGED vars
  BY DEF Next, Around, Polling, Flushing, Writer

LEMMA NextTypes == TypeOK /\ Stages /\ [Next]_vars => TypeOK' /\ Stages'
<1>1. SUFFICES ASSUME TypeOK, Stages, [Next]_vars PROVE TypeOK' /\ Stages'
  OBVIOUS
<1>2. CASE \E c \in Callers : Submit(c)
  BY <1>1, <1>2, SubmitTypes DEF Submit, Enqueue, Stages
<1>3. CASE Around
  <2>1. lease' \in [Tasks -> BOOLEAN] /\ closed' \in BOOLEAN /\ cancelled' \in BOOLEAN
    BY <1>1, <1>3 DEF Around, LoseLease, Cancel, Close, TypeOK
  <2>2. UNCHANGED <<sent, accepted, ch, prio, writer, tx, db, told>>
    BY <1>3 DEF Around, LoseLease, Cancel, Close
  <2>. QED BY <1>1, <2>1, <2>2 DEF TypeOK, Stages
<1>4. CASE Polling
  BY <1>1, <1>4, PollingTypes
<1>5. CASE Flushing
  BY <1>1, <1>5, FlushingTypes
<1>6. CASE UNCHANGED vars
  BY <1>1, <1>6 DEF vars, TypeOK, Stages
<1>. QED BY <1>1, <1>2, <1>3, <1>4, <1>5, <1>6, NextCases

(***************************************************************************)
(* The store stays sound, in the transaction and in the database.          *)
(***************************************************************************)
LEMMA ChainGrows ==
    ASSUME NEW log \in Seq(Events), Chained(log),
           NEW e \in Events,
           e.prev = IF log = <<>> \/ ~e.read THEN NoEvent ELSE log[Len(log)].key,
           \A n \in DOMAIN log : log[n].key # e.key
    PROVE  Chained(Append(log, e))
<1> DEFINE a == Append(log, e)
<1>1. /\ DOMAIN a = 1 .. Len(log) + 1 /\ DOMAIN log = 1 .. Len(log) /\ Len(log) \in Nat
      /\ a[Len(log) + 1] = e
      /\ \A n \in 1 .. Len(log) : a[n] = log[n]
  BY AppendFacts
<1>2. log = <<>> <=> Len(log) = 0
  OBVIOUS
<1> HIDE DEF a
<1>3. SUFFICES ASSUME NEW n \in DOMAIN a
               PROVE  /\ a[n].prev = IF n = 1 \/ ~a[n].read THEN NoEvent ELSE a[n - 1].key
                      /\ \A m \in 1 .. n - 1 : a[m].key # a[n].key
  BY DEF Chained, a
<1>4. CASE n \in 1 .. Len(log)
  <2>1. /\ log[n].prev = IF n = 1 \/ ~log[n].read THEN NoEvent ELSE log[n - 1].key
        /\ \A m \in 1 .. n - 1 : log[m].key # log[n].key
    BY <1>1, <1>4 DEF Chained
  <2>2. a[n] = log[n] /\ \A m \in 1 .. n - 1 : m \in 1 .. Len(log) /\ a[m] = log[m]
    BY <1>1, <1>4
  <2>3. n # 1 => n - 1 \in 1 .. n - 1
    BY <1>1, <1>4
  <2>. QED BY <2>1, <2>2, <2>3
<1>5. CASE n = Len(log) + 1
  <2>1. a[n] = e /\ \A m \in 1 .. n - 1 : m \in DOMAIN log /\ a[m] = log[m]
    BY <1>1, <1>5
  <2>2. n # 1 => n - 1 \in 1 .. n - 1 /\ n - 1 = Len(log) /\ log # <<>>
    BY <1>1, <1>2, <1>5
  <2>3. n = 1 => log = <<>>
    BY <1>1, <1>2, <1>5
  <2>. QED BY <2>1, <2>2, <2>3
<1>. QED BY <1>1, <1>3, <1>4, <1>5

\* A version that is written is higher than all that were.
LEMMA WriteIsSound ==
    ASSUME NEW s \in Stores, VersionsGrow(s), OneClaim(s.done),
           NEW i \in Intents, NEW r, r = Req(i),
           r.op \in {"insert", "upsert", "delete"},
           VersionMatches(r, s.table[r.key]),
           NEW t \in Stores,
           t.done = Append(s.done, i),
           t.table = [s.table EXCEPT ![r.key] = NewVersion(r)]
    PROVE  VersionsGrow(t) /\ OneClaim(t.done)
<1>1. /\ Elements(t.done) = Elements(s.done) \cup {i}
      /\ Elements(s.done) \subseteq Intents
  BY StoreTypes, AppendFacts, EmptyFacts
<1>2. /\ r \in Requests /\ r.key \in Keys /\ r.claimed \in Nat
      /\ \A j \in Intents : Req(j).key \in Keys /\ Req(j).claimed \in Nat
  BY IntentTypes DEF Requests
<1>3. s.table \in [Keys -> {NoRow, Null} \cup Nat] /\ NoRow = -2 /\ Null = -1
  BY StoreTypes DEF NoRow, Null
<1>4. \A k : VersionedOnly(t.done, k) => /\ VersionedOnly(s.done, k)
                                         /\ Unversioned(i) => r.key # k
  BY <1>1 DEF VersionedOnly
<1>5. ~Unversioned(i) => Versioned(i) /\ r.claimed > 0 /\ r.op # "delete"
  BY <1>2 DEF Versioned, Unversioned
\* Nobody has claimed what i claims, or more.
<1>6. ASSUME NEW j \in Elements(s.done), Versioned(j), Req(j).key = r.key,
             VersionedOnly(t.done, r.key)
      PROVE  Req(j).claimed < r.claimed
  <2>1. VersionedOnly(s.done, r.key) /\ ~Unversioned(i)
    BY <1>4, <1>6
  <2>2. Req(j).claimed <= s.table[r.key]
    BY <1>6, <2>1 DEF VersionsGrow
  <2>3. Req(j).claimed > 0 /\ j \in Intents
    BY <1>1, <1>6 DEF Versioned
  <2>4. s.table[r.key] # NoRow /\ s.table[r.key] \in {NoRow, Null} \cup Nat
    BY <1>2, <1>3, <2>2, <2>3
  <2>5. s.table[r.key] = r.claimed - 1
    BY <1>5, <2>1, <2>4 DEF VersionMatches
  <2>. QED BY <1>2, <2>2, <2>3, <2>5
<1>7. VersionsGrow(t)
  <2>1. SUFFICES ASSUME NEW j \in Elements(t.done), Versioned(j),
                        VersionedOnly(t.done, Req(j).key)
                 PROVE  Req(j).claimed <= t.table[Req(j).key]
    BY DEF VersionsGrow
  <2>2. j \in Intents /\ (j = i \/ j \in Elements(s.done))
    BY <1>1, <2>1
  <2>3. CASE Req(j).key # r.key
    <3>1. j \in Elements(s.done) /\ VersionedOnly(s.done, Req(j).key)
      BY <1>4, <2>1, <2>2, <2>3
    <3>2. Req(j).claimed <= s.table[Req(j).key]
      BY <2>1, <3>1 DEF VersionsGrow
    <3>3. t.table[Req(j).key] = s.table[Req(j).key]
      BY <1>2, <1>3, <2>2, <2>3
    <3>. QED BY <3>2, <3>3
  <2>4. CASE Req(j).key = r.key
    <3>1. ~Unversioned(i)
      BY <1>4, <2>1, <2>4
    <3>2. t.table[r.key] = r.claimed
      BY <1>2, <1>3, <1>5, <3>1 DEF NewVersion
    <3>3. Req(j).claimed <= r.claimed
      BY <1>2, <1>6, <2>1, <2>2, <2>4
    <3>. QED BY <2>4, <3>2, <3>3
  <2>. QED BY <2>3, <2>4
<1>8. OneClaim(t.done)
  <2>1. SUFFICES ASSUME NEW j \in Elements(t.done), NEW k \in Elements(t.done),
                        Versioned(j), Versioned(k), Req(j).key = Req(k).key,
                        Req(j).claimed = Req(k).claimed,
                        VersionedOnly(t.done, Req(j).key)
                 PROVE  j = k
    BY DEF OneClaim
  <2>2. CASE j \in Elements(s.done) /\ k \in Elements(s.done)
    BY <1>4, <2>1, <2>2 DEF OneClaim
  <2>3. CASE j = i /\ k \in Elements(s.done)
    BY <1>1, <1>2, <1>6, <2>1, <2>3
  <2>4. CASE k = i /\ j \in Elements(s.done)
    BY <1>1, <1>2, <1>6, <2>1, <2>4
  <2>. QED BY <1>1, <2>2, <2>3, <2>4
<1>. QED BY <1>7, <1>8

\* A statement on another table touches no version.
LEMMA OtherIsSound ==
    ASSUME NEW s \in Stores, VersionsGrow(s), OneClaim(s.done),
           NEW i \in Intents, Req(i).op \in {"event", "decision"},
           NEW t \in Stores, t.done = Append(s.done, i), t.table = s.table
    PROVE  VersionsGrow(t) /\ OneClaim(t.done)
<1>1. Elements(t.done) = Elements(s.done) \cup {i}
  BY StoreTypes, AppendFacts
<1>2. ~Versioned(i) /\ ~Unversioned(i)
  BY DEF Versioned, Unversioned
<1>3. \A k : VersionedOnly(t.done, k) <=> VersionedOnly(s.done, k)
  BY <1>1, <1>2 DEF VersionedOnly
<1>4. VersionsGrow(t)
  BY <1>1, <1>2, <1>3 DEF VersionsGrow
<1>5. OneClaim(t.done)
  BY <1>1, <1>2, <1>3 DEF OneClaim
<1>. QED BY <1>4, <1>5

LEMMA NextStored == TypeOK /\ Stages /\ Stored /\ [Next]_vars => Stored'
<1>1. SUFFICES ASSUME TypeOK, Stages, Stored, [Next]_vars PROVE Stored'
  OBVIOUS
<1>2. CASE Execute
  <2>1. /\ tx.store \in Stores /\ tx'.store \in Stores /\ Current \in Intents
        /\ SoundStore(tx.store)
    BY <1>1, <1>2, ExecuteFacts DEF TypeOK, Stored
  <2>2. db' = db
    BY <1>2 DEF Execute
  <2>3. SoundStore(tx'.store)
    <3>1. CASE Skips
      BY <1>1, <2>1, <3>1 DEF Skips, TypeOK
    <3>2. CASE Writes
      <4>1. VersionsGrow(tx.store) /\ OneClaim(tx.store.done) /\ Chained(tx.store.log)
        BY <2>1 DEF SoundStore
      <4>2. /\ tx'.store.log = tx.store.log
            /\ tx'.store.done = Append(tx.store.done, Current)
            /\ tx'.store.table = [tx.store.table EXCEPT
                                    ![Req(Current).key] = NewVersion(Req(Current))]
            /\ Req(Current).op \in {"insert", "upsert", "delete"}
            /\ VersionMatches(Req(Current), tx.store.table[Req(Current).key])
        BY <3>2 DEF Writes
      <4>3. VersionsGrow(tx'.store) /\ OneClaim(tx'.store.done)
        BY <2>1, <4>1, <4>2, WriteIsSound
      <4>. QED BY <4>1, <4>2, <4>3 DEF SoundStore
    <3>3. CASE Decides
      BY <2>1, <3>3, OtherIsSound DEF SoundStore, Decides
    <3>4. CASE Logs
      <4>1. tx.store.log \in Seq(Events) /\ Req(Current).key \in Keys
        BY <2>1, StoreTypes, IntentTypes DEF Requests
      <4>2. PICK e \in NewEvents(Req(Current).key) : tx'.store.log = Append(tx.store.log, e)
        BY <3>4 DEF Logs
      <4>3. /\ e \in Events /\ e.key = Req(Current).key
            /\ e.prev = IF tx.store.log = <<>> \/ ~e.read THEN NoEvent
                        ELSE tx.store.log[Len(tx.store.log)].key
        BY <4>1, EventFacts
      <4>4. \A n \in DOMAIN tx.store.log : tx.store.log[n].key # e.key
        BY <3>4, <4>3 DEF Logs
      <4>5. Chained(tx'.store.log)
        BY <2>1, <4>1, <4>2, <4>3, <4>4, ChainGrows DEF SoundStore
      <4>. QED BY <2>1, <3>4, <4>5, OtherIsSound DEF SoundStore, Logs
    <3>. QED BY <1>1, <1>2, <3>1, <3>2, <3>3, <3>4, ExecuteFacts
  <2>. QED BY <1>1, <2>2, <2>3 DEF Stored
<1>3. CASE Begin
  BY <1>1, <1>3, BeginFacts DEF Stored
<1>4. CASE Fault \/ Reject
  BY <1>1, <1>4, FailFacts DEF Stored
<1>5. CASE Commit
  BY <1>1, <1>5, CommitFacts DEF Stored
<1>6. CASE /\ UNCHANGED <<db, tx>>
  BY <1>1, <1>6 DEF Stored
<1>7. ASSUME \/ \E c \in Callers : Submit(c)
             \/ Around \/ Polling \/ Verify \/ Recheck
             \/ UNCHANGED vars
      PROVE  UNCHANGED <<db, tx>>
  BY <1>7 DEF Submit, Enqueue, Around, LoseLease, Cancel, Close, Polling, TakePriority,
              NothingUrgent, TakeNormal, TakeNil, Tick, Done, WriterOnly, Verify, Recheck, vars
<1>. QED BY <1>1, <1>2, <1>3, <1>4, <1>5, <1>6, <1>7, NextCases DEF Flushing

LEMMA InitStored == Init => Stored
<1>1. SUFFICES ASSUME Init PROVE Stored
  OBVIOUS
<1>2. db.log = <<>> /\ db.done = <<>> /\ tx.store = db
  BY <1>1 DEF Init, EmptyStore
<1>3. DOMAIN db.log = {} /\ Elements(db.done) = {}
  BY <1>2 DEF Elements
<1>. QED BY <1>2, <1>3 DEF Stored, SoundStore, Chained, VersionsGrow, OneClaim

(***************************************************************************)
(* The way of an intent.                                                   *)
(***************************************************************************)

\* One of the channels has accepted i, and after it, or at the same time, j.
NotLater(acc, i, j) ==
    \E s \in {acc.ch, acc.prio} :
        \E p, q \in DOMAIN s : p <= q /\ s[p] = i /\ s[q] = j

\* A sequence keeps the order of the channels, and has nothing twice.
InOrder(acc, s) == \A m, n \in DOMAIN s : NotLater(acc, s[m], s[n]) => m <= n

\* Nothing of X was accepted after or is also something of Y.
Ahead(acc, X, Y) == \A x \in X, y \in Y : ~NotLater(acc, y, x)

OnChannels(acc) == Elements(acc.ch) \cup Elements(acc.prio)

Queued  == Elements(ch) \cup Elements(prio)
Batched == Elements(writer.batch) \ {Nil}
InFlush == Elements(writer.todo) \cup Elements(writer.valid)
Written == Elements(db.done)

Channels ==
    /\ \A i \in Elements(accepted.ch) : ~Req(i).flush
    /\ \A i \in Elements(accepted.prio) : Req(i).flush
    /\ \A i \in OnChannels(accepted) : Accepted(i)
    /\ Elements(ch) \subseteq Elements(accepted.ch)
    /\ Elements(prio) \subseteq Elements(accepted.prio)
    /\ InOrder(accepted, ch) /\ InOrder(accepted, prio)
    /\ InOrder(accepted, accepted.ch) /\ InOrder(accepted, accepted.prio)

\* An intent that is on its way has no answer, nor has one that is not sent.
Open ==
    /\ Batched \cup InFlush \cup Written \subseteq OnChannels(accepted)
    /\ \A i \in Queued \cup Batched \cup InFlush : told[i] = "none"
    /\ \A i \in Intents \ OnChannels(accepted) : told[i] = "none"

Overtaken ==
    /\ InOrder(accepted, writer.batch)
    /\ InOrder(accepted, writer.todo)
    /\ InOrder(accepted, writer.valid)
    /\ InOrder(accepted, db.done)
    /\ Ahead(accepted, Written, InFlush \cup Batched \cup Queued)
    /\ Ahead(accepted, InFlush \cup Batched, Queued)
    /\ writer.pc = "verify" => Ahead(accepted, Elements(writer.valid), Elements(writer.todo))
    /\ writer.pc = "recheck" =>
           Ahead(accepted, Elements(writer.valid), Elements(Tail(writer.todo)))

\* What the open transaction has done: the batch up to here, but for the stale.
Transaction ==
    writer.pc = "execute" =>
        /\ Elements(writer.todo) \subseteq Elements(writer.valid)
        /\ tx.stale \subseteq Elements(writer.valid) \ Elements(writer.todo)
        /\ Elements(tx.store.done) =
               Written \cup (Elements(writer.valid) \ (Elements(writer.todo) \cup tx.stale))
        /\ InOrder(accepted, tx.store.done)
        /\ Ahead(accepted, Elements(tx.store.done), Elements(writer.todo))

Typed == TypeOK /\ Stages

Way == Channels /\ Open /\ Overtaken /\ Transaction /\ AnswersTrue

LEMMA SetTypes ==
    ASSUME TypeOK
    PROVE  /\ Queued \subseteq Intents /\ Batched \subseteq Intents /\ InFlush \subseteq Intents
           /\ Written \subseteq Intents /\ OnChannels(accepted) \subseteq Intents
           /\ Nil \notin OnChannels(accepted)
           /\ Elements(tx.store.done) \subseteq Intents
<1>1. /\ ch \in Seq(Intents) /\ prio \in Seq(Intents)
      /\ accepted.ch \in Seq(Intents) /\ accepted.prio \in Seq(Intents)
      /\ writer.batch \in Seq(Intents \cup {Nil})
      /\ writer.todo \in Seq(Intents) /\ writer.valid \in Seq(Intents)
      /\ db \in Stores /\ tx.store \in Stores
  BY DEF TypeOK, Writers
<1>2. db.done \in Seq(Intents) /\ tx.store.done \in Seq(Intents)
  BY <1>1, StoreTypes
<1>3. /\ \A s \in Seq(Intents) : Elements(s) \subseteq Intents
      /\ \A s \in Seq(Intents \cup {Nil}) : Elements(s) \subseteq Intents \cup {Nil}
  BY EmptyFacts
<1>. QED BY <1>1, <1>2, <1>3, NilAssumption DEF Queued, Batched, InFlush, Written, OnChannels

LEMMA Reflexive ==
    ASSUME NEW acc \in [ch : Seq(Intents), prio : Seq(Intents)], NEW i \in OnChannels(acc)
    PROVE  NotLater(acc, i, i)
<1>1. PICK s \in {acc.ch, acc.prio} : i \in Elements(s)
  BY DEF OnChannels
<1>2. PICK p \in DOMAIN s : s[p] = i
  BY <1>1 DEF Elements
<1>3. s \in Seq(Intents) /\ DOMAIN s = 1 .. Len(s) /\ Len(s) \in Nat
  BY <1>1
<1>. QED BY <1>1, <1>2, <1>3 DEF NotLater

LEMMA Related ==
    ASSUME NEW acc \in [ch : Seq(Intents), prio : Seq(Intents)], NEW i, NEW j, NotLater(acc, i, j)
    PROVE  /\ i \in OnChannels(acc) /\ j \in OnChannels(acc)
           /\ \/ i \in Elements(acc.ch) /\ j \in Elements(acc.ch)
              \/ i \in Elements(acc.prio) /\ j \in Elements(acc.prio)
  BY DEF NotLater, OnChannels, Elements

LEMMA InOrderAppend ==
    ASSUME NEW acc, NEW S, NEW s \in Seq(S), NEW x \in S, InOrder(acc, s),
           \A y \in Elements(s) : ~NotLater(acc, x, y)
    PROVE  InOrder(acc, Append(s, x))
<1> DEFINE a == Append(s, x)
<1>1. /\ DOMAIN a = 1 .. Len(s) + 1 /\ DOMAIN s = 1 .. Len(s) /\ Len(s) \in Nat
      /\ a[Len(s) + 1] = x
      /\ \A n \in 1 .. Len(s) : a[n] = s[n]
  BY AppendFacts
<1>2. \A n \in 1 .. Len(s) : s[n] \in Elements(s)
  BY <1>1 DEF Elements
<1> HIDE DEF a
<1>3. SUFFICES ASSUME NEW m \in DOMAIN a, NEW n \in DOMAIN a, NotLater(acc, a[m], a[n])
               PROVE  m <= n
  BY DEF InOrder, a
<1>4. CASE n = Len(s) + 1
  BY <1>1, <1>4
<1>5. CASE m = Len(s) + 1 /\ n \in 1 .. Len(s)
  BY <1>1, <1>2, <1>3, <1>5
<1>6. CASE m \in 1 .. Len(s) /\ n \in 1 .. Len(s)
  BY <1>1, <1>3, <1>6 DEF InOrder
<1>. QED BY <1>1, <1>4, <1>5, <1>6

LEMMA InOrderTail ==
    ASSUME NEW acc, NEW S, NEW s \in Seq(S), s # <<>>, InOrder(acc, s)
    PROVE  /\ InOrder(acc, Tail(s))
           /\ Ahead(acc, {Head(s)}, Elements(Tail(s)))
<1> DEFINE t == Tail(s)
<1>1. /\ Head(s) = s[1] /\ 1 \in DOMAIN s /\ Len(s) \in Nat \ {0}
      /\ DOMAIN s = 1 .. Len(s) /\ DOMAIN t = 1 .. Len(s) - 1
      /\ \A n \in 1 .. Len(s) - 1 : t[n] = s[n + 1]
  BY TailFacts
<1> HIDE DEF t
<1>2. \A n \in DOMAIN t : n \in Nat /\ n >= 1 /\ n + 1 \in DOMAIN s /\ t[n] = s[n + 1]
  BY <1>1
<1>3. InOrder(acc, t)
  <2>1. SUFFICES ASSUME NEW m \in DOMAIN t, NEW n \in DOMAIN t, NotLater(acc, t[m], t[n])
                 PROVE  m <= n
    BY DEF InOrder
  <2>2. m + 1 <= n + 1
    BY <1>2, <2>1 DEF InOrder
  <2>. QED BY <1>2, <2>2
<1>4. ASSUME NEW y \in Elements(t), NotLater(acc, y, Head(s)) PROVE FALSE
  <2>1. PICK n \in DOMAIN t : y = t[n]
    BY DEF Elements
  <2>2. n + 1 <= 1
    BY <1>1, <1>2, <1>4, <2>1 DEF InOrder
  <2>. QED BY <1>2, <2>2
<1>. QED BY <1>3, <1>4 DEF Ahead, t

LEMMA InOrderEmpty == \A acc : InOrder(acc, <<>>)
  BY DEF InOrder

\* The head of a sequence in order is not also further down.
LEMMA HeadOnce ==
    ASSUME NEW acc \in [ch : Seq(Intents), prio : Seq(Intents)],
           NEW s \in Seq(Intents), s # <<>>, InOrder(acc, s), Head(s) \in OnChannels(acc)
    PROVE  Head(s) \notin Elements(Tail(s))
<1>1. NotLater(acc, Head(s), Head(s))
  BY Reflexive
<1>2. Ahead(acc, {Head(s)}, Elements(Tail(s)))
  BY InOrderTail
<1>. QED BY <1>1, <1>2 DEF Ahead

(***************************************************************************)
(* Submitting.                                                             *)
(***************************************************************************)

\* An intent that is new on a channel comes before none that was there.
LEMMA LaneGrows ==
    ASSUME NEW s \in Seq(Intents), NEW i \in Intents, i \notin Elements(s),
           NEW x, NEW y, y # i,
           \E p, q \in DOMAIN Append(s, i) :
               p <= q /\ Append(s, i)[p] = x /\ Append(s, i)[q] = y
    PROVE  \E p, q \in DOMAIN s : p <= q /\ s[p] = x /\ s[q] = y
<1> DEFINE a == Append(s, i)
<1>1. /\ DOMAIN a = 1 .. Len(s) + 1 /\ DOMAIN s = 1 .. Len(s) /\ Len(s) \in Nat
      /\ a[Len(s) + 1] = i
      /\ \A n \in 1 .. Len(s) : a[n] = s[n]
  BY AppendFacts
<1>2. PICK p \in DOMAIN a, q \in DOMAIN a : p <= q /\ a[p] = x /\ a[q] = y
  OBVIOUS
<1> HIDE DEF a
<1>3. q \in 1 .. Len(s) /\ p \in 1 .. Len(s)
  BY <1>1, <1>2
<1>. QED BY <1>1, <1>2, <1>3

LEMMA ChannelGrows ==
    ASSUME TypeOK, Channels, NEW c \in Callers, Submit(c)
    PROVE  LET i == NextIntent(c)
           IN  /\ i \in Intents /\ i \notin OnChannels(accepted)
               /\ OnChannels(accepted') = OnChannels(accepted) \cup {i}
               /\ \A x, y : y # i /\ NotLater(accepted', x, y) => NotLater(accepted, x, y)
               /\ Channels'
               /\ Elements(ch') \cup Elements(prio') = Queued \cup {i}
<1> DEFINE i == NextIntent(c)
<1>1. /\ i \in Intents /\ sent[c] \in Nat /\ i[1] = c /\ i[2] = sent[c] + 1
      /\ accepted \in [ch : Seq(Intents), prio : Seq(Intents)]
      /\ accepted.ch \in Seq(Intents) /\ accepted.prio \in Seq(Intents)
      /\ ch \in Seq(Intents) /\ prio \in Seq(Intents)
      /\ sent' = [sent EXCEPT ![c] = @ + 1] /\ sent \in [Callers -> Nat]
  BY SubmitTypes DEF NextIntent, TypeOK, Submit, Enqueue
<1>2. i \notin OnChannels(accepted)
  <2>1. i \in OnChannels(accepted) => sent[c] + 1 <= sent[c]
    BY <1>1 DEF Channels, Accepted
  <2>. QED BY <1>1, <2>1
<1>3. \A j \in OnChannels(accepted) \cup {i} : Accepted(j)'
  <2>1. \A j \in Intents : j[1] \in Callers /\ j[2] \in Nat
    BY IntentTypes
  <2>2. OnChannels(accepted) \subseteq Intents
    BY SetTypes
  <2>3. \A j \in OnChannels(accepted) : Accepted(j)
    BY DEF Channels
  <2>. QED BY <1>1, <2>1, <2>2, <2>3 DEF Accepted
<1> HIDE DEF i
<1>4. ASSUME NEW s \in Seq(Intents), Elements(s) \subseteq OnChannels(accepted),
             InOrder(accepted, s),
             \A x, y : y # i /\ NotLater(accepted', x, y) => NotLater(accepted, x, y)
      PROVE  InOrder(accepted', s) /\ InOrder(accepted', Append(s, i))
  <2>1. \A n \in DOMAIN s : s[n] # i
    BY <1>2, <1>4 DEF Elements
  <2>2. InOrder(accepted', s)
    BY <1>4, <2>1 DEF InOrder
  <2>3. \A y \in Elements(s) : ~NotLater(accepted', i, y)
    BY <1>1, <1>2, <1>4, Related
  <2>. QED BY <1>1, <2>2, <2>3, InOrderAppend
<1>5. CASE Req(i).flush
  <2>1. /\ prio' = Append(prio, i) /\ ch' = ch
        /\ accepted' = [accepted EXCEPT !.prio = Append(@, i)]
    BY <1>5 DEF Submit, Enqueue, i
  <2>2. accepted'.ch = accepted.ch /\ accepted'.prio = Append(accepted.prio, i)
    BY <1>1, <2>1
  <2>3. /\ Elements(accepted'.prio) = Elements(accepted.prio) \cup {i}
        /\ Elements(prio') = Elements(prio) \cup {i}
    BY <1>1, <2>1, <2>2, AppendFacts
  <2>4. OnChannels(accepted') = OnChannels(accepted) \cup {i}
    BY <2>2, <2>3 DEF OnChannels
  <2>5. ASSUME NEW x, NEW y, y # i, NotLater(accepted', x, y)
        PROVE  NotLater(accepted, x, y)
    <3>1. CASE \E p, q \in DOMAIN accepted.ch : p <= q /\ accepted.ch[p] = x /\ accepted.ch[q] = y
      BY <3>1 DEF NotLater
    <3>2. CASE \E p, q \in DOMAIN Append(accepted.prio, i) :
                   p <= q /\ Append(accepted.prio, i)[p] = x /\ Append(accepted.prio, i)[q] = y
      <4>1. i \notin Elements(accepted.prio)
        BY <1>2 DEF OnChannels
      <4>2. \E p, q \in DOMAIN accepted.prio :
                p <= q /\ accepted.prio[p] = x /\ accepted.prio[q] = y
        BY <1>1, <2>5, <3>2, <4>1, LaneGrows
      <4>. QED BY <4>2 DEF NotLater
    <3>. QED BY <2>2, <2>5, <3>1, <3>2 DEF NotLater
  <2>6. /\ InOrder(accepted', ch') /\ InOrder(accepted', prio')
        /\ InOrder(accepted', accepted'.ch) /\ InOrder(accepted', accepted'.prio)
    BY <1>1, <1>4, <2>1, <2>2, <2>5 DEF Channels, OnChannels
  <2>7. Channels'
    BY <1>3, <1>5, <2>1, <2>2, <2>3, <2>4, <2>6 DEF Channels
  <2>. QED BY <1>1, <1>2, <2>1, <2>3, <2>4, <2>5, <2>7 DEF Queued, i
<1>6. CASE ~Req(i).flush
  <2>1. /\ ch' = Append(ch, i) /\ prio' = prio
        /\ accepted' = [accepted EXCEPT !.ch = Append(@, i)]
    BY <1>6 DEF Submit, Enqueue, i
  <2>2. accepted'.prio = accepted.prio /\ accepted'.ch = Append(accepted.ch, i)
    BY <1>1, <2>1
  <2>3. /\ Elements(accepted'.ch) = Elements(accepted.ch) \cup {i}
        /\ Elements(ch') = Elements(ch) \cup {i}
    BY <1>1, <2>1, <2>2, AppendFacts
  <2>4. OnChannels(accepted') = OnChannels(accepted) \cup {i}
    BY <2>2, <2>3 DEF OnChannels
  <2>5. ASSUME NEW x, NEW y, y # i, NotLater(accepted', x, y)
        PROVE  NotLater(accepted, x, y)
    <3>1. CASE \E p, q \in DOMAIN accepted.prio :
                   p <= q /\ accepted.prio[p] = x /\ accepted.prio[q] = y
      BY <3>1 DEF NotLater
    <3>2. CASE \E p, q \in DOMAIN Append(accepted.ch, i) :
                   p <= q /\ Append(accepted.ch, i)[p] = x /\ Append(accepted.ch, i)[q] = y
      <4>1. i \notin Elements(accepted.ch)
        BY <1>2 DEF OnChannels
      <4>2. \E p, q \in DOMAIN accepted.ch :
                p <= q /\ accepted.ch[p] = x /\ accepted.ch[q] = y
        BY <1>1, <2>5, <3>2, <4>1, LaneGrows
      <4>. QED BY <4>2 DEF NotLater
    <3>. QED BY <2>2, <2>5, <3>1, <3>2 DEF NotLater
  <2>6. /\ InOrder(accepted', ch') /\ InOrder(accepted', prio')
        /\ InOrder(accepted', accepted'.ch) /\ InOrder(accepted', accepted'.prio)
    BY <1>1, <1>4, <2>1, <2>2, <2>5 DEF Channels, OnChannels
  <2>7. Channels'
    BY <1>3, <1>6, <2>1, <2>2, <2>3, <2>4, <2>6 DEF Channels
  <2>. QED BY <1>1, <1>2, <2>1, <2>3, <2>4, <2>5, <2>7 DEF Queued, i
<1>. QED BY <1>5, <1>6

LEMMA SubmitWay ==
    ASSUME Typed, Way, NEW c \in Callers, Submit(c)
    PROVE  Way'
<1> DEFINE i == NextIntent(c)
<1>1. /\ i \in Intents /\ i \notin OnChannels(accepted)
      /\ OnChannels(accepted') = OnChannels(accepted) \cup {i}
      /\ \A x, y : y # i /\ NotLater(accepted', x, y) => NotLater(accepted, x, y)
      /\ Channels'
      /\ Queued' = Queued \cup {i}
      /\ accepted \in [ch : Seq(Intents), prio : Seq(Intents)]
  BY ChannelGrows DEF Typed, Way, Queued, TypeOK
<1>2. /\ UNCHANGED <<writer, tx, db, told>>
      /\ Batched' = Batched /\ InFlush' = InFlush /\ Written' = Written
  BY DEF Submit, Enqueue, Batched, InFlush, Written
<1>3. /\ TypeOK /\ Channels /\ Open /\ Overtaken /\ Transaction /\ AnswersTrue
  BY DEF Typed, Way
<1>4. /\ Batched \cup InFlush \cup Written \subseteq OnChannels(accepted)
      /\ Nil \notin OnChannels(accepted)
  BY <1>3, SetTypes DEF Open
<1> HIDE DEF i
<1>5. ASSUME NEW s, Elements(s) \subseteq OnChannels(accepted) \cup {Nil},
             InOrder(accepted, s)
      PROVE  InOrder(accepted', s)
  <2>1. \A n \in DOMAIN s : s[n] # i
    BY <1>1, <1>5, NilAssumption DEF Elements
  <2>. QED BY <1>1, <1>5, <2>1 DEF InOrder
<1>6. ASSUME NEW X, NEW Y, X \subseteq OnChannels(accepted), Ahead(accepted, X, Y)
      PROVE  Ahead(accepted', X, Y \cup {i})
  <2>1. SUFFICES ASSUME NEW x \in X, NEW y \in Y \cup {i}, NotLater(accepted', y, x)
                 PROVE  FALSE
    BY DEF Ahead
  <2>2. x # i /\ NotLater(accepted, y, x)
    BY <1>1, <1>6, <2>1
  <2>3. y \in OnChannels(accepted)
    BY <1>1, <2>2, Related
  <2>. QED BY <1>1, <1>6, <2>1, <2>2, <2>3 DEF Ahead
<1>7. ASSUME NEW X, NEW Y, X \subseteq OnChannels(accepted), Ahead(accepted, X, Y)
      PROVE  Ahead(accepted', X, Y)
  BY <1>6, <1>7 DEF Ahead
<1>8. Open'
  BY <1>1, <1>2, <1>3 DEF Open
<1>9. Overtaken'
  <2>1. /\ InOrder(accepted', writer.batch) /\ InOrder(accepted', writer.todo)
        /\ InOrder(accepted', writer.valid) /\ InOrder(accepted', db.done)
    BY <1>3, <1>4, <1>5 DEF Overtaken, Batched, InFlush, Written
  <2>2. Ahead(accepted', Written, (InFlush \cup Batched \cup Queued) \cup {i})
    BY <1>3, <1>4, <1>6 DEF Overtaken
  <2>3. Ahead(accepted', InFlush \cup Batched, Queued \cup {i})
    BY <1>3, <1>4, <1>6 DEF Overtaken
  <2>4. writer.pc = "verify" => Ahead(accepted', Elements(writer.valid), Elements(writer.todo))
    BY <1>3, <1>4, <1>7 DEF Overtaken, InFlush
  <2>5. writer.pc = "recheck" =>
            Ahead(accepted', Elements(writer.valid), Elements(Tail(writer.todo)))
    BY <1>3, <1>4, <1>7 DEF Overtaken, InFlush
  <2>6. InFlush \cup Batched \cup (Queued \cup {i}) = (InFlush \cup Batched \cup Queued) \cup {i}
    OBVIOUS
  <2>. QED BY <1>1, <1>2, <2>1, <2>2, <2>3, <2>4, <2>5, <2>6 DEF Overtaken
<1>10. Transaction'
  <2>1. SUFFICES ASSUME writer.pc = "execute" PROVE Transaction'
    BY <1>2 DEF Transaction
  <2>2. Elements(tx.store.done) \subseteq OnChannels(accepted)
    BY <1>3, <1>4, <2>1 DEF Transaction, InFlush
  <2>3. InOrder(accepted', tx.store.done)
    BY <1>3, <1>5, <2>1, <2>2 DEF Transaction
  <2>4. Ahead(accepted', Elements(tx.store.done), Elements(writer.todo))
    BY <1>3, <1>7, <2>1, <2>2 DEF Transaction
  <2>. QED BY <1>2, <1>3, <2>1, <2>3, <2>4 DEF Transaction
<1>11. AnswersTrue'
  BY <1>2, <1>3 DEF AnswersTrue
<1>. QED BY <1>1, <1>8, <1>9, <1>10, <1>11 DEF Way

(***************************************************************************)
(* Taking from the channels.                                               *)
(***************************************************************************)

\* Intents go from the channels to the batch, and the batch as a whole to the flush.
LEMMA Moves ==
    ASSUME Typed, Way,
           UNCHANGED <<sent, accepted, tx, db, told>>,
           Queued' \subseteq Queued, Elements(ch') \subseteq Elements(ch),
           Elements(prio') \subseteq Elements(prio),
           InOrder(accepted, ch'), InOrder(accepted, prio'),
           Batched' \cup InFlush' \subseteq Batched \cup Queued,
           Ahead(accepted, Batched' \cup InFlush', Queued'),
           InOrder(accepted, writer'.batch), InOrder(accepted, writer'.todo),
           writer'.valid = <<>>, writer'.pc \notin {"recheck", "execute"}
    PROVE  Way'
<1>1. /\ TypeOK /\ Channels /\ Open /\ Overtaken /\ AnswersTrue
      /\ accepted' = accepted /\ Written' = Written
  BY DEF Typed, Way, Written
<1>2. Channels'
  BY <1>1 DEF Channels, Accepted
<1>3. Queued \subseteq OnChannels(accepted)
  BY <1>1 DEF Channels, Queued, OnChannels
<1>4. Open'
  BY <1>1, <1>3 DEF Open
<1>5. /\ InOrder(accepted, writer'.valid)
      /\ Ahead(accepted, Elements(writer'.valid), Elements(writer'.todo))
  BY InOrderEmpty, EmptyFacts DEF Ahead
<1>6. Ahead(accepted, Written, InFlush' \cup Batched' \cup Queued')
  BY <1>1 DEF Overtaken, Ahead
<1>7. Overtaken'
  BY <1>1, <1>5, <1>6 DEF Overtaken, Ahead
<1>8. AnswersTrue'
  BY <1>1 DEF AnswersTrue
<1>. QED BY <1>2, <1>4, <1>7, <1>8 DEF Way, Transaction

\* An intent at the head of a channel can be put at the end of the batch.
LEMMA TakenInOrder ==
    ASSUME Typed, Way, NEW i \in Intents \cup {Nil},
           i \in Queued \cup {Nil},
           writer.todo = <<>>, writer.valid = <<>>, Collect(i)
    PROVE  /\ Batched' \cup InFlush' \subseteq Batched \cup ({i} \ {Nil})
           /\ InOrder(accepted, writer'.batch) /\ InOrder(accepted, writer'.todo)
           /\ writer'.valid = <<>> /\ writer'.pc \notin {"recheck", "execute"}
<1> DEFINE a == Append(writer.batch, i)
<1>1. /\ TypeOK /\ Overtaken /\ writer.batch \in Seq(Intents \cup {Nil})
      /\ accepted \in [ch : Seq(Intents), prio : Seq(Intents)]
  BY DEF Typed, Way, TypeOK, Writers
<1>2. Elements(a) = Elements(writer.batch) \cup {i}
  BY <1>1, AppendFacts
<1>3. InOrder(accepted, a)
  <2>1. \A y \in Elements(writer.batch) : ~NotLater(accepted, i, y)
    <3>1. SUFFICES ASSUME NEW y \in Elements(writer.batch), NotLater(accepted, i, y) PROVE FALSE
      OBVIOUS
    <3>2. i \in OnChannels(accepted) /\ y \in OnChannels(accepted)
      BY <1>1, <3>1, Related
    <3>3. i \in Queued /\ y \in Batched
      BY <1>1, <3>2, SetTypes DEF Batched
    <3>. QED BY <1>1, <3>1, <3>3 DEF Overtaken, Ahead
  <2>. QED BY <1>1, <2>1, InOrderAppend DEF Overtaken
<1> HIDE DEF a
<1>4. /\ writer'.valid = <<>>
      /\ \/ /\ writer'.pc = "poll" /\ writer'.batch = a
            /\ writer'.todo = <<>>
         \/ /\ writer'.pc \in {"poll", "stopped", "panicked"}
            /\ writer'.batch = <<>> /\ writer'.todo = <<>>
         \/ /\ writer'.pc = "verify" /\ writer'.batch = <<>>
            /\ Nil \notin Elements(a) /\ writer'.todo = a
  BY <1>1, CollectFacts DEF a
<1>. QED BY <1>2, <1>3, <1>4, InOrderEmpty, EmptyFacts DEF Batched, InFlush

LEMMA PollingWay ==
    ASSUME Typed, Way, Polling
    PROVE  Way'
<1>1. /\ TypeOK /\ Stages /\ Channels /\ Overtaken
      /\ accepted \in [ch : Seq(Intents), prio : Seq(Intents)]
      /\ ch \in Seq(Intents) /\ prio \in Seq(Intents)
      /\ writer \in Writers
  BY DEF Typed, Way, TypeOK
<1>2. /\ writer.todo = <<>> /\ writer.valid = <<>> /\ writer.pc \in {"poll", "wait"}
      /\ UNCHANGED <<sent, accepted, tx, db, told>>
  BY <1>1 DEF Polling, TakePriority, NothingUrgent, TakeNormal, TakeNil, Tick, Done, Stages,
              WriterOnly
<1>3. /\ InOrder(accepted, ch) /\ InOrder(accepted, prio)
      /\ InOrder(accepted, writer.batch)
      /\ Ahead(accepted, Batched, Queued)
  BY <1>1 DEF Channels, Overtaken, Ahead
\* The two channels have no order between them.
<1>4. \A x \in Elements(ch), y \in Elements(prio) :
          ~NotLater(accepted, x, y) /\ ~NotLater(accepted, y, x)
  BY <1>1, Related DEF Channels
<1>5. CASE TakePriority
  <2> DEFINE i == Head(prio)
  <2>1. /\ prio # <<>> /\ prio' = Tail(prio) /\ ch' = ch /\ Collect(i)
    BY <1>5 DEF TakePriority
  <2>2. /\ i \in Intents /\ Elements(prio) = {i} \cup Elements(prio')
        /\ InOrder(accepted, prio') /\ Ahead(accepted, {i}, Elements(prio'))
    BY <1>1, <1>3, <2>1, TailFacts, InOrderTail
  <2> HIDE DEF i
  <2>3. i \in Queued /\ Queued' = Elements(ch) \cup Elements(prio') /\ Queued' \subseteq Queued
    BY <2>1, <2>2 DEF Queued
  <2>4. /\ Batched' \cup InFlush' \subseteq Batched \cup {i}
        /\ InOrder(accepted, writer'.batch) /\ InOrder(accepted, writer'.todo)
        /\ writer'.valid = <<>> /\ writer'.pc \notin {"recheck", "execute"}
    BY <1>2, <2>1, <2>2, <2>3, TakenInOrder
  <2>5. Ahead(accepted, Batched' \cup InFlush', Queued')
    BY <1>3, <1>4, <2>2, <2>3, <2>4 DEF Ahead
  <2>. QED BY <1>2, <1>3, <2>1, <2>2, <2>3, <2>4, <2>5, Moves
<1>6. CASE TakeNormal
  <2> DEFINE i == Head(ch)
  <2>1. /\ ch # <<>> /\ ch' = Tail(ch) /\ prio' = prio /\ Collect(i)
    BY <1>6 DEF TakeNormal
  <2>2. /\ i \in Intents /\ Elements(ch) = {i} \cup Elements(ch')
        /\ InOrder(accepted, ch') /\ Ahead(accepted, {i}, Elements(ch'))
    BY <1>1, <1>3, <2>1, TailFacts, InOrderTail
  <2> HIDE DEF i
  <2>3. i \in Queued /\ Queued' = Elements(ch') \cup Elements(prio) /\ Queued' \subseteq Queued
    BY <2>1, <2>2 DEF Queued
  <2>4. /\ Batched' \cup InFlush' \subseteq Batched \cup {i}
        /\ InOrder(accepted, writer'.batch) /\ InOrder(accepted, writer'.todo)
        /\ writer'.valid = <<>> /\ writer'.pc \notin {"recheck", "execute"}
    BY <1>2, <2>1, <2>2, <2>3, TakenInOrder
  <2>5. Ahead(accepted, Batched' \cup InFlush', Queued')
    BY <1>3, <1>4, <2>2, <2>3, <2>4 DEF Ahead
  <2>. QED BY <1>2, <1>3, <2>1, <2>2, <2>3, <2>4, <2>5, Moves
<1>7. CASE TakeNil
  <2>1. ch' = ch /\ prio' = prio /\ Collect(Nil)
    BY <1>7 DEF TakeNil
  <2>2. Queued' = Queued
    BY <2>1 DEF Queued
  <2>3. /\ Batched' \cup InFlush' \subseteq Batched
        /\ InOrder(accepted, writer'.batch) /\ InOrder(accepted, writer'.todo)
        /\ writer'.valid = <<>> /\ writer'.pc \notin {"recheck", "execute"}
    BY <1>2, <2>1, TakenInOrder
  <2>4. Ahead(accepted, Batched' \cup InFlush', Queued')
    BY <1>3, <2>2, <2>3 DEF Ahead
  <2>. QED BY <1>2, <1>3, <2>1, <2>2, <2>3, <2>4, Moves
<1>8. CASE Tick \/ Done \/ NothingUrgent
  <2>1. ch' = ch /\ prio' = prio
    BY <1>8 DEF Tick, Done, NothingUrgent
  <2>2. Queued' = Queued
    BY <2>1 DEF Queued
  <2>3. /\ writer'.valid = <<>> /\ writer'.pc \notin {"recheck", "execute"}
        /\ \/ writer'.batch = <<>> /\ writer'.todo = <<>>
           \/ writer'.batch = writer.batch /\ writer'.todo = <<>>
           \/ /\ writer'.batch = <<>> /\ writer'.todo = writer.batch
              /\ Nil \notin Elements(writer.batch)
    <3>1. CASE Tick \/ Done
      BY <1>1, <1>2, <3>1, FlushFacts DEF Tick, Done
    <3>2. CASE NothingUrgent
      BY <1>1, <1>2, <3>2 DEF NothingUrgent, Writers
    <3>. QED BY <1>8, <3>1, <3>2
  <2>4. /\ Batched' \cup InFlush' \subseteq Batched
        /\ InOrder(accepted, writer'.batch) /\ InOrder(accepted, writer'.todo)
    BY <1>3, <2>3, InOrderEmpty, EmptyFacts DEF Batched, InFlush
  <2>5. Ahead(accepted, Batched' \cup InFlush', Queued')
    BY <1>3, <2>2, <2>4 DEF Ahead
  <2>. QED BY <1>2, <1>3, <2>1, <2>2, <2>3, <2>4, <2>5, Moves
<1>. QED BY <1>5, <1>6, <1>7, <1>8 DEF Polling

(***************************************************************************)
(* The flush.                                                              *)
(***************************************************************************)

\* What is on its way in the flush is neither in a channel nor in the database.
LEMMA Apart ==
    ASSUME Typed, Way
    PROVE  InFlush \cap Queued = {} /\ InFlush \cap Written = {}
<1>1. /\ accepted \in [ch : Seq(Intents), prio : Seq(Intents)]
      /\ InFlush \cup Written \subseteq OnChannels(accepted)
      /\ Ahead(accepted, Written, InFlush) /\ Ahead(accepted, InFlush, Queued)
  BY DEF Typed, Way, TypeOK, Open, Overtaken, Ahead
<1>. QED BY <1>1, Reflexive DEF Ahead

\* Some intents leave the flush with an answer that is not "ok", or none does.
LEMMA Settles ==
    ASSUME Typed, Way, UNCHANGED <<sent, accepted, ch, prio, db>>,
           writer'.batch = <<>>, InFlush' \subseteq InFlush,
           InOrder(accepted, writer'.todo), InOrder(accepted, writer'.valid),
           writer'.pc = "verify" =>
               Ahead(accepted, Elements(writer'.valid), Elements(writer'.todo)),
           writer'.pc = "recheck" =>
               Ahead(accepted, Elements(writer'.valid), Elements(Tail(writer'.todo))),
           Transaction',
           NEW D \in SUBSET InFlush, D \cap InFlush' = {},
           \A i \in Intents : /\ i \notin D => told'[i] = told[i]
                              /\ i \in D => told'[i] \in {"stale", "failed"}
    PROVE  Way'
<1>1. /\ TypeOK /\ Channels /\ Open /\ Overtaken /\ AnswersTrue
      /\ Written' = Written /\ Queued' = Queued /\ Batched' = {}
      /\ InFlush \subseteq Intents /\ Queued \subseteq Intents
  BY SetTypes, EmptyFacts DEF Typed, Way, Written, Queued, Batched
<1>2. Channels'
  BY <1>1 DEF Channels, Accepted
<1>3. D \cap Queued = {} /\ D \cap Written = {}
  BY Apart
<1>4. Open'
  BY <1>1, <1>3 DEF Open
<1>5. /\ Ahead(accepted, Written, InFlush' \cup Queued)
      /\ Ahead(accepted, InFlush', Queued)
  BY <1>1 DEF Overtaken, Ahead
<1>6. Overtaken'
  BY <1>1, <1>5, InOrderEmpty DEF Overtaken
<1>7. AnswersTrue'
  BY <1>1, <1>3 DEF AnswersTrue, Written
<1>. QED BY <1>2, <1>4, <1>6, <1>7 DEF Way

\* ... none does.
LEMMA GoesOn ==
    ASSUME Typed, Way, UNCHANGED <<sent, accepted, ch, prio, db, told>>,
           writer'.batch = <<>>, InFlush' \subseteq InFlush,
           InOrder(accepted, writer'.todo), InOrder(accepted, writer'.valid),
           writer'.pc = "verify" =>
               Ahead(accepted, Elements(writer'.valid), Elements(writer'.todo)),
           writer'.pc = "recheck" =>
               Ahead(accepted, Elements(writer'.valid), Elements(Tail(writer'.todo))),
           Transaction'
    PROVE  Way'
<1> DEFINE D == {}
<1>1. D \in SUBSET InFlush /\ D \cap InFlush' = {}
  OBVIOUS
<1>2. \A i \in Intents : /\ i \notin D => told'[i] = told[i]
                         /\ i \in D => told'[i] \in {"stale", "failed"}
  OBVIOUS
<1> HIDE DEF D
<1>. QED BY <1>1, <1>2, Settles

LEMMA VerifyWay ==
    ASSUME Typed, Way, Verify
    PROVE  Way'
<1> DEFINE tail == Tail(writer.todo)
           more == Append(writer.valid, Current)
<1>1. /\ TypeOK /\ Stages /\ Open /\ Overtaken
      /\ accepted \in [ch : Seq(Intents), prio : Seq(Intents)]
      /\ writer.pc = "verify" /\ writer.batch = <<>>
      /\ writer.todo \in Seq(Intents) /\ writer.todo # <<>> /\ writer.valid \in Seq(Intents)
      /\ told \in [Intents -> Answers]
      /\ UNCHANGED <<sent, accepted, ch, prio, db, tx>>
  BY DEF Typed, Way, TypeOK, Stages, Writers, Verify, FlushOnly
<1>2. /\ InOrder(accepted, writer.todo) /\ InOrder(accepted, writer.valid)
      /\ Ahead(accepted, Elements(writer.valid), Elements(writer.todo))
      /\ InFlush \subseteq OnChannels(accepted)
  BY <1>1 DEF Overtaken, Open
<1>3. /\ Current \in Intents /\ Elements(writer.todo) = {Current} \cup Elements(tail)
      /\ InOrder(accepted, tail) /\ Ahead(accepted, {Current}, Elements(tail))
  BY <1>1, <1>2, TailFacts, InOrderTail DEF Current
<1>4. Current \in OnChannels(accepted) /\ Current \in InFlush
  BY <1>2, <1>3 DEF InFlush
<1>5. Current \notin Elements(tail) /\ Current \notin Elements(writer.valid)
  BY <1>1, <1>2, <1>3, <1>4, Reflexive DEF Ahead
<1>6. Elements(more) = Elements(writer.valid) \cup {Current}
  BY <1>1, <1>3, AppendFacts
<1>7. InOrder(accepted, more)
  BY <1>1, <1>2, <1>3, InOrderAppend DEF Ahead
<1>8. Ahead(accepted, Elements(more), Elements(tail))
  BY <1>2, <1>3, <1>6 DEF Ahead
<1>9. Ahead(accepted, Elements(writer.valid), Elements(tail))
  BY <1>2, <1>3 DEF Ahead
<1> HIDE DEF tail, more
<1>10. /\ writer'.batch = <<>>
       /\ \/ /\ told' = [told EXCEPT ![Current] = "stale"]
             /\ writer'.valid = writer.valid
             /\ \/ writer'.pc = "verify" /\ writer'.todo = tail
                \/ writer'.pc = "begin" /\ writer'.todo = writer.valid
          \/ /\ told' = told
             /\ writer'.valid = more
             /\ \/ writer'.pc = "recheck" /\ writer'.todo = writer.todo
                \/ writer'.pc = "verify" /\ writer'.todo = tail
                \/ writer'.pc = "begin" /\ writer'.todo = more
  BY <1>1, VerifyFacts DEF tail, more
<1>11. Transaction' /\ writer'.pc \in {"verify", "begin", "recheck"}
  BY <1>10 DEF Transaction
<1>12. /\ InOrder(accepted, writer'.todo) /\ InOrder(accepted, writer'.valid)
       /\ writer'.pc = "verify" =>
              Ahead(accepted, Elements(writer'.valid), Elements(writer'.todo))
       /\ writer'.pc = "recheck" =>
              Ahead(accepted, Elements(writer'.valid), Elements(Tail(writer'.todo)))
       /\ InFlush' \subseteq InFlush
  <2>1. /\ InOrder(accepted, writer'.todo) /\ InOrder(accepted, writer'.valid)
    BY <1>2, <1>3, <1>7, <1>10
  <2>2. writer'.pc = "verify" =>
            Ahead(accepted, Elements(writer'.valid), Elements(writer'.todo))
    BY <1>8, <1>9, <1>10
  <2>3. writer'.pc = "recheck" =>
            Ahead(accepted, Elements(writer'.valid), Elements(Tail(writer'.todo)))
    BY <1>8, <1>10 DEF tail
  <2>4. InFlush' \subseteq InFlush
    BY <1>3, <1>6, <1>10 DEF InFlush
  <2>. QED BY <2>1, <2>2, <2>3, <2>4
<1>13. CASE told' = [told EXCEPT ![Current] = "stale"] /\ writer'.valid = writer.valid
  <2>1. Current \notin InFlush'
    BY <1>3, <1>5, <1>6, <1>10, <1>13 DEF InFlush
  <2>2. \A i \in Intents : /\ i \notin {Current} => told'[i] = told[i]
                           /\ i \in {Current} => told'[i] \in {"stale", "failed"}
    BY <1>1, <1>13
  <2>. QED BY <1>1, <1>4, <1>10, <1>11, <1>12, <2>1, <2>2, Settles
<1>14. CASE told' = told
  BY <1>1, <1>10, <1>11, <1>12, <1>14, GoesOn
<1>. QED BY <1>10, <1>13, <1>14

LEMMA RecheckWay ==
    ASSUME Typed, Way, Recheck
    PROVE  Way'
<1>1. /\ TypeOK /\ Stages /\ Overtaken
      /\ writer.pc = "recheck" /\ writer.batch = <<>>
      /\ writer.todo \in Seq(Intents) /\ writer.todo # <<>>
      /\ UNCHANGED <<sent, accepted, ch, prio, db, tx, told>>
  BY DEF Typed, Way, TypeOK, Stages, Writers, Recheck, FlushOnly
<1>2. /\ InOrder(accepted, writer.todo) /\ InOrder(accepted, writer.valid)
      /\ Ahead(accepted, Elements(writer.valid), Elements(Tail(writer.todo)))
  BY <1>1 DEF Overtaken
<1>3. /\ Elements(Tail(writer.todo)) \subseteq Elements(writer.todo)
      /\ InOrder(accepted, Tail(writer.todo))
  BY <1>1, <1>2, TailFacts, InOrderTail
<1>4. /\ writer'.batch = <<>> /\ writer'.valid = writer.valid
      /\ \/ writer'.pc = "verify" /\ writer'.todo = Tail(writer.todo)
         \/ writer'.pc = "begin" /\ writer'.todo = writer.valid
  BY <1>1, RecheckFacts
<1>5. InFlush' \subseteq InFlush
  BY <1>3, <1>4 DEF InFlush
<1>6. Transaction'
  BY <1>4 DEF Transaction
<1>. QED BY <1>1, <1>2, <1>3, <1>4, <1>5, <1>6, GoesOn

LEMMA Ended ==
    ASSUME Typed, Way, writer' = EndOfFlush, writer.batch = <<>>
    PROVE  /\ writer'.batch = <<>> /\ writer'.todo = <<>> /\ writer'.valid = <<>>
           /\ writer'.pc \in {"stopped", "poll"} /\ InFlush' = {} /\ Batched' = {}
           /\ Transaction'
<1>1. TypeOK
  BY DEF Typed
<1>2. /\ writer'.batch = <<>> /\ writer'.todo = <<>> /\ writer'.valid = <<>>
      /\ writer'.pc \in {"stopped", "poll"}
  BY <1>1, EndFacts
<1>3. InFlush' = {} /\ Batched' = {}
  BY <1>2, EmptyFacts DEF InFlush, Batched
<1>. QED BY <1>2, <1>3 DEF Transaction

LEMMA BeginWay ==
    ASSUME Typed, Way, Begin
    PROVE  Way'
<1>1. /\ TypeOK /\ Stages /\ Open /\ Overtaken
      /\ UNCHANGED <<sent, accepted, ch, prio, db, told>>
      /\ writer.batch = <<>> /\ writer.todo = writer.valid
      /\ \/ writer' = EndOfFlush
         \/ /\ writer'.pc = "execute" /\ writer'.batch = <<>>
            /\ writer'.todo = writer.todo /\ writer'.valid = writer.valid
            /\ tx' = [store |-> db, stale |-> {}]
  BY BeginFacts DEF Typed, Way
<1>2. CASE writer' = EndOfFlush
  <2>1. /\ writer'.batch = <<>> /\ writer'.todo = <<>> /\ writer'.valid = <<>>
        /\ writer'.pc \in {"stopped", "poll"} /\ InFlush' = {} /\ Transaction'
    BY <1>1, <1>2, Ended
  <2>. QED BY <1>1, <2>1, InOrderEmpty, GoesOn
<1>3. CASE /\ writer'.pc = "execute" /\ writer'.batch = <<>>
           /\ writer'.todo = writer.todo /\ writer'.valid = writer.valid
           /\ tx' = [store |-> db, stale |-> {}]
  <2>1. InFlush' = InFlush /\ Written' = Written
    BY <1>1, <1>3 DEF InFlush, Written
  <2>2. tx'.store.done = db.done /\ tx'.stale = {}
    BY <1>3
  <2>3. /\ InOrder(accepted, writer.todo) /\ InOrder(accepted, writer.valid)
        /\ InOrder(accepted, db.done)
        /\ Ahead(accepted, Elements(db.done), Elements(writer.todo))
    BY <1>1 DEF Overtaken, Ahead, Written, InFlush
  <2>4. Transaction'
    BY <1>1, <1>3, <2>1, <2>2, <2>3 DEF Transaction, Written
  <2>. QED BY <1>1, <1>3, <2>1, <2>3, <2>4, GoesOn
<1>. QED BY <1>1, <1>2, <1>3

LEMMA FailWay ==
    ASSUME Typed, Way, Fault \/ Reject
    PROVE  Way'
<1>1. /\ TypeOK /\ Stages /\ Transaction /\ told \in [Intents -> Answers]
      /\ FailAll /\ writer' = EndOfFlush
      /\ UNCHANGED <<sent, accepted, ch, prio, db>>
      /\ writer.pc \in {"begin", "execute"} /\ writer.batch = <<>>
  BY FailFacts DEF Typed, Way, TypeOK
<1>2. \A i \in Intents : /\ i \notin Elements(writer.valid) => told'[i] = told[i]
                         /\ i \in Elements(writer.valid) => told'[i] \in {"stale", "failed"}
  BY <1>1 DEF FailAll
<1>3. /\ writer'.batch = <<>> /\ writer'.todo = <<>> /\ writer'.valid = <<>>
      /\ writer'.pc \in {"stopped", "poll"} /\ InFlush' = {} /\ Transaction'
  BY <1>1, Ended
<1>4. Elements(writer.valid) \in SUBSET InFlush
  BY DEF InFlush
<1>. QED BY <1>1, <1>2, <1>3, <1>4, InOrderEmpty, Settles

LEMMA ExecuteWay ==
    ASSUME Typed, Way, Execute
    PROVE  Way'
<1>1. /\ TypeOK /\ Stages /\ Open /\ Overtaken
      /\ accepted \in [ch : Seq(Intents), prio : Seq(Intents)]
      /\ writer.todo \in Seq(Intents) /\ writer.todo # <<>>
      /\ UNCHANGED <<sent, accepted, ch, prio, db, told>>
      /\ writer.pc = "execute" /\ writer'.pc = "execute" /\ writer'.batch = <<>>
      /\ writer'.todo = Tail(writer.todo) /\ writer'.valid = writer.valid
  BY NextStatement DEF Typed, Way, TypeOK, Writers
<1>2. /\ Elements(writer.todo) \subseteq Elements(writer.valid)
      /\ tx.stale \subseteq Elements(writer.valid) \ Elements(writer.todo)
      /\ Elements(tx.store.done) =
             Written \cup (Elements(writer.valid) \ (Elements(writer.todo) \cup tx.stale))
      /\ InOrder(accepted, tx.store.done)
      /\ Ahead(accepted, Elements(tx.store.done), Elements(writer.todo))
  BY <1>1 DEF Way, Transaction
<1>3. InOrder(accepted, writer.todo) /\ InOrder(accepted, writer.valid)
  BY <1>1 DEF Overtaken
<1>4. /\ Current \in Intents /\ Elements(writer.todo) = {Current} \cup Elements(writer'.todo)
      /\ InOrder(accepted, writer'.todo) /\ Ahead(accepted, {Current}, Elements(writer'.todo))
  <2>1. Head(writer.todo) \in Intents
        /\ Elements(writer.todo) = {Head(writer.todo)} \cup Elements(Tail(writer.todo))
    BY <1>1, TailFacts
  <2>2. /\ InOrder(accepted, Tail(writer.todo))
        /\ Ahead(accepted, {Head(writer.todo)}, Elements(Tail(writer.todo)))
    BY <1>1, <1>3, InOrderTail
  <2>. QED BY <1>1, <2>1, <2>2 DEF Current
<1>5. Current \notin Elements(writer'.todo) /\ Current \notin Written
  <2>1. Current \in InFlush /\ Current \in OnChannels(accepted)
    BY <1>1, <1>4 DEF InFlush, Open
  <2>. QED BY <1>1, <1>3, <1>4, <2>1, HeadOnce, Apart DEF Current
<1>6. InFlush' \subseteq InFlush /\ Written' = Written
  BY <1>1, <1>4 DEF InFlush, Written
<1>7. Transaction'
  <2>1. Elements(writer'.todo) \subseteq Elements(writer'.valid)
    BY <1>1, <1>2, <1>4
  <2>2. CASE Skips
    <3>1. tx'.stale = tx.stale \cup {Current} /\ tx'.store = tx.store
      BY <1>1, <2>2 DEF Skips, TypeOK
    <3>2. tx'.stale \subseteq Elements(writer.valid) \ Elements(writer'.todo)
      BY <1>2, <1>4, <1>5, <3>1
    <3>3. Elements(writer.valid) \ (Elements(writer'.todo) \cup tx'.stale) =
              Elements(writer.valid) \ (Elements(writer.todo) \cup tx.stale)
      BY <1>4, <3>1
    <3>4. Ahead(accepted, Elements(tx.store.done), Elements(writer'.todo))
      BY <1>2, <1>4 DEF Ahead
    <3>. QED BY <1>1, <1>2, <1>6, <2>1, <3>1, <3>2, <3>3, <3>4 DEF Transaction
  <2>3. CASE Writes \/ Decides \/ Logs
    <3>1. tx'.stale = tx.stale /\ tx'.store.done = Append(tx.store.done, Current)
      BY <2>3 DEF Writes, Decides, Logs
    <3>2. tx.store.done \in Seq(Intents)
      BY <1>1, StoreTypes DEF TypeOK
    <3>3. Elements(tx'.store.done) = Elements(tx.store.done) \cup {Current}
      BY <1>4, <3>1, <3>2, AppendFacts
    <3>4. tx'.stale \subseteq Elements(writer.valid) \ Elements(writer'.todo)
      BY <1>2, <1>4, <3>1
    <3>5. Current \in Elements(writer.valid) /\ Current \notin tx.stale
      BY <1>2, <1>4
    <3>6. Elements(writer.valid) \ (Elements(writer'.todo) \cup tx.stale) =
              (Elements(writer.valid) \ (Elements(writer.todo) \cup tx.stale)) \cup {Current}
      BY <1>4, <1>5, <3>5
    <3>7. Elements(tx'.store.done) =
              Written \cup (Elements(writer.valid) \ (Elements(writer'.todo) \cup tx'.stale))
      BY <1>2, <3>1, <3>3, <3>6
    <3>8. InOrder(accepted, tx'.store.done)
      BY <1>2, <1>4, <3>1, <3>2, InOrderAppend DEF Ahead
    <3>9. Ahead(accepted, Elements(tx'.store.done), Elements(writer'.todo))
      BY <1>2, <1>4, <3>3 DEF Ahead
    <3>. QED BY <1>1, <1>6, <2>1, <3>4, <3>7, <3>8, <3>9 DEF Transaction
  <2>. QED BY <1>1, <2>2, <2>3, ExecuteFacts
<1>. QED BY <1>1, <1>3, <1>4, <1>6, <1>7, GoesOn

LEMMA CommitWay ==
    ASSUME Typed, Way, Commit
    PROVE  Way'
<1>1. /\ TypeOK /\ Stages /\ Channels /\ Open /\ Overtaken /\ AnswersTrue
      /\ UNCHANGED <<sent, accepted, ch, prio>>
      /\ writer' = EndOfFlush /\ writer.pc = "execute" /\ writer.todo = <<>>
      /\ writer.batch = <<>>
      /\ db' = tx.store
      /\ told' = [i \in Intents |->
                    IF i \in tx.stale THEN "stale"
                    ELSE IF i \in Elements(writer.valid) THEN "ok" ELSE told[i]]
  BY CommitFacts DEF Typed, Way
<1>2. Elements(writer.todo) = {} /\ InFlush = Elements(writer.valid)
  BY <1>1, EmptyFacts DEF InFlush
<1>3. /\ tx.stale \subseteq InFlush
      /\ Written' = Written \cup (InFlush \ tx.stale)
      /\ InOrder(accepted, db'.done)
  BY <1>1, <1>2 DEF Way, Transaction, Written
<1>4. /\ writer'.batch = <<>> /\ writer'.todo = <<>> /\ writer'.valid = <<>>
      /\ writer'.pc \in {"stopped", "poll"} /\ InFlush' = {} /\ Batched' = {} /\ Transaction'
  BY <1>1, Ended
<1>5. Queued' = Queued /\ Queued \subseteq Intents /\ InFlush \subseteq Intents
  BY <1>1, SetTypes DEF Queued
<1>6. Channels'
  BY <1>1 DEF Channels, Accepted
<1>7. Open'
  BY <1>1, <1>2, <1>3, <1>4, <1>5, Apart DEF Open
<1>8. Ahead(accepted, Written', Queued)
  BY <1>1, <1>3 DEF Overtaken, Ahead
<1>9. Overtaken'
  <2>1. /\ Ahead(accepted, Written', InFlush' \cup Batched' \cup Queued')
        /\ Ahead(accepted, InFlush' \cup Batched', Queued')
    BY <1>4, <1>5, <1>8 DEF Ahead
  <2>2. /\ InOrder(accepted, writer'.batch) /\ InOrder(accepted, writer'.todo)
        /\ InOrder(accepted, writer'.valid)
    BY <1>4, InOrderEmpty
  <2>. QED BY <1>1, <1>3, <1>4, <2>1, <2>2 DEF Overtaken
<1>10. AnswersTrue'
  <2>1. SUFFICES ASSUME NEW i \in Intents PROVE told'[i] = "ok" <=> i \in Written'
    BY DEF AnswersTrue, Written
  <2>2. told[i] = "ok" <=> i \in Written
    BY <1>1 DEF AnswersTrue, Written
  <2>3. InFlush \cap Written = {}
    BY Apart
  <2>. QED BY <1>1, <1>2, <1>3, <2>2, <2>3
<1>. QED BY <1>4, <1>6, <1>7, <1>9, <1>10 DEF Way

(***************************************************************************)
(* The invariant.                                                          *)
(***************************************************************************)
Inv == Typed /\ Stored /\ Way

LEMMA InitWay == Init => Way
<1>1. SUFFICES ASSUME Init PROVE Way
  OBVIOUS
<1>2. /\ ch = <<>> /\ prio = <<>> /\ accepted.ch = <<>> /\ accepted.prio = <<>>
      /\ writer.batch = <<>> /\ writer.todo = <<>> /\ writer.valid = <<>>
      /\ writer.pc = "poll" /\ db.done = <<>>
      /\ \A i \in Intents : told[i] = "none"
  BY <1>1 DEF Init, EmptyStore
<1>3. /\ Queued = {} /\ Batched = {} /\ InFlush = {} /\ Written = {}
      /\ OnChannels(accepted) = {}
      /\ Elements(accepted.ch) = {} /\ Elements(accepted.prio) = {}
  BY <1>2, EmptyFacts DEF Queued, Batched, InFlush, Written, OnChannels
<1>4. Channels
  BY <1>2, <1>3, InOrderEmpty, EmptyFacts DEF Channels
<1>5. Open
  BY <1>2, <1>3 DEF Open
<1>6. Overtaken
  BY <1>2, <1>3, InOrderEmpty DEF Overtaken, Ahead
<1>7. AnswersTrue
  BY <1>2, <1>3 DEF AnswersTrue, Written
<1>. QED BY <1>2, <1>4, <1>5, <1>6, <1>7 DEF Way, Transaction

LEMMA NextWay == Typed /\ Way /\ [Next]_vars => Way'
<1>1. SUFFICES ASSUME Typed, Way, [Next]_vars PROVE Way'
  OBVIOUS
<1>2. CASE \E c \in Callers : Submit(c)
  BY <1>1, <1>2, SubmitWay
<1>3. CASE Polling
  BY <1>1, <1>3, PollingWay
<1>4. CASE Flushing
  BY <1>1, <1>4, VerifyWay, RecheckWay, BeginWay, FailWay, ExecuteWay, CommitWay DEF Flushing
<1>5. CASE Around \/ UNCHANGED vars
  <2>1. UNCHANGED <<sent, accepted, ch, prio, writer, tx, db, told>>
    BY <1>5 DEF Around, LoseLease, Cancel, Close, vars
  <2>2. /\ Queued' = Queued /\ Batched' = Batched /\ InFlush' = InFlush /\ Written' = Written
    BY <2>1 DEF Queued, Batched, InFlush, Written
  <2>3. Channels'
    BY <1>1, <2>1 DEF Way, Channels, Accepted
  <2>4. Open'
    BY <1>1, <2>1, <2>2 DEF Way, Open
  <2>5. Overtaken'
    BY <1>1, <2>1, <2>2 DEF Way, Overtaken
  <2>6. Transaction'
    BY <1>1, <2>1, <2>2 DEF Way, Transaction
  <2>7. AnswersTrue'
    BY <1>1, <2>1 DEF Way, AnswersTrue
  <2>. QED BY <2>3, <2>4, <2>5, <2>6, <2>7 DEF Way
<1>. QED BY <1>1, <1>2, <1>3, <1>4, <1>5, NextCases

LEMMA SpecInv == Spec => []Inv
<1>1. Init => Inv
  BY InitTypes, InitStored, InitWay DEF Inv, Typed
<1>2. Inv /\ [Next]_vars => Inv'
  BY NextTypes, NextStored, NextWay DEF Inv, Typed
<1>. QED BY <1>1, <1>2, PTL DEF Spec

(***************************************************************************)
(* Theorems.                                                               *)
(***************************************************************************)

\* The variables have their types; no nil reaches a flush.
THEOREM TypeCorrect == Spec => []TypeOK
<1>1. Inv => TypeOK
  BY DEF Inv, Typed
<1>. QED BY <1>1, SpecInv, PTL

\* The events of the database form one chain without duplicates, whatever is batched
\* together, fails or is rolled back.
THEOREM EventsAreChained == Spec => []HashChain
<1>1. Inv => HashChain
  BY DEF Inv, Stored, SoundStore, Chained, HashChain
<1>. QED BY <1>1, SpecInv, PTL

\* At most one of the writers that claim a version of a key gets it, as long as all
\* writers of that key claim versions.
THEOREM ClaimsAreExclusive == Spec => []OneWinner
<1>1. Inv => OneWinner
  <2>1. SUFFICES ASSUME Inv, NEW i \in Elements(db.done), NEW j \in Elements(db.done),
                        Versioned(i), Versioned(j), Req(i).key = Req(j).key,
                        Req(i).claimed = Req(j).claimed,
                        \A m \in Elements(db.done) : Unversioned(m) => Req(m).key # Req(i).key
                 PROVE  i = j
    BY DEF OneWinner
  <2>2. VersionedOnly(db.done, Req(i).key) /\ OneClaim(db.done)
    BY <2>1 DEF VersionedOnly, Inv, Stored, SoundStore
  <2>. QED BY <2>1, <2>2 DEF OneClaim
<1>. QED BY <1>1, SpecInv, PTL

\* A caller is told "ok" exactly when what it submitted is committed.
THEOREM AnswersAreTrue == Spec => []AnswersTrue
<1>1. Inv => AnswersTrue
  BY DEF Inv, Way
<1>. QED BY <1>1, SpecInv, PTL

\* What one channel accepts takes effect in that order, over batches and failures.
THEOREM NobodyOvertakes == Spec => []SubmissionOrder
<1>1. Inv => SubmissionOrder
  <2>1. SUFFICES ASSUME Inv, NEW s \in {accepted.ch, accepted.prio},
                        NEW m \in DOMAIN db.done, NEW n \in DOMAIN db.done,
                        NEW p \in DOMAIN s, NEW q \in DOMAIN s,
                        db.done[m] = s[p], db.done[n] = s[q], p < q
                 PROVE  m < n
    BY DEF SubmissionOrder
  <2>2. /\ InOrder(accepted, db.done) /\ InOrder(accepted, s)
        /\ db.done \in Seq(Intents) /\ s \in Seq(Intents)
    BY <2>1, StoreTypes DEF Inv, Typed, TypeOK, Way, Overtaken, Channels
  <2>3. m \in Nat /\ n \in Nat /\ p \in Nat /\ q \in Nat
    BY <2>2
  <2>4. NotLater(accepted, s[p], s[q])
    BY <2>1, <2>3 DEF NotLater
  <2>5. m <= n
    BY <2>1, <2>2, <2>4 DEF InOrder
  <2>6. m # n
    <3>1. SUFFICES ASSUME m = n PROVE FALSE
      OBVIOUS
    <3>2. NotLater(accepted, s[q], s[p])
      BY <2>1, <2>4, <3>1
    <3>3. q <= p
      BY <2>2, <3>2 DEF InOrder
    <3>. QED BY <2>1, <2>3, <3>3
  <2>. QED BY <2>3, <2>5, <2>6
<1>. QED BY <1>1, SpecInv, PTL

LEMMA AnswerStays ==
    ASSUME Inv, [Next]_vars, NEW i \in Intents, told[i] # "none"
    PROVE  told'[i] = told[i]
<1>1. /\ TypeOK /\ Stages /\ Transaction /\ told \in [Intents -> Answers]
      /\ i \notin InFlush
  BY DEF Inv, Typed, Way, Open, TypeOK
<1>2. CASE Verify
  <2>1. Current \in InFlush
    BY <1>1, <1>2, TailFacts DEF Verify, Stages, TypeOK, Writers, Current, InFlush
  <2>. QED BY <1>1, <1>2, <2>1, VerifyFacts
<1>3. CASE Fault \/ Reject
  BY <1>1, <1>3 DEF Fault, Reject, FailAll, InFlush
<1>4. CASE Commit
  <2>1. i \notin Elements(writer.valid) /\ i \notin tx.stale
    BY <1>1, <1>4 DEF Commit, Transaction, InFlush
  <2>. QED BY <1>1, <1>4, <2>1 DEF Commit
<1>5. CASE \/ \E c \in Callers : Submit(c)
           \/ Around \/ Polling \/ Recheck \/ Begin \/ Execute
           \/ UNCHANGED vars
  <2>1. told' = told
    BY <1>5 DEF Submit, Enqueue, Around, LoseLease, Cancel, Close, Polling, TakePriority,
                NothingUrgent, TakeNormal, TakeNil, Tick, Done, WriterOnly, Recheck, Begin,
                Execute, vars
  <2>. QED BY <2>1
<1>. QED BY <1>2, <1>3, <1>4, <1>5, NextCases DEF Flushing

\* An answer is final: an intent is answered once at most.
THEOREM AnswersAreFinal == Spec => AnsweredOnce
<1>1. Inv /\ [Next]_vars => [\A i \in Intents : told[i] # "none" => told'[i] = told[i]]_vars
  BY AnswerStays
<1>. QED BY <1>1, SpecInv, PTL DEF Spec, AnsweredOnce

(***************************************************************************)
(* The bus is one log (CommitLog).  No intent that was accepted is lost as *)
(* long as the writer runs (NoneLost), so that a batch is behind all that  *)
(* its lanes accepted before; the store of a transaction only grows        *)
(* (Continues), and what it holds is what its history makes of an empty    *)
(* table (Lawful).                                                         *)
(***************************************************************************)
NoneLost ==
    writer.pc \notin {"stopped", "panicked"} =>
        \A i \in OnChannels(accepted) :
            told[i] = "none" => i \in Queued \cup Batched \cup InFlush

\* A group is given up for a lease.
LostGroups ==
    \A c \in writer.lost :
        c \in Composite /\ \E n \in DOMAIN Program[c] : Program[c][n].task # NoTask

Lawful(s) ==
    /\ \A k \in Keys : s.table[k] \in Log!Stands(s.done, Len(s.done), k)
    /\ \A n \in DOMAIN s.done : Log!Fits(s.done[n], s.done, n - 1)
    /\ \A m \in DOMAIN s.done :
           Req(s.done[m]).op = "event" =>
               \E n \in DOMAIN s.log : s.log[n].key = Req(s.done[m]).key

LongerThan(h, g) == Len(h) <= Len(g) /\ \A n \in 1 .. Len(h) : g[n] = h[n]

Continues ==
    writer.pc = "execute" =>
        /\ LongerThan(db.done, tx.store.done)
        /\ \A i \in tx.stale :
               i \in Leased \/ \E n \in Len(db.done) .. Len(tx.store.done) :
                                   Log!Outdated(i, tx.store.done, n)

\* An intent that is checked a second time has passed the first check, and has a
\* group.
Passed == writer.pc = "recheck" => Current \in Elements(writer.valid) /\ Grouped

LogInv == NoneLost /\ Passed /\ LostGroups /\ Lawful(db) /\ Lawful(tx.store) /\ Continues

LEMMA LogTerms ==
    /\ \A i \in Intents : Log!Rewrites(i) <=> Req(i).op \in {"insert", "upsert", "delete"}
    /\ \A r : Log!Leaves(r) = NewVersion(r)
    /\ \A r, v : Log!MadeFor(r, v) <=> VersionMatches(r, v)
  BY DEF Log!Rewrites, Log!Leaves, Log!MadeFor, NewVersion, VersionMatches

LEMMA StandsTerms ==
    ASSUME NEW h \in Seq(Intents), NEW n \in 0 .. Len(h), NEW k
    PROVE  LET W == {m \in 1 .. n : /\ Req(h[m]).op \in {"insert", "upsert", "delete"}
                                    /\ Req(h[m]).key = k}
           IN  Log!Stands(h, n, k) =
                   IF W = {} THEN {NoRow}
                   ELSE {NewVersion(Req(h[m])) : m \in {l \in W : \A o \in W : o <= l}}
<1> DEFINE W == {m \in 1 .. n : /\ Req(h[m]).op \in {"insert", "upsert", "delete"}
                                /\ Req(h[m]).key = k}
           R == [i \in Intents |-> Req(i)]
<1>1. \A m \in 1 .. n : h[m] \in Intents /\ R[h[m]] = Req(h[m])
  OBVIOUS
<1>2. Log!Rewriters(h, n, k) = W
  BY <1>1, LogTerms DEF Log!Rewriters
<1>3. \A m \in W : R[h[m]] = Req(h[m])
  BY <1>1
<1> HIDE DEF W
<1>4. {Log!Leaves(R[h[m]]) : m \in {l \in W : \A o \in W : o <= l}} =
      {NewVersion(Req(h[m])) : m \in {l \in W : \A o \in W : o <= l}}
  BY <1>3, LogTerms
<1>. QED BY <1>2, <1>4 DEF Log!Stands, W

\* What stood at a place of the history does not change when it grows.
LEMMA StandsStays ==
    ASSUME NEW h \in Seq(Intents), NEW g \in Seq(Intents), LongerThan(h, g),
           NEW n \in 0 .. Len(h), NEW k
    PROVE  Log!Stands(g, n, k) = Log!Stands(h, n, k)
<1>1. n \in 0 .. Len(g) /\ \A m \in 1 .. n : g[m] = h[m]
  BY DEF LongerThan
<1> DEFINE V(f) == {m \in 1 .. n : /\ Req(f[m]).op \in {"insert", "upsert", "delete"}
                                   /\ Req(f[m]).key = k}
<1>2. V(g) = V(h) /\ \A m \in V(h) : g[m] = h[m]
  BY <1>1
<1>3. ASSUME NEW f \in Seq(Intents), n \in 0 .. Len(f)
      PROVE  Log!Stands(f, n, k) =
                 IF V(f) = {} THEN {NoRow}
                 ELSE {NewVersion(Req(f[m])) : m \in {l \in V(f) : \A o \in V(f) : o <= l}}
  BY <1>3, StandsTerms
<1> HIDE DEF V
<1>4. {NewVersion(Req(g[m])) : m \in {l \in V(g) : \A o \in V(g) : o <= l}} =
      {NewVersion(Req(h[m])) : m \in {l \in V(h) : \A o \in V(h) : o <= l}}
  BY <1>2
<1>. QED BY <1>1, <1>2, <1>3, <1>4

LEMMA JudgedAsBefore ==
    ASSUME NEW h \in Seq(Intents), NEW g \in Seq(Intents), LongerThan(h, g),
           NEW n \in 0 .. Len(h), NEW i \in Intents
    PROVE  /\ Log!Fits(i, g, n) <=> Log!Fits(i, h, n)
           /\ Log!Outdated(i, g, n) <=> Log!Outdated(i, h, n)
<1>1. \A k : Log!Stands(g, n, k) = Log!Stands(h, n, k)
  BY StandsStays
<1>2. \A m \in 1 .. n : g[m] = h[m]
  BY DEF LongerThan
<1>. QED BY <1>1, <1>2 DEF Log!Fits, Log!Outdated

LEMMA LongerByOne ==
    ASSUME NEW h \in Seq(Intents), NEW i \in Intents
    PROVE  LongerThan(h, Append(h, i))
  BY AppendFacts DEF LongerThan

\* What stands at the end of a history that one intent was added to.
LEMMA StandsNow ==
    ASSUME NEW h \in Seq(Intents), NEW i \in Intents, NEW k
    PROVE  Log!Stands(Append(h, i), Len(h) + 1, k) =
               IF Req(i).op \in {"insert", "upsert", "delete"} /\ Req(i).key = k
               THEN {NewVersion(Req(i))} ELSE Log!Stands(h, Len(h), k)
<1> DEFINE g == Append(h, i)
           L == Len(h)
           V(f, n) == {m \in 1 .. n : /\ Req(f[m]).op \in {"insert", "upsert", "delete"}
                                      /\ Req(f[m]).key = k}
           Top(X) == {l \in X : \A o \in X : o <= l}
<1>1. /\ g \in Seq(Intents) /\ L \in Nat /\ Len(g) = L + 1 /\ g[L + 1] = i
      /\ \A m \in 1 .. L : g[m] = h[m]
  BY AppendFacts
<1>2. ASSUME NEW f \in Seq(Intents), NEW n \in 0 .. Len(f)
      PROVE  Log!Stands(f, n, k) =
                 IF V(f, n) = {} THEN {NoRow} ELSE {NewVersion(Req(f[m])) : m \in Top(V(f, n))}
  BY StandsTerms
<1>3. CASE Req(i).op \in {"insert", "upsert", "delete"} /\ Req(i).key = k
  <2>1. L + 1 \in V(g, L + 1) /\ \A o \in V(g, L + 1) : o \in Nat /\ o <= L + 1
    BY <1>1, <1>3
  <2>2. Top(V(g, L + 1)) = {L + 1}
    BY <1>1, <2>1
  <2>3. L + 1 \in 0 .. Len(g) /\ V(g, L + 1) # {}
    BY <1>1, <2>1
  <2> HIDE DEF V, Top, g, L
  <2>4. Log!Stands(g, L + 1, k) = {NewVersion(Req(g[m])) : m \in {L + 1}}
    BY <1>1, <1>2, <2>2, <2>3
  <2>5. Log!Stands(g, L + 1, k) = {NewVersion(Req(g[L + 1]))}
    BY <2>4
  <2>. QED BY <1>1, <1>3, <2>5 DEF g, L
<1>4. CASE ~(Req(i).op \in {"insert", "upsert", "delete"} /\ Req(i).key = k)
  <2>1. V(g, L + 1) = V(h, L) /\ \A m \in V(h, L) : g[m] = h[m]
    BY <1>1, <1>4
  <2>2. {NewVersion(Req(g[m])) : m \in Top(V(g, L + 1))} =
        {NewVersion(Req(h[m])) : m \in Top(V(h, L))}
    BY <2>1
  <2>3. L \in 0 .. Len(h) /\ L + 1 \in 0 .. Len(g)
    BY <1>1
  <2> HIDE DEF V, Top, g, L
  <2>4. Log!Stands(g, L + 1, k) = Log!Stands(h, L, k)
    BY <1>1, <1>2, <2>1, <2>2, <2>3
  <2>. QED BY <1>4, <2>4 DEF g, L
<1>. QED BY <1>3, <1>4

LEMMA LawfulGrows ==
    ASSUME NEW s \in Stores, NEW t \in Stores, Lawful(s),
           NEW i \in Intents, Log!Fits(i, s.done, Len(s.done)),
           t.done = Append(s.done, i),
           \A k \in Keys : t.table[k] =
               IF Req(i).op \in {"insert", "upsert", "delete"} /\ Req(i).key = k
               THEN NewVersion(Req(i)) ELSE s.table[k],
           \A n \in DOMAIN s.log : \E m \in DOMAIN t.log : t.log[m].key = s.log[n].key,
           Req(i).op = "event" => \E m \in DOMAIN t.log : t.log[m].key = Req(i).key
    PROVE  Lawful(t)
<1> DEFINE h == s.done
           g == t.done
           L == Len(h)
<1>1. h \in Seq(Intents) /\ g \in Seq(Intents) /\ LongerThan(h, g)
  BY StoreTypes, LongerByOne
<1>2. /\ L \in Nat /\ Len(g) = L + 1 /\ g[L + 1] = i /\ DOMAIN g = 1 .. L + 1
      /\ DOMAIN h = 1 .. L /\ \A m \in 1 .. L : g[m] = h[m] /\ h[m] \in Intents
  BY <1>1, AppendFacts
<1>3. ASSUME NEW k \in Keys PROVE t.table[k] \in Log!Stands(g, Len(g), k)
  <2>0. Log!Stands(Append(s.done, i), Len(s.done) + 1, k) =
            IF Req(i).op \in {"insert", "upsert", "delete"} /\ Req(i).key = k
            THEN {NewVersion(Req(i))} ELSE Log!Stands(s.done, Len(s.done), k)
    BY <1>1, StandsNow
  <2>1. Log!Stands(g, L + 1, k) =
            IF Req(i).op \in {"insert", "upsert", "delete"} /\ Req(i).key = k
            THEN {NewVersion(Req(i))} ELSE Log!Stands(h, L, k)
    BY <2>0
  <2>2. s.table[k] \in Log!Stands(h, L, k)
    BY DEF Lawful
  <2>. QED BY <1>2, <2>1, <2>2
<1>4. ASSUME NEW n \in DOMAIN g PROVE Log!Fits(g[n], g, n - 1)
  <2>1. CASE n \in 1 .. L
    <3>1. n - 1 \in 0 .. L /\ h[n] \in Intents /\ g[n] = h[n]
      BY <1>2, <2>1
    <3>2. Log!Fits(h[n], h, n - 1)
      BY <1>2, <2>1 DEF Lawful
    <3>. QED BY <1>1, <3>1, <3>2, JudgedAsBefore
  <2>2. CASE n = L + 1
    <3>1. L \in 0 .. Len(h) /\ n - 1 = L /\ g[n] = i
      BY <1>2, <2>2
    <3>2. Log!Fits(i, h, L)
      OBVIOUS
    <3> HIDE DEF g, h, L
    <3>3. Log!Fits(i, g, L)
      BY <1>1, <3>1, <3>2, JudgedAsBefore
    <3>. QED BY <3>1, <3>3
  <2>. QED BY <1>2, <2>1, <2>2
<1>5. ASSUME NEW m \in DOMAIN g, Req(g[m]).op = "event"
      PROVE  \E n \in DOMAIN t.log : t.log[n].key = Req(g[m]).key
  <2>1. CASE m \in 1 .. L
    <3>1. g[m] = h[m] /\ m \in DOMAIN h
      BY <1>2, <2>1
    <3>2. PICK n \in DOMAIN s.log : s.log[n].key = Req(h[m]).key
      BY <1>5, <3>1 DEF Lawful
    <3>. QED BY <3>1, <3>2
  <2>2. CASE m = L + 1
    BY <1>2, <1>5, <2>2
  <2>. QED BY <1>2, <2>1, <2>2
<1>. QED BY <1>3, <1>4, <1>5 DEF Lawful

\* A statement succeeds when its intent fits.
LEMMA ExecuteFits ==
    ASSUME TypeOK, Execute, Lawful(tx.store), Writes \/ Decides \/ Logs
    PROVE  /\ tx'.store.done = Append(tx.store.done, Current) /\ tx'.stale = tx.stale
           /\ Lawful(tx'.store)
<1> DEFINE h == tx.store.done
           L == Len(h)
           i == Current
<1>1. /\ tx.store \in Stores /\ tx'.store \in Stores /\ i \in Intents
  BY ExecuteFacts DEF TypeOK
<1>2. /\ tx.store.table \in [Keys -> {NoRow, Null} \cup Nat]
      /\ tx.store.log \in Seq(Events)
      /\ h \in Seq(Intents) /\ Req(i) \in Requests /\ Req(i).key \in Keys
  BY <1>1, StoreTypes, IntentTypes DEF Requests
<1>3. tx'.store.done = Append(h, i) /\ tx'.stale = tx.stale
  BY DEF Writes, Decides, Logs
<1>4. L \in Nat /\ L \in 0 .. Len(h) /\ DOMAIN h = 1 .. L /\ \A m \in 1 .. L : h[m] \in Intents
  BY <1>2
<1> HIDE DEF i
<1>5. CASE Writes
  <2>1. /\ Req(i).op \in {"insert", "upsert", "delete"}
        /\ VersionMatches(Req(i), tx.store.table[Req(i).key])
        /\ tx'.store.table = [tx.store.table EXCEPT ![Req(i).key] = NewVersion(Req(i))]
        /\ tx'.store.log = tx.store.log
    BY <1>5 DEF Writes, i
  <2>2. tx.store.table[Req(i).key] \in Log!Stands(h, L, Req(i).key)
    BY <1>2 DEF Lawful
  <2>3. Log!Fits(i, h, L)
    BY <1>1, <2>1, <2>2, LogTerms DEF Log!Fits
  <2>4. \A k \in Keys : tx'.store.table[k] =
            IF Req(i).op \in {"insert", "upsert", "delete"} /\ Req(i).key = k
            THEN NewVersion(Req(i)) ELSE tx.store.table[k]
    BY <1>2, <2>1
  <2>5. Lawful(tx'.store)
    BY <1>1, <1>3, <2>1, <2>3, <2>4, LawfulGrows
  <2>. QED BY <1>3, <2>5 DEF i
<1>6. CASE Decides
  <2>1. /\ Req(i).op = "decision"
        /\ tx'.store.table = tx.store.table /\ tx'.store.log = tx.store.log
    BY <1>6 DEF Decides, i
  <2>2. Log!Fits(i, h, L)
    BY <1>1, <2>1, LogTerms DEF Log!Fits
  <2>3. Lawful(tx'.store)
    BY <1>1, <1>3, <2>1, <2>2, LawfulGrows
  <2>. QED BY <1>3, <2>3 DEF i
<1>7. CASE Logs
  <2>0. PICK e \in NewEvents(Req(i).key) : tx'.store.log = Append(tx.store.log, e)
    BY <1>7 DEF Logs, i
  <2>1. /\ Req(i).op = "event"
        /\ \A n \in DOMAIN tx.store.log : tx.store.log[n].key # Req(i).key
        /\ tx'.store.table = tx.store.table /\ tx'.store.log = Append(tx.store.log, e)
    BY <1>7, <2>0 DEF Logs, i
  <2>2. e.key = Req(i).key
    BY <1>2, EventFacts
  <2>3. /\ \A n \in DOMAIN tx.store.log :
               /\ n \in DOMAIN tx'.store.log
               /\ tx'.store.log[n] = tx.store.log[n]
        /\ Len(tx.store.log) + 1 \in DOMAIN tx'.store.log
        /\ tx'.store.log[Len(tx.store.log) + 1] = e
    BY <1>2, <2>1
  <2>4. \A m \in 1 .. L : Req(h[m]).op = "event" => Req(h[m]).key # Req(i).key
    BY <1>4, <2>1 DEF Lawful
  <2>5. Log!Fits(i, h, L)
    BY <1>1, <1>4, <2>1, <2>4, LogTerms DEF Log!Fits
  <2>6. Lawful(tx'.store)
    BY <1>1, <1>3, <2>1, <2>2, <2>3, <2>5, LawfulGrows
  <2>. QED BY <1>3, <2>6 DEF i
<1>. QED BY <1>5, <1>6, <1>7

\* ... and is stale for a reason.
LEMMA SkipsWithReason ==
    ASSUME TypeOK, Execute, LostGroups, Lawful(tx.store), ~(Writes \/ Decides \/ Logs)
    PROVE  /\ tx'.store = tx.store /\ tx'.stale = tx.stale \cup {Current}
           /\ \/ Current \in Leased
              \/ Log!Outdated(Current, tx.store.done, Len(tx.store.done))
<1>1. /\ tx \in [store : Stores, stale : SUBSET Intents] /\ Current \in Intents /\ Skips
      /\ tx.store \in Stores
  BY ExecuteFacts DEF TypeOK
<1>2. tx'.store = tx.store /\ tx'.stale = tx.stale \cup {Current}
  BY <1>1 DEF Skips
<1>3. ASSUME NEW table, NEW log PROVE tx' # Executed(Current, table, log)
  <2>1. Executed(Current, table, log).store.done = Append(tx.store.done, Current)
    BY DEF Executed
  <2>2. tx.store.done \in Seq(Intents)
    BY <1>1, StoreTypes
  <2>3. Append(tx.store.done, Current) # tx.store.done
    BY <1>1, <2>2, AppendFacts
  <2>. QED BY <1>2, <2>1, <2>3
<1>4. \/ Grouped /\ Current[1] \in writer.lost
      \/ /\ Req(Current).op \in {"insert", "upsert", "delete"}
         /\ ~VersionMatches(Req(Current), tx.store.table[Req(Current).key])
  BY <1>3 DEF Execute
<1>5. CASE Grouped /\ Current[1] \in writer.lost
  BY <1>1, <1>2, <1>5 DEF LostGroups, Leased
<1>6. CASE /\ Req(Current).op \in {"insert", "upsert", "delete"}
           /\ ~VersionMatches(Req(Current), tx.store.table[Req(Current).key])
  <2>1. Req(Current).key \in Keys
    BY <1>1, IntentTypes DEF Requests
  <2>2. tx.store.table[Req(Current).key] \in
            Log!Stands(tx.store.done, Len(tx.store.done), Req(Current).key)
    BY <2>1 DEF Lawful
  <2>. QED BY <1>1, <1>2, <1>6, <2>2, LogTerms DEF Log!Outdated
<1>. QED BY <1>4, <1>5, <1>6

LEMMA ContinuesOn ==
    ASSUME TypeOK, Execute, LostGroups, Lawful(tx.store), Continues
    PROVE  Continues' /\ Lawful(tx'.store)
<1> DEFINE h == tx.store.done
           L == Len(h)
           d == Len(db.done)
<1>1. /\ h \in Seq(Intents) /\ db.done \in Seq(Intents) /\ Current \in Intents
      /\ tx.stale \subseteq Intents
      /\ LongerThan(db.done, h) /\ writer.pc = "execute" /\ db' = db
      /\ \A i \in tx.stale : i \in Leased \/ \E n \in d .. L : Log!Outdated(i, h, n)
  BY StoreTypes, ExecuteFacts DEF TypeOK, Execute, Continues
<1>2. L \in Nat /\ d \in Nat /\ d <= L
  BY <1>1 DEF LongerThan
<1>3. CASE Writes \/ Decides \/ Logs
  <2> DEFINE g == tx'.store.done
  <2>1. g = Append(h, Current) /\ tx'.stale = tx.stale /\ Lawful(tx'.store)
    BY <1>3, ExecuteFits
  <2>2. g \in Seq(Intents) /\ Len(g) = L + 1 /\ LongerThan(h, g)
    BY <1>1, <2>1, AppendFacts, LongerByOne
  <2> HIDE DEF g
  <2>3. LongerThan(db.done, g)
    <3>1. d <= Len(g) /\ \A n \in 1 .. d : n \in 1 .. L
      BY <1>2, <2>2
    <3>2. \A n \in 1 .. d : g[n] = h[n] /\ h[n] = db.done[n]
      BY <1>1, <2>2, <3>1 DEF LongerThan
    <3>. QED BY <3>1, <3>2 DEF LongerThan
  <2>4. ASSUME NEW i \in tx.stale, i \notin Leased
        PROVE  \E n \in d .. Len(g) : Log!Outdated(i, g, n)
    <3>1. PICK n \in d .. L : Log!Outdated(i, h, n)
      BY <1>1, <2>4
    <3>2. n \in 0 .. Len(h) /\ n \in d .. Len(g) /\ i \in Intents
      BY <1>1, <1>2, <2>2, <2>4
    <3>. QED BY <1>1, <2>2, <3>1, <3>2, JudgedAsBefore
  <2>. QED BY <1>1, <2>1, <2>3, <2>4 DEF Continues, g
<1>4. CASE ~(Writes \/ Decides \/ Logs)
  <2>1. /\ tx'.store = tx.store /\ tx'.stale = tx.stale \cup {Current}
        /\ Current \in Leased \/ Log!Outdated(Current, h, L)
    BY <1>4, SkipsWithReason
  <2>2. L \in d .. L
    BY <1>2
  <2>. QED BY <1>1, <2>1, <2>2 DEF Continues
<1>. QED BY <1>3, <1>4

\* An intent that leaves a channel is in the batch or in the flush, unless the
\* writer panics.
LEMMA CollectKeeps ==
    ASSUME TypeOK, NEW i \in Intents \cup {Nil}, Collect(i),
           writer.todo = <<>>, writer.valid = <<>>
    PROVE  \/ writer'.pc = "panicked"
           \/ Batched \cup ({i} \ {Nil}) \subseteq Batched' \cup InFlush'
<1> DEFINE a == Append(writer.batch, i)
<1>1. writer.batch \in Seq(Intents \cup {Nil})
  BY DEF TypeOK, Writers
<1>2. Elements(a) = Elements(writer.batch) \cup {i}
  BY <1>1, AppendFacts
<1> HIDE DEF a
<1>3. \/ writer'.pc = "panicked"
      \/ writer'.batch = a
      \/ writer'.todo = a /\ Nil \notin Elements(a)
  BY CollectFacts DEF a
<1>. QED BY <1>2, <1>3 DEF Batched, InFlush

LEMMA PollingKeeps ==
    ASSUME Typed, Polling
    PROVE  \/ writer'.pc \in {"stopped", "panicked"}
           \/ Queued \cup Batched \cup InFlush \subseteq Queued' \cup Batched' \cup InFlush'
<1>1. /\ TypeOK /\ writer \in Writers /\ writer.todo = <<>> /\ writer.valid = <<>>
      /\ ch \in Seq(Intents) /\ prio \in Seq(Intents) /\ InFlush = {}
  BY EmptyFacts DEF Polling, TakePriority, NothingUrgent, TakeNormal, TakeNil, Tick, Done,
                    Typed, TypeOK, Stages, InFlush
<1>2. CASE TakePriority
  <2>1. /\ prio # <<>> /\ prio' = Tail(prio) /\ ch' = ch /\ Collect(Head(prio))
        /\ Head(prio) \in Intents /\ Elements(prio) = {Head(prio)} \cup Elements(prio')
    BY <1>1, <1>2, TailFacts DEF TakePriority
  <2>2. \/ writer'.pc = "panicked"
        \/ Batched \cup {Head(prio)} \subseteq Batched' \cup InFlush'
    BY <1>1, <2>1, CollectKeeps, NilAssumption
  <2>3. Queued = Elements(ch') \cup Elements(prio') \cup {Head(prio)}
    BY <2>1 DEF Queued
  <2>4. Queued' = Elements(ch') \cup Elements(prio')
    BY DEF Queued
  <2>. QED BY <1>1, <2>2, <2>3, <2>4
<1>3. CASE TakeNormal
  <2>1. /\ ch # <<>> /\ ch' = Tail(ch) /\ prio' = prio /\ Collect(Head(ch))
        /\ Head(ch) \in Intents /\ Elements(ch) = {Head(ch)} \cup Elements(ch')
    BY <1>1, <1>3, TailFacts DEF TakeNormal
  <2>2. \/ writer'.pc = "panicked"
        \/ Batched \cup {Head(ch)} \subseteq Batched' \cup InFlush'
    BY <1>1, <2>1, CollectKeeps, NilAssumption
  <2>3. Queued = Elements(ch') \cup Elements(prio') \cup {Head(ch)}
    BY <2>1 DEF Queued
  <2>4. Queued' = Elements(ch') \cup Elements(prio')
    BY DEF Queued
  <2>. QED BY <1>1, <2>2, <2>3, <2>4
<1>4. CASE TakeNil
  <2>1. Queued' = Queued /\ Collect(Nil)
    BY <1>4 DEF TakeNil, Queued
  <2>2. writer'.pc = "panicked" \/ Batched \subseteq Batched' \cup InFlush'
    BY <1>1, <2>1, CollectKeeps
  <2>. QED BY <1>1, <2>1, <2>2
<1>5. CASE Tick \/ Done
  <2>1. Queued' = Queued
    BY <1>5 DEF Tick, Done, Queued
  <2>2. PICK last \in BOOLEAN : writer' = Flush(writer, last)
    BY <1>5 DEF Tick, Done
  <2>3. \/ writer.batch = <<>> /\ writer'.batch = <<>>
        \/ writer'.pc = "panicked"
        \/ writer'.todo = writer.batch /\ Nil \notin Elements(writer.batch)
    BY <1>1, <2>2, FlushFacts
  <2>. QED BY <1>1, <2>1, <2>3 DEF Batched, InFlush
<1>6. CASE NothingUrgent
  <2>1. Queued' = Queued /\ writer'.batch = writer.batch
    BY <1>1, <1>6 DEF NothingUrgent, Queued, Writers
  <2>. QED BY <1>1, <2>1 DEF Batched
<1>. QED BY <1>2, <1>3, <1>4, <1>5, <1>6 DEF Polling

\* An intent leaves the flush with an answer.
LEMMA FlushingKeeps ==
    ASSUME Typed, Way, Passed, Flushing, NEW i \in InFlush, told'[i] = "none"
    PROVE  i \in InFlush'
<1>1. /\ TypeOK /\ Stages /\ Open /\ Transaction
      /\ writer \in Writers /\ writer.todo \in Seq(Intents) /\ writer.valid \in Seq(Intents)
      /\ told \in [Intents -> Answers] /\ InFlush \subseteq Intents
  BY SetTypes DEF Typed, Way, TypeOK, Writers
<1>2. CASE Verify
  <2>1. writer.todo # <<>> /\ Current \in Intents
    BY <1>1, <1>2, VerifyFacts DEF Stages, Verify
  <2>2. Elements(writer.todo) = {Current} \cup Elements(Tail(writer.todo))
    BY <1>1, <2>1, TailFacts DEF Current
  <2>3. Elements(Append(writer.valid, Current)) = Elements(writer.valid) \cup {Current}
    BY <1>1, <2>1, AppendFacts
  <2>4. Tail(writer.todo) = <<>> => Elements(Tail(writer.todo)) = {}
    BY EmptyFacts
  <2>5. CASE told' = [told EXCEPT ![Current] = "stale"] /\ writer'.valid = writer.valid
    <3>1. i # Current
      BY <1>1, <2>5
    <3>2. writer'.todo = Tail(writer.todo) \/ Tail(writer.todo) = <<>>
      BY <1>1, <1>2, <2>5, <2>3, VerifyFacts
    <3>. QED BY <2>2, <2>4, <2>5, <3>1, <3>2 DEF InFlush
  <2>6. CASE writer'.valid = Append(writer.valid, Current)
    <3>1. writer'.todo = writer.todo \/ writer'.todo = Tail(writer.todo) \/ Tail(writer.todo) = <<>>
      BY <1>1, <1>2, <2>6, VerifyFacts
    <3>. QED BY <2>2, <2>3, <2>4, <2>6, <3>1 DEF InFlush
  <2>. QED BY <1>1, <1>2, <2>5, <2>6, VerifyFacts
<1>3. CASE Recheck
  <2>1. writer.todo # <<>> /\ Current \in Elements(writer.valid)
    BY <1>1, <1>3 DEF Stages, Passed, Recheck
  <2>2. Elements(writer.todo) = {Current} \cup Elements(Tail(writer.todo))
    BY <1>1, <2>1, TailFacts DEF Current
  <2>3. /\ writer'.valid = writer.valid
        /\ writer'.todo = Tail(writer.todo) \/ Tail(writer.todo) = <<>>
    BY <1>1, <1>3, RecheckFacts
  <2>. QED BY <2>1, <2>2, <2>3, EmptyFacts DEF InFlush
<1>4. CASE Begin
  <2>1. writer.todo = writer.valid
    BY <1>1, <1>4, BeginFacts
  <2>2. CASE writer.valid = <<>>
    <3>1. InFlush = {}
      BY <2>1, <2>2, EmptyFacts DEF InFlush
    <3>. QED BY <3>1
  <2>3. CASE writer'.todo = writer.todo /\ writer'.valid = writer.valid
    BY <2>3 DEF InFlush
  <2>. QED BY <1>1, <1>4, <2>2, <2>3, BeginFacts
<1>5. CASE Execute
  <2>1. /\ Elements(writer.todo) \subseteq Elements(writer.valid)
        /\ writer'.valid = writer.valid
    BY <1>1, <1>5, NextStatement DEF Transaction
  <2>. QED BY <2>1 DEF InFlush
<1>6. CASE Fault \/ Reject \/ Commit
  <2>1. i \in Elements(writer.valid)
    <3>1. writer.pc \in {"begin", "execute"}
      BY <1>6 DEF Fault, Reject, Commit
    <3>. QED BY <1>1, <3>1 DEF Stages, Transaction, InFlush
  <2>2. told'[i] # "none"
    BY <1>1, <1>6, <2>1 DEF Fault, Reject, FailAll, Commit
  <2>. QED BY <2>2
<1>. QED BY <1>2, <1>3, <1>4, <1>5, <1>6 DEF Flushing

LEMMA LostGrows ==
    ASSUME TypeOK, Stages, [Next]_vars
    PROVE  \/ writer'.lost \subseteq writer.lost
           \/ Recheck /\ LeaseLost /\ writer'.lost \subseteq writer.lost \cup {Current[1]}
<1>1. writer \in Writers
  BY DEF TypeOK
<1>2. \A w \in Writers, last \in BOOLEAN : Flush(w, last).lost \subseteq w.lost
  BY DEF Flush, Writers
<1>3. \A w \in Writers : ToBegin(w).lost = w.lost
  BY DEF ToBegin, Writers
<1>4. EndOfFlush.lost = writer.lost
  BY <1>1 DEF EndOfFlush, Writers
<1>5. ASSUME NEW i \in Intents \cup {Nil}, Collect(i) PROVE writer'.lost \subseteq writer.lost
  <2> DEFINE w == [writer EXCEPT !.batch = Append(@, i), !.pc = "poll"]
  <2>1. Append(writer.batch, i) \in Seq(Intents \cup {Nil})
    BY <1>1, AppendFacts DEF Writers
  <2>2. w \in Writers /\ w.lost = writer.lost
    BY <1>1, <2>1 DEF Writers
  <2>3. writer' = Flush(w, FALSE) \/ writer' = w
    BY <1>5 DEF Collect
  <2> HIDE DEF w
  <2>. QED BY <1>2, <2>2, <2>3
<1>6. CASE Polling
  <2>1. CASE TakePriority
    <3>1. Head(prio) \in Intents /\ Collect(Head(prio))
      BY <2>1, TailFacts DEF TakePriority, TypeOK
    <3>. QED BY <1>5, <3>1
  <2>2. CASE TakeNormal
    <3>1. Head(ch) \in Intents /\ Collect(Head(ch))
      BY <2>2, TailFacts DEF TakeNormal, TypeOK
    <3>. QED BY <1>5, <3>1
  <2>3. CASE TakeNil
    BY <1>5, <2>3 DEF TakeNil
  <2>4. CASE Tick \/ Done
    BY <1>1, <1>2, <2>4 DEF Tick, Done
  <2>5. CASE NothingUrgent
    BY <1>1, <2>5 DEF NothingUrgent, Writers
  <2>. QED BY <1>6, <2>1, <2>2, <2>3, <2>4, <2>5 DEF Polling
<1>7. CASE Verify
  <2> DEFINE rest == [writer EXCEPT !.todo = Tail(@)]
             pass == [rest EXCEPT !.valid = Append(@, Current)]
             again == [writer EXCEPT !.pc = "recheck", !.valid = Append(@, Current)]
  <2>1. /\ writer.todo \in Seq(Intents) /\ writer.todo # <<>> /\ writer.valid \in Seq(Intents)
        /\ Current \in Intents
    BY <1>1, <1>7, VerifyFacts DEF Verify, Stages, Writers
  <2>2. Tail(writer.todo) \in Seq(Intents) /\ Append(writer.valid, Current) \in Seq(Intents)
    BY <2>1, TailFacts, AppendFacts
  <2>3. rest \in Writers /\ rest.lost = writer.lost
    BY <1>1, <2>2 DEF Writers
  <2>4. pass \in Writers /\ pass.lost = writer.lost
    BY <1>1, <2>2 DEF Writers
  <2>5. again.lost = writer.lost
    BY <1>1 DEF Writers
  <2>6. writer' = ToBegin(rest) \/ writer' = again \/ writer' = ToBegin(pass)
    BY <1>7 DEF Verify
  <2> HIDE DEF rest, pass, again
  <2>. QED BY <1>3, <2>3, <2>4, <2>5, <2>6
<1>8. CASE Recheck
  <2> DEFINE w == [writer EXCEPT
                     !.todo = Tail(@),
                     !.lost = IF LeaseLost THEN @ \cup {Current[1]} ELSE @]
  <2>1. /\ writer.todo \in Seq(Intents) /\ writer.todo # <<>>
    BY <1>1, <1>8 DEF Recheck, Stages, Writers
  <2>2. Tail(writer.todo) \in Seq(Intents) /\ Current \in Intents /\ Current[1] \in Callers
    BY <2>1, TailFacts, IntentTypes DEF Current
  <2>3. /\ w \in Writers
        /\ w.lost = IF LeaseLost THEN writer.lost \cup {Current[1]} ELSE writer.lost
    BY <1>1, <2>2 DEF Writers
  <2>4. writer' = ToBegin(w)
    BY <1>8 DEF Recheck
  <2> HIDE DEF w
  <2>. QED BY <1>3, <1>8, <2>3, <2>4
<1>9. CASE Begin \/ Execute
  <2>1. \/ writer' = EndOfFlush \/ writer' = [writer EXCEPT !.pc = "execute"]
        \/ writer' = [writer EXCEPT !.todo = Tail(@)]
    BY <1>9 DEF Begin, Execute
  <2>. QED BY <1>1, <1>4, <2>1 DEF Writers
<1>10. CASE Fault \/ Reject \/ Commit
  BY <1>4, <1>10 DEF Fault, Reject, FailAll, Commit
<1>11. CASE (\E c \in Callers : Submit(c)) \/ Around \/ UNCHANGED vars
  BY <1>11 DEF Submit, Enqueue, Around, LoseLease, Cancel, Close, vars
<1>. QED BY <1>6, <1>7, <1>8, <1>9, <1>10, <1>11, NextCases DEF Flushing

LEMMA LogInvStep ==
    ASSUME Inv, LogInv, [Next]_vars
    PROVE  LogInv'
<1>1. /\ Typed /\ TypeOK /\ Stages /\ Way /\ Channels /\ Open
      /\ NoneLost /\ Passed /\ LostGroups /\ Lawful(db) /\ Lawful(tx.store) /\ Continues
      /\ writer \in Writers
  BY DEF Inv, Typed, Way, LogInv, TypeOK
<1>2. LostGroups'
  <2>1. CASE writer'.lost \subseteq writer.lost
    BY <1>1, <2>1 DEF LostGroups
  <2>2. CASE Recheck /\ LeaseLost /\ writer'.lost \subseteq writer.lost \cup {Current[1]}
    <3>1. Current \in Intents
      BY <1>1, <2>2, TailFacts DEF Recheck, Stages, Writers, Current
    <3>2. /\ Current[1] \in Composite /\ Current[2] \in DOMAIN Program[Current[1]]
          /\ Program[Current[1]][Current[2]].task # NoTask
      BY <1>1, <2>2, <3>1, IntentTypes DEF Recheck, Passed, Grouped, LeaseLost, Req
    <3>. QED BY <1>1, <2>2, <3>2 DEF LostGroups
  <2>. QED BY <1>1, <2>1, <2>2, LostGrows
<1>3. CASE \E c \in Callers : Submit(c)
  <2>1. PICK c \in Callers : Submit(c)
    BY <1>3
  <2>2. /\ UNCHANGED <<writer, tx, db, told>>
        /\ InFlush' = InFlush /\ Batched' = Batched
    BY <2>1 DEF Submit, Enqueue, InFlush, Batched
  <2>3. /\ OnChannels(accepted') = OnChannels(accepted) \cup {NextIntent(c)}
        /\ Queued' = Queued \cup {NextIntent(c)}
    BY <1>1, <2>1, ChannelGrows DEF Queued
  <2>4. NoneLost'
    BY <1>1, <2>2, <2>3 DEF NoneLost
  <2>. QED BY <1>1, <1>2, <2>2, <2>4 DEF LogInv, Passed, Lawful, Continues, Grouped, Current
<1>4. CASE Around \/ UNCHANGED vars
  <2>1. UNCHANGED <<accepted, ch, prio, writer, tx, db, told>>
    BY <1>4 DEF Around, LoseLease, Cancel, Close, vars
  <2>2. /\ Queued' = Queued /\ InFlush' = InFlush /\ Batched' = Batched
    BY <2>1 DEF Queued, InFlush, Batched
  <2>3. NoneLost'
    BY <1>1, <2>1, <2>2 DEF NoneLost
  <2>. QED BY <1>1, <1>2, <2>1, <2>3 DEF LogInv, Passed, Lawful, Continues, Grouped, Current
<1>5. CASE Polling
  <2>1. UNCHANGED <<accepted, tx, db, told>> /\ writer.pc \in {"poll", "wait"}
    BY <1>5 DEF Polling, TakePriority, NothingUrgent, TakeNormal, TakeNil, Tick, Done, WriterOnly
  <2>2. NoneLost'
    BY <1>1, <1>5, <2>1, PollingKeeps DEF NoneLost
  <2>3. writer'.pc \notin {"recheck", "execute"}
    <3>1. \A w \in Writers, last \in BOOLEAN : w.todo = <<>> /\ w.valid = <<>> =>
              Flush(w, last).pc \notin {"recheck", "execute"}
      BY FlushFacts
    <3>2. writer.todo = <<>> /\ writer.valid = <<>>
      BY <1>1, <2>1 DEF Stages
    <3>3. CASE Tick \/ Done
      BY <1>1, <3>1, <3>2, <3>3 DEF Tick, Done
    <3>4. CASE NothingUrgent
      BY <1>1, <3>4 DEF NothingUrgent, Writers
    <3>5. CASE TakePriority
      <4>1. Head(prio) \in Intents /\ Collect(Head(prio))
        BY <1>1, <3>5, TailFacts DEF TakePriority, TypeOK
      <4>. QED BY <1>1, <3>2, <4>1, CollectFacts
    <3>6. CASE TakeNormal
      <4>1. Head(ch) \in Intents /\ Collect(Head(ch))
        BY <1>1, <3>6, TailFacts DEF TakeNormal, TypeOK
      <4>. QED BY <1>1, <3>2, <4>1, CollectFacts
    <3>7. CASE TakeNil
      BY <1>1, <3>2, <3>7, CollectFacts DEF TakeNil
    <3>. QED BY <1>5, <3>3, <3>4, <3>5, <3>6, <3>7 DEF Polling
  <2>. QED BY <1>1, <1>2, <2>1, <2>2, <2>3 DEF LogInv, Passed, Lawful, Continues
<1>6. CASE Flushing
  <2>1. UNCHANGED <<accepted, ch, prio>>
    BY <1>6 DEF Flushing, Verify, Recheck, Begin, Fault, Execute, Reject, Commit, FlushOnly
  <2>2. Queued' = Queued /\ Batched = {} /\ writer.pc \notin {"stopped", "panicked"}
    <3>1. writer.pc \in {"verify", "recheck", "begin", "execute"}
      BY <1>6 DEF Flushing, Verify, Recheck, Begin, Fault, Execute, Reject, Commit
    <3>. QED BY <1>1, <2>1, <3>1, EmptyFacts DEF Queued, Batched, Stages
  <2>3. NoneLost'
    <3>1. SUFFICES ASSUME NEW i \in OnChannels(accepted), told'[i] = "none"
                   PROVE  i \in Queued' \cup InFlush'
      BY <2>1 DEF NoneLost
    <3>2. told[i] = "none"
      <4>1. i \in Intents
        BY <1>1, SetTypes
      <4>2. told[i] # "none" => told'[i] = told[i]
        BY <4>1, AnswerStays
      <4>. QED BY <3>1, <4>2
    <3>3. i \in Queued \cup InFlush
      BY <1>1, <2>2, <3>1, <3>2 DEF NoneLost
    <3>. QED BY <1>1, <1>6, <2>2, <3>1, <3>3, FlushingKeeps
  <2>4. CASE Verify
    <3>1. UNCHANGED <<tx, db>> /\ writer'.pc \in {"verify", "recheck", "begin"}
      BY <1>1, <2>4, VerifyFacts DEF Verify
    <3>2. Passed'
      <4>1. SUFFICES ASSUME writer'.pc = "recheck" PROVE Passed'
        BY DEF Passed
      <4>2. /\ writer'.valid = Append(writer.valid, Current) /\ writer'.todo = writer.todo
            /\ Current \in Intents /\ writer.valid \in Seq(Intents)
        BY <1>1, <2>4, <4>1, VerifyFacts DEF Writers
      <4>3. Current' = Current /\ Current \in Elements(writer'.valid)
        BY <4>2, AppendFacts DEF Current
      <4>4. Grouped
        BY <1>1, <2>4, <4>1, VerifyFacts
      <4>. QED BY <4>3, <4>4 DEF Passed, Grouped
    <3>. QED BY <1>1, <1>2, <2>3, <3>1, <3>2 DEF LogInv, Lawful, Continues
  <2>5. CASE Recheck
    <3>1. UNCHANGED <<tx, db>> /\ writer'.pc \in {"verify", "begin"}
      BY <1>1, <2>5, RecheckFacts DEF Recheck
    <3>. QED BY <1>1, <1>2, <2>3, <3>1 DEF LogInv, Passed, Lawful, Continues
  <2>6. CASE Begin
    <3>1. db' = db
      BY <2>6 DEF Begin
    <3>2. CASE writer' = EndOfFlush /\ UNCHANGED tx
      <4>1. writer'.pc \in {"stopped", "poll"}
        BY <1>1, <3>2, EndFacts
      <4>. QED BY <1>1, <1>2, <2>3, <3>1, <3>2, <4>1 DEF LogInv, Passed, Lawful, Continues
    <3>3. CASE writer'.pc = "execute" /\ tx' = [store |-> db, stale |-> {}]
      <4>1. tx'.store = db /\ tx'.stale = {}
        BY <3>3
      <4>2. Len(db.done) <= Len(db.done)
        BY <1>1, StoreTypes DEF TypeOK
      <4>3. Continues'
        BY <3>1, <4>1, <4>2 DEF Continues, LongerThan
      <4>. QED BY <1>1, <1>2, <2>3, <3>1, <3>3, <4>1, <4>3 DEF LogInv, Passed, Lawful
    <3>. QED BY <1>1, <2>6, <3>2, <3>3, BeginFacts
  <2>7. CASE Execute
    <3>1. db' = db /\ writer'.pc = "execute"
      BY <1>1, <2>7, NextStatement
    <3>2. Continues' /\ Lawful(tx'.store)
      BY <1>1, <2>7, ContinuesOn
    <3>. QED BY <1>1, <1>2, <2>3, <3>1, <3>2 DEF LogInv, Passed, Lawful
  <2>8. CASE Fault \/ Reject
    <3>1. /\ db' = db /\ tx'.store = db /\ writer'.pc \in {"stopped", "poll"}
      BY <1>1, <2>8, FailFacts, EndFacts
    <3>. QED BY <1>1, <1>2, <2>3, <3>1 DEF LogInv, Passed, Lawful, Continues
  <2>9. CASE Commit
    <3>1. /\ db' = tx.store /\ tx'.store = tx.store /\ writer'.pc \in {"stopped", "poll"}
      BY <1>1, <2>9, CommitFacts, EndFacts
    <3>. QED BY <1>1, <1>2, <2>3, <3>1 DEF LogInv, Passed, Lawful, Continues
  <2>. QED BY <1>6, <2>4, <2>5, <2>6, <2>7, <2>8, <2>9 DEF Flushing
<1>. QED BY <1>3, <1>4, <1>5, <1>6, NextCases

LEMMA LogInvAlways == Spec => [](Inv /\ LogInv)
<1>1. Init => LogInv
  <2>1. SUFFICES ASSUME Init PROVE LogInv
    OBVIOUS
  <2>2. /\ accepted.ch = <<>> /\ accepted.prio = <<>> /\ writer.pc = "poll" /\ writer.lost = {}
        /\ db.done = <<>> /\ db.table = [k \in Keys |-> NoRow] /\ tx.store = db
    BY <2>1 DEF Init, EmptyStore
  <2>3. OnChannels(accepted) = {}
    BY <2>2, EmptyFacts DEF OnChannels
  <2>4. \A k : Log!Stands(<<>>, 0, k) = {NoRow}
    <3>1. \A k : Log!Rewriters(<<>>, 0, k) = {}
      BY DEF Log!Rewriters
    <3>. QED BY <3>1 DEF Log!Stands
  <2>5. Lawful(db)
    <3>1. DOMAIN db.done = {} /\ Len(db.done) = 0 /\ \A k \in Keys : db.table[k] = NoRow
      BY <2>2
    <3>. QED BY <2>2, <2>4, <3>1 DEF Lawful
  <2>. QED BY <2>2, <2>3, <2>5 DEF LogInv, NoneLost, Passed, LostGroups, Continues
<1>2. Inv /\ LogInv /\ [Next]_vars => LogInv'
  BY LogInvStep
<1>. QED BY <1>1, <1>2, SpecInv, PTL DEF Spec

\* What is accepted, in terms of the log.
LEMMA LogSees ==
    ASSUME Inv
    PROVE  /\ Log!Pending = {i \in OnChannels(accepted) : told[i] = "none"}
           /\ Log!Pending \subseteq Intents /\ InFlush \subseteq Log!Pending
           /\ \A i, j : Log!Earlier(i, j) => NotLater(accepted, i, j) /\ i # j
           /\ Log!Members(db.done) = Written
<1>1. /\ Typed /\ TypeOK /\ Channels /\ Open
      /\ accepted.ch \in Seq(Intents) /\ accepted.prio \in Seq(Intents)
  BY DEF Inv, Typed, Way, TypeOK
<1>2. Log!Pending = {i \in OnChannels(accepted) : told[i] = "none"}
  BY DEF Log!Pending, Log!Members, OnChannels, Elements
<1>3. Log!Pending \subseteq Intents /\ InFlush \subseteq Log!Pending
  BY <1>1, <1>2, SetTypes DEF Open
<1>4. ASSUME NEW i, NEW j, Log!Earlier(i, j) PROVE NotLater(accepted, i, j) /\ i # j
  <2>1. PICK s \in {accepted.ch, accepted.prio} :
            \E p, q \in DOMAIN s : p < q /\ s[p] = i /\ s[q] = j
    BY <1>4 DEF Log!Earlier
  <2>2. PICK p \in DOMAIN s, q \in DOMAIN s : p < q /\ s[p] = i /\ s[q] = j
    BY <2>1
  <2>3. p \in Nat /\ q \in Nat /\ InOrder(accepted, s)
    BY <1>1, <2>1, <2>2 DEF Channels
  <2>4. NotLater(accepted, i, j)
    BY <2>1, <2>2, <2>3 DEF NotLater
  <2>5. i # j
    BY <2>2, <2>3, <2>4 DEF InOrder
  <2>. QED BY <2>4, <2>5
<1>. QED BY <1>2, <1>3, <1>4 DEF Log!Members, Written, Elements

LEMMA SubmitIsAccept ==
    ASSUME Inv, NEW c \in Callers, Submit(c)
    PROVE  Log!Accept(NextIntent(c)) /\ NextIntent(c) \in Intents
<1> DEFINE i == NextIntent(c)
<1>1. /\ i \in Intents /\ i \notin OnChannels(accepted)
      /\ accepted \in [ch : Seq(Intents), prio : Seq(Intents)]
  BY ChannelGrows DEF Inv, Typed, Way, TypeOK
<1>2. i \notin Log!Members(accepted.ch) \cup Log!Members(accepted.prio)
  BY <1>1 DEF Log!Members, OnChannels, Elements
<1>3. UNCHANGED <<told, db>>
  BY DEF Submit, Enqueue
<1>4. IF Req(i).flush
      THEN /\ accepted'.prio = Append(accepted.prio, i) /\ accepted'.ch = accepted.ch
      ELSE /\ accepted'.ch = Append(accepted.ch, i) /\ accepted'.prio = accepted.prio
  BY <1>1 DEF Submit, Enqueue
<1> HIDE DEF i
<1>. QED BY <1>1, <1>2, <1>3, <1>4 DEF Log!Accept, i

LEMMA VerifyIsTurnDown ==
    ASSUME Inv, Verify, told' # told
    PROVE  Log!TurnDown(Current) /\ Current \in Intents
<1>1. /\ TypeOK /\ Stages /\ Current \in Intents /\ Current \in InFlush
      /\ UNCHANGED <<accepted, db>>
  <2>1. TypeOK /\ Stages
    BY DEF Inv, Typed
  <2>. QED BY <2>1, VerifyFacts, TailFacts DEF Verify, Stages, TypeOK, Writers, Current, InFlush,
                                              FlushOnly
<1>2. LeaseLost /\ told' = [told EXCEPT ![Current] = "stale"]
  BY DEF Verify
<1>3. Current \in Leased
  BY <1>1, <1>2 DEF LeaseLost, Leased
<1>. QED BY <1>1, <1>2, <1>3, LogSees DEF Log!TurnDown

LEMMA FailIsTogether ==
    ASSUME Inv, Fault \/ Reject
    PROVE  \E S \in SUBSET Intents : Log!FailTogether(S)
<1> DEFINE S == Elements(writer.valid)
<1>1. TypeOK /\ Stages
  BY DEF Inv, Typed
<1>2. /\ told' = [i \in Intents |-> IF i \in S THEN "failed" ELSE told[i]]
      /\ UNCHANGED <<accepted, db>>
  BY <1>1, FailFacts DEF FailAll
<1>3. S \subseteq Log!Pending /\ S \subseteq Intents
  BY LogSees DEF InFlush
<1> HIDE DEF S
<1>4. Log!FailTogether(S)
  BY <1>2, <1>3 DEF Log!FailTogether
<1>. QED BY <1>3, <1>4

LEMMA CommitIsAddBatch ==
    ASSUME Inv, LogInv, Commit
    PROVE  Log!AddBatch
<1> DEFINE h == db.done
           g == db'.done
<1>1. /\ Typed /\ Way /\ TypeOK /\ Stages /\ Open /\ Overtaken /\ Channels
      /\ NoneLost /\ Lawful(tx.store) /\ Continues
      /\ accepted \in [ch : Seq(Intents), prio : Seq(Intents)] /\ tx.store \in Stores
      /\ writer \in Writers
  BY DEF Inv, Typed, Way, LogInv, TypeOK
<1>2. /\ accepted' = accepted /\ writer.pc = "execute" /\ writer.batch = <<>> /\ writer.todo = <<>>
      /\ db' = tx.store
      /\ told' = [i \in Intents |->
                    IF i \in tx.stale THEN "stale"
                    ELSE IF i \in Elements(writer.valid) THEN "ok" ELSE told[i]]
  BY <1>1, CommitFacts
<1>3. /\ InFlush = Elements(writer.valid) /\ Batched = {} /\ Elements(writer.todo) = {}
  BY <1>2, EmptyFacts DEF InFlush, Batched
<1>4. /\ h \in Seq(Intents) /\ g \in Seq(Intents) /\ g = tx.store.done
      /\ LongerThan(h, g)
      /\ Elements(g) = Written \cup (InFlush \ tx.stale) /\ tx.stale \subseteq InFlush
      /\ InOrder(accepted, g)
      /\ \A i \in tx.stale : i \in Leased \/ \E n \in Len(h) .. Len(g) : Log!Outdated(i, g, n)
  <2>1. h \in Seq(Intents) /\ g \in Seq(Intents) /\ g = tx.store.done /\ db.done = h
    BY <1>1, <1>2, StoreTypes DEF TypeOK
  <2>2. /\ LongerThan(h, tx.store.done)
        /\ \A i \in tx.stale : i \in Leased \/ \E n \in Len(h) .. Len(tx.store.done) :
                                                  Log!Outdated(i, tx.store.done, n)
    BY <1>1, <1>2 DEF Continues
  <2>3. /\ Elements(tx.store.done) = Written \cup (InFlush \ tx.stale)
        /\ tx.stale \subseteq InFlush /\ InOrder(accepted, tx.store.done)
    BY <1>1, <1>2, <1>3 DEF Way, Transaction
  <2> HIDE DEF h, g
  <2>. QED BY <2>1, <2>2, <2>3
<1>5. /\ InFlush \subseteq Log!Pending /\ Log!Pending \subseteq Intents
      /\ InFlush \subseteq OnChannels(accepted) /\ Written \subseteq OnChannels(accepted)
      /\ InFlush \cap Written = {}
      /\ Written = Elements(h) /\ Log!Members(h) = Elements(h) /\ Log!Members(g) = Elements(g)
  BY <1>1, LogSees, Apart DEF Open, Written, Log!Members, Elements
<1>6. /\ Len(h) \in Nat /\ Len(g) \in Nat /\ Len(h) <= Len(g)
      /\ DOMAIN h = 1 .. Len(h) /\ DOMAIN g = 1 .. Len(g)
      /\ \A n \in 1 .. Len(h) : g[n] = h[n]
  BY <1>4 DEF LongerThan
<1> HIDE DEF h, g
\* What is in the batch and waits in a lane that one of the batch is in was
\* accepted later.
<1>7. ASSUME NEW n \in Len(h) + 1 .. Len(g) PROVE Log!Follows(n)
  <2>1. n \in DOMAIN g /\ g[n] \in Elements(g)
    BY <1>6 DEF Elements
  <2>2. g[n] \in OnChannels(accepted)
    BY <1>4, <1>5, <2>1
  <2>3. \A m \in DOMAIN g : g[m] = g[n] => n <= m
    BY <1>1, <1>4, <2>1, <2>2, Reflexive DEF InOrder
  <2>4. g[n] \notin Written
    <3>1. SUFFICES ASSUME NEW m \in DOMAIN h, h[m] = g[n] PROVE FALSE
      BY <1>5 DEF Elements
    <3>2. m \in DOMAIN g /\ g[m] = g[n] /\ m < n
      BY <1>6, <3>1
    <3>. QED BY <1>6, <2>3, <3>2
  <2>5. g[n] \in InFlush /\ g[n] \in Log!Pending
    BY <1>4, <1>5, <2>1, <2>4
  <2>6. Log!Fits(g[n], g, n - 1)
    BY <1>1, <1>4, <2>1 DEF Lawful
  <2>7. \A m \in 1 .. n - 1 : g[m] # g[n]
    BY <1>6, <2>3
  <2>8. ASSUME NEW i \in Log!Pending, Log!Earlier(i, g[n])
        PROVE  told'[i] # "none" /\ \A m \in DOMAIN g : g[m] = i => m < n
    <3>1. NotLater(accepted, i, g[n]) /\ i # g[n]
      BY <2>8, LogSees
    <3>2. i \in InFlush
      <4>1. i \in Queued \cup InFlush
        BY <1>1, <1>2, <1>3, <2>8, LogSees DEF NoneLost
      <4>2. i \notin Queued
        BY <1>1, <2>5, <3>1 DEF Overtaken, Ahead
      <4>. QED BY <4>1, <4>2
    <3>3. told'[i] # "none"
      BY <1>2, <1>3, <1>5, <2>8, <3>2
    <3>4. \A m \in DOMAIN g : g[m] = i => m < n
      BY <1>4, <1>6, <2>1, <3>1 DEF InOrder
    <3>. QED BY <3>3, <3>4
  <2>. QED BY <2>5, <2>6, <2>7, <2>8 DEF Log!Follows, g
<1>8. ASSUME NEW i \in Intents
      PROVE  IF i \in Log!Members(g) \ Log!Members(h) THEN told'[i] = "ok"
             ELSE \/ told'[i] = told[i]
                  \/ /\ i \in Log!Pending /\ told'[i] = "stale"
                     /\ \/ i \in Leased
                        \/ \E n \in Len(h) .. Len(g) : Log!Outdated(i, g, n)
  <2>1. i \in Log!Members(g) \ Log!Members(h) <=> i \in InFlush \ tx.stale
    BY <1>4, <1>5
  <2>2. CASE i \in tx.stale
    BY <1>2, <1>4, <1>5, <2>1, <2>2
  <2>3. CASE i \notin tx.stale
    BY <1>2, <1>3, <2>1, <2>3
  <2>. QED BY <2>2, <2>3
<1>9. \A k \in Keys : db'.table[k] \in Log!Stands(g, Len(g), k)
  BY <1>1, <1>2, <1>4 DEF Lawful
<1>10. /\ db'.done \in Seq(Intents) /\ Len(db.done) <= Len(db'.done)
       /\ \A n \in 1 .. Len(db.done) : db'.done[n] = db.done[n]
       /\ \A n \in Len(db.done) + 1 .. Len(db'.done) : Log!Follows(n)
       /\ \A k \in Keys : db'.table[k] \in Log!Stands(db'.done, Len(db'.done), k)
       /\ \A i \in Intents :
              IF i \in Log!Members(db'.done) \ Log!Members(db.done) THEN told'[i] = "ok"
              ELSE \/ told'[i] = told[i]
                   \/ /\ i \in Log!Pending /\ told'[i] = "stale"
                      /\ \/ i \in Leased
                         \/ \E n \in Len(db.done) .. Len(db'.done) :
                                Log!Outdated(i, db'.done, n)
  BY <1>4, <1>6, <1>7, <1>8, <1>9 DEF h, g
<1>. QED BY <1>2, <1>10 DEF Log!AddBatch, Leased

\* The bus implements the log: a commit adds a batch to the history, whatever
\* was checked, dropped, failed or rolled back before it, and no other step
\* does anything but accept an intent or answer one that has no effect.
THEOREM ImplementsLog == Spec => LogRefinement
<1>1. Init => Log!LogInit
  BY DEF Init, EmptyStore, Log!LogInit
<1>2. Inv /\ LogInv /\ [Next]_vars => [Log!LogNext]_(Log!logVars)
  <2>1. SUFFICES ASSUME Inv, LogInv, [Next]_vars
                 PROVE  Log!LogNext \/ UNCHANGED <<accepted, told, db>>
    BY DEF Log!logVars
  <2>2. CASE \E c \in Callers : Submit(c)
    BY <2>1, <2>2, SubmitIsAccept DEF Log!LogNext
  <2>3. CASE Verify
    <3>1. told' = told => UNCHANGED <<accepted, told, db>>
      BY <2>3 DEF Verify, FlushOnly
    <3>. QED BY <2>1, <2>3, <3>1, VerifyIsTurnDown DEF Log!LogNext
  <2>4. CASE Fault \/ Reject
    BY <2>1, <2>4, FailIsTogether DEF Log!LogNext
  <2>5. CASE Commit
    BY <2>1, <2>5, CommitIsAddBatch DEF Log!LogNext
  <2>6. CASE Around \/ Polling \/ Recheck \/ Begin \/ Execute \/ UNCHANGED vars
    BY <2>6 DEF Around, LoseLease, Cancel, Close, Polling, TakePriority, NothingUrgent,
                TakeNormal, TakeNil, Tick, Done, WriterOnly, Recheck, Begin, Execute, FlushOnly,
                vars
  <2>. QED BY <2>1, <2>2, <2>3, <2>4, <2>5, <2>6, NextCases DEF Flushing
<1>. QED BY <1>1, <1>2, LogInvAlways, PTL DEF Spec, LogRefinement, Log!LogSpec

-----------------------------------------------------------------------------
(***************************************************************************)
(* Outbox: types.                                                          *)
(***************************************************************************)
LEMMA OutboxNumbers ==
    /\ MaxRecords \in Nat
    /\ BatchLimit \in Nat \ {0} /\ RetryLimit \in Nat \ {0} /\ MaxRetries \in Nat \ {0}
  BY OutboxAssumption

LEMMA FetchedIds ==
    ASSUME NEW c \in 0 .. MaxRecords
    PROVE  FetchBatch(c) \subseteq Ids
  BY DEF FetchBatch, Smallest

\* What a record that was processed leaves of the batch.
LEMMA ProcessedTypes ==
    ASSUME OutboxTypeOK, NEW r \in Ids, Processed(r)
    PROVE  /\ worker' \in Workers
           /\ worker'.cursor = worker.cursor
           /\ worker'.todo = worker.todo \ {r}
           /\ worker'.max = IF r > worker.max THEN r ELSE worker.max
           /\ worker'.pc \in {"handle", "save"}
<1>1. /\ worker.cursor \in 0 .. MaxRecords
      /\ worker.todo \in SUBSET Ids
      /\ worker.max \in 0 .. MaxRecords
      /\ worker.ok \in BOOLEAN
  BY DEF OutboxTypeOK, Workers
<1>2. worker' = [pc |-> IF worker.todo = {r} THEN "save" ELSE "handle",
                 cursor |-> worker.cursor,
                 todo |-> worker.todo \ {r},
                 max |-> IF r > worker.max THEN r ELSE worker.max,
                 ok |-> worker.ok]
  BY DEF Processed, OutboxTypeOK, Workers
<1>3. (IF r > worker.max THEN r ELSE worker.max) \in 0 .. MaxRecords
  BY <1>1 DEF Ids
<1>. QED BY <1>1, <1>2, <1>3 DEF Workers

LEMMA HandledTypes ==
    ASSUME OutboxTypeOK, NEW r \in Ids, Handle(r)
    PROVE  /\ worker' \in Workers
           /\ worker'.cursor = worker.cursor
           /\ worker'.todo = worker.todo
           /\ worker'.max = worker.max
           /\ worker'.pc = "mark"
<1>. PICK b \in BOOLEAN : worker' = [worker EXCEPT !.pc = "mark", !.ok = b]
  BY DEF Handle
<1>1. worker' = [pc |-> "mark", cursor |-> worker.cursor, todo |-> worker.todo,
                 max |-> worker.max, ok |-> b]
  BY DEF OutboxTypeOK, Workers
<1>. QED BY <1>1 DEF OutboxTypeOK, Workers

LEMMA OutboxStepTypes ==
    ASSUME OutboxTypeOK, [OutboxNext]_outboxVars
    PROVE  OutboxTypeOK'
<1>. USE OutboxNumbers DEF OutboxTypeOK, Workers, Rows, Ids
<1>1. ASSUME NEW r \in Ids, Post(r) PROVE OutboxTypeOK'
  <2>1. [rows[r] EXCEPT !.status = "pending"] \in Rows
    OBVIOUS
  <2>. QED BY <1>1, <2>1 DEF Post
<1>2. ASSUME NEW r \in Ids, BecomeDue(r) PROVE OutboxTypeOK'
  <2>1. [rows[r] EXCEPT !.due = TRUE] \in Rows
    OBVIOUS
  <2>. QED BY <1>2, <2>1 DEF BecomeDue
<1>3. ASSUME NEW r \in Ids, Handle(r) PROVE OutboxTypeOK'
  <2>1. worker' \in Workers
    BY <1>3, HandledTypes
  <2>2. tried' \in SUBSET Ids /\ delivered' \in SUBSET Ids
    BY <1>3 DEF Handle
  <2>3. failures' = failures \/ failures' = [failures EXCEPT ![r] = @ + 1]
    BY <1>3 DEF Handle
  <2>4. failures[r] + 1 \in Nat
    OBVIOUS
  <2>5. failures' \in [Ids -> Nat]
    BY <2>3, <2>4
  <2>. QED BY <1>3, <2>1, <2>2, <2>5 DEF Handle
<1>4. ASSUME NEW r \in Ids, Mark(r) PROVE OutboxTypeOK'
  <2>1. worker' \in Workers
    BY <1>4, ProcessedTypes DEF Mark
  <2>2. /\ rows[r].attempts + 1 < MaxRetries => rows[r].attempts + 1 \in 0 .. MaxRetries - 1
        /\ MaxRetries \in Nat /\ rows[r].attempts \in Nat
    OBVIOUS
  <2>3. ~LastAttempt(r) =>
          [status |-> "failed", attempts |-> rows[r].attempts + 1, due |-> FALSE] \in Rows
    BY <2>2 DEF LastAttempt
  <2>4. \/ UNCHANGED rows
        \/ /\ ~LastAttempt(r)
           /\ rows' = [rows EXCEPT ![r] = [status |-> "failed",
                                           attempts |-> rows[r].attempts + 1,
                                           due |-> FALSE]]
    BY <1>4 DEF Mark
  <2>5. rows' \in [Ids -> Rows]
    BY <2>3, <2>4
  <2>. QED BY <1>4, <2>1, <2>5 DEF Mark
<1>5. CASE Poll
  BY <1>5, FetchedIds DEF Poll
<1>6. CASE Save
  BY <1>6 DEF Save, Idle
<1>7. CASE Restart
  BY <1>7 DEF Restart, Idle
<1>8. CASE UNCHANGED outboxVars
  BY <1>8 DEF outboxVars
<1>. QED BY <1>1, <1>2, <1>3, <1>4, <1>5, <1>6, <1>7, <1>8 DEF OutboxNext

LEMMA OutboxInitTypes == OutboxInit => OutboxTypeOK
  BY OutboxNumbers DEF OutboxInit, OutboxTypeOK, Rows, Workers, Idle, Ids

\* The outbox and its worker keep their types (outbox_worker.go:16-55).
THEOREM OutboxTypeCorrect == OutboxSpec => []OutboxTypeOK
<1>1. OutboxTypeOK /\ [OutboxNext]_outboxVars => OutboxTypeOK'
  BY OutboxStepTypes
<1>. QED BY OutboxInitTypes, <1>1, PTL DEF OutboxSpec

-----------------------------------------------------------------------------
(***************************************************************************)
(* The cursor.  Records are posted without gaps, and one that is not due   *)
(* had its turn; so whatever lies below a record of the batch was tried,   *)
(* or is in the batch itself (Backed).  The batch is worked off from below *)
(* and its largest id never has an untried one under it.                   *)
(***************************************************************************)
TableInOrder ==
    /\ \A r \in Ids : rows[r].status = "failed" => r \in tried
    /\ \A r \in Ids : ~rows[r].due => rows[r].status = "failed"
    /\ \A q, r \in Ids : q < r /\ rows[r].status # "absent" => rows[q].status # "absent"

BatchInOrder ==
    /\ worker.pc \in {"idle", "save"} => worker.todo = {}
    /\ worker.cursor <= worker.max
    /\ \A r \in worker.todo : rows[r].due /\ rows[r].status # "absent"
    /\ worker.pc = "mark" => \A r \in Ids : IsNext(r) => r \in tried

Backed ==
    \A r \in worker.todo : r > worker.cursor =>
        \A q \in Ids : q < r => q \in tried \cup worker.todo

MaxTried == \A r \in Ids : r <= worker.max => r \in tried

CursorInv == TableInOrder /\ BatchInOrder /\ Backed /\ MaxTried /\ NoneSkipped

\* The first records of a set, in the order of their ids, have no other one of
\* the set below them.
LEMMA SmallestIsClosed ==
    ASSUME NEW S \in SUBSET Ids, NEW n \in Nat,
           NEW r \in Smallest(S, n), NEW q \in S, q < r
    PROVE  q \in Smallest(S, n)
<1>1. IsFiniteSet(Ids)
  BY OutboxNumbers, FS_Interval DEF Ids
<1>2. /\ IsFiniteSet({x \in S : x < r})
      /\ {x \in S : x < q} \subseteq {x \in S : x < r}
  <2>1. {x \in S : x < r} \subseteq Ids
    OBVIOUS
  <2>2. IsFiniteSet({x \in S : x < r})
    BY <1>1, <2>1, FS_Subset
  <2>3. q \in Nat /\ r \in Nat /\ \A x \in S : x \in Nat
    BY OutboxNumbers DEF Ids, Smallest
  <2>4. ASSUME NEW x \in S, x < q PROVE x < r
    <3>1. x \in Nat
      BY <2>3
    <3>. QED BY <2>3, <2>4, <3>1
  <2>. QED BY <2>2, <2>4
<1>3. Cardinality({x \in S : x < q}) <= Cardinality({x \in S : x < r})
  BY <1>2, FS_Subset
<1>4. /\ Cardinality({x \in S : x < q}) \in Nat
      /\ Cardinality({x \in S : x < r}) \in Nat
  BY <1>2, FS_Subset, FS_CardinalityType
<1>. QED BY <1>3, <1>4 DEF Smallest

\* What is below a record of a fresh batch, beyond the cursor, is in the batch
\* or was tried: records that wait for their retry are passed over.
LEMMA FetchedIsBacked ==
    ASSUME OutboxTypeOK, TableInOrder, NEW c \in 0 .. MaxRecords,
           \A r \in Ids : r <= c => r \in tried,
           NEW r \in FetchBatch(c), r > c, NEW q \in Ids, q < r
    PROVE  q \in tried \cup FetchBatch(c)
<1>. DEFINE Beyond == {x \in Ids : /\ x > c
                                   /\ rows[x].status \in {"pending", "failed"}
                                   /\ rows[x].due}
<1>1. CASE q <= c
  BY <1>1
<1>2. CASE q > c
  <2>1. r \in Smallest(Beyond, BatchLimit)
    BY DEF FetchBatch, Smallest, Ids
  <2>2. r \in Ids /\ rows[r].status # "absent"
    BY <2>1 DEF Smallest
  <2>3. rows[q].status # "absent"
    BY <2>2 DEF TableInOrder
  <2>4. rows[q].status \in {"pending", "failed"}
    BY <2>3 DEF OutboxTypeOK, Rows
  <2>5. CASE ~rows[q].due
    BY <2>5 DEF TableInOrder
  <2>6. CASE rows[q].due
    <3>1. q \in Beyond
      BY <1>2, <2>4, <2>6
    <3>2. q \in Smallest(Beyond, BatchLimit)
      BY <2>1, <3>1, SmallestIsClosed, OutboxNumbers
    <3>. QED BY <3>2 DEF FetchBatch
  <2>. QED BY <2>5, <2>6
<1>. QED BY <1>1, <1>2 DEF Ids

LEMMA FetchedIsDue ==
    ASSUME NEW c \in 0 .. MaxRecords, NEW r \in FetchBatch(c)
    PROVE  r \in Ids /\ rows[r].due /\ rows[r].status # "absent"
  BY DEF FetchBatch, Smallest

\* What the worker does next it has in its batch, and below it, beyond the
\* cursor, nothing of the batch is left.
LEMMA NextOfBatch ==
    ASSUME OutboxTypeOK, Backed, MaxTried, worker.cursor <= worker.max,
           NEW r \in Ids, IsNext(r)
    PROVE  \A q \in Ids : q < r => q \in tried
<1>. SUFFICES ASSUME NEW q \in Ids, q < r PROVE q \in tried
  OBVIOUS
<1>0. /\ worker.cursor \in Nat /\ worker.max \in Nat
      /\ r \in Nat /\ q \in Nat /\ r \in worker.todo
  BY OutboxNumbers DEF OutboxTypeOK, Workers, Ids, IsNext
<1>1. CASE q <= worker.cursor
  BY <1>0, <1>1 DEF MaxTried
<1>2. CASE q > worker.cursor
  <2>1. r > worker.cursor
    BY <1>0, <1>2
  <2>2. q \in tried \cup worker.todo
    BY <1>0, <2>1 DEF Backed
  <2>3. q \notin worker.todo
    BY <1>0, <1>2, <2>1 DEF IsNext
  <2>. QED BY <2>2, <2>3
<1>. QED BY <1>0, <1>1, <1>2

\* A step keeps the cursors in front of what was tried.
LEMMA CursorStep ==
    ASSUME OutboxTypeOK, CursorInv, [OutboxNext]_outboxVars
    PROVE  CursorInv'
<1>0. /\ worker.cursor \in 0 .. MaxRecords /\ worker.max \in 0 .. MaxRecords
      /\ worker.todo \in SUBSET Ids /\ saved \in 0 .. MaxRecords /\ MaxRecords \in Nat
      /\ \A r \in Ids : r \in Nat
  BY OutboxNumbers DEF OutboxTypeOK, Workers, Ids
<1>1. ASSUME NEW r \in Ids, Post(r) PROVE CursorInv'
  <2>1. rows' = [rows EXCEPT ![r] = [rows[r] EXCEPT !.status = "pending"]]
    BY <1>1 DEF Post
  <2>2. /\ \A q \in Ids \ {r} : rows'[q] = rows[q]
        /\ rows'[r].status = "pending" /\ rows'[r].due = rows[r].due
    BY <2>1 DEF OutboxTypeOK, Rows
  <2>3. UNCHANGED <<saved, worker, tried>>
    BY <1>1 DEF Post
  <2>4. TableInOrder'
    <3>1. \A q \in Ids : rows'[q].status = "failed" => q \in tried'
      BY <2>2, <2>3 DEF CursorInv, TableInOrder
    <3>2. \A q \in Ids : ~rows'[q].due => rows'[q].status = "failed"
      <4>1. rows[r].due
        BY <1>1 DEF Post, CursorInv, TableInOrder
      <4>. QED BY <2>2, <4>1 DEF CursorInv, TableInOrder
    <3>3. ASSUME NEW p \in Ids, NEW q \in Ids, p < q, rows'[q].status # "absent"
          PROVE  rows'[p].status # "absent"
      <4>1. CASE q = r
        <5>1. rows[p].status # "absent" /\ p # r
          BY <1>0, <1>1, <3>3, <4>1 DEF Post
        <5>. QED BY <2>2, <5>1
      <4>2. CASE q # r
        BY <2>2, <3>3, <4>2 DEF CursorInv, TableInOrder
      <4>. QED BY <4>1, <4>2
    <3>. QED BY <3>1, <3>2, <3>3 DEF TableInOrder
  <2>5. BatchInOrder'
    BY <1>0, <2>2, <2>3 DEF CursorInv, BatchInOrder, IsNext
  <2>. QED BY <2>3, <2>4, <2>5 DEF CursorInv, Backed, MaxTried, NoneSkipped
<1>2. ASSUME NEW r \in Ids, BecomeDue(r) PROVE CursorInv'
  <2>1. rows' = [rows EXCEPT ![r] = [rows[r] EXCEPT !.due = TRUE]]
    BY <1>2 DEF BecomeDue
  <2>2. /\ \A q \in Ids : rows'[q].status = rows[q].status
        /\ \A q \in Ids : rows'[q].due = (rows[q].due \/ q = r)
    BY <2>1 DEF OutboxTypeOK, Rows
  <2>3. UNCHANGED <<saved, worker, tried>>
    BY <1>2 DEF BecomeDue
  <2>4. TableInOrder'
    BY <2>2, <2>3 DEF CursorInv, TableInOrder
  <2>5. BatchInOrder'
    BY <1>0, <2>2, <2>3 DEF CursorInv, BatchInOrder, IsNext
  <2>. QED BY <2>3, <2>4, <2>5 DEF CursorInv, Backed, MaxTried, NoneSkipped
<1>3. ASSUME NEW r \in Ids, Handle(r) PROVE CursorInv'
  <2>1. /\ worker'.cursor = worker.cursor /\ worker'.todo = worker.todo
        /\ worker'.max = worker.max /\ worker'.pc = "mark"
    BY <1>3, HandledTypes
  <2>2. tried' = tried \cup {r} /\ UNCHANGED <<rows, saved>>
    BY <1>3 DEF Handle
  <2>3. TableInOrder'
    BY <2>2 DEF CursorInv, TableInOrder
  <2>4. \A q \in Ids : IsNext(q)' => q = r
    BY <1>0, <1>3, <2>1 DEF Handle, IsNext
  <2>5. BatchInOrder'
    BY <2>1, <2>2, <2>4 DEF CursorInv, BatchInOrder
  <2>. QED BY <2>1, <2>2, <2>3, <2>5 DEF CursorInv, Backed, MaxTried, NoneSkipped
<1>4. ASSUME NEW r \in Ids, Mark(r) PROVE CursorInv'
  <2>1. /\ worker'.cursor = worker.cursor
        /\ worker'.todo = worker.todo \ {r}
        /\ worker'.max = IF r > worker.max THEN r ELSE worker.max
        /\ worker'.pc = IF worker.todo = {r} THEN "save" ELSE "handle"
    BY <1>4, ProcessedTypes DEF Mark, Processed, OutboxTypeOK, Workers
  <2>2. r \in tried /\ IsNext(r)
    BY <1>4 DEF Mark, CursorInv, BatchInOrder
  <2>3. UNCHANGED <<saved, tried>>
    BY <1>4 DEF Mark
  <2>4. /\ \A q \in Ids \ {r} : rows'[q] = rows[q]
        /\ rows'[r] = rows[r] \/ rows'[r] = [status |-> "failed",
                                             attempts |-> rows[r].attempts + 1,
                                             due |-> FALSE]
    BY <1>4 DEF Mark, OutboxTypeOK
  <2>5. r \in worker.todo
    BY <2>2 DEF IsNext
  <2>6. TableInOrder'
    <3>1. rows'[r].status = "failed" \/ rows'[r] = rows[r]
      BY <2>4
    <3>2. \A q \in Ids : rows'[q].status = "failed" => q \in tried'
      BY <2>2, <2>3, <2>4 DEF CursorInv, TableInOrder
    <3>3. \A q \in Ids : ~rows'[q].due => rows'[q].status = "failed"
      BY <2>4, <3>1 DEF CursorInv, TableInOrder
    <3>4. \A q \in Ids : rows'[q].status # "absent" <=> rows[q].status # "absent"
      BY <2>4, <2>5 DEF CursorInv, BatchInOrder
    <3>. QED BY <3>2, <3>3, <3>4 DEF CursorInv, TableInOrder
  <2>7. \A q \in worker.todo \ {r} : rows'[q] = rows[q]
    BY <1>0, <2>4
  <2>8. worker'.cursor <= worker'.max
    BY <1>0, <2>1 DEF CursorInv, BatchInOrder
  <2>9. BatchInOrder'
    <3>1. worker'.pc \in {"idle", "save"} => worker'.todo = {}
      BY <2>1
    <3>2. worker'.pc # "mark"
      BY <2>1
    <3>. QED BY <2>1, <2>7, <2>8, <3>1, <3>2 DEF CursorInv, BatchInOrder
  <2>10. Backed'
    BY <2>1, <2>2, <2>3 DEF CursorInv, Backed
  <2>11. MaxTried'
    <3>1. \A q \in Ids : q < r => q \in tried
      BY <2>2, NextOfBatch DEF CursorInv, BatchInOrder
    <3>. QED BY <1>0, <2>1, <2>2, <2>3, <3>1 DEF CursorInv, MaxTried
  <2>. QED BY <2>1, <2>3, <2>6, <2>9, <2>10, <2>11 DEF CursorInv, NoneSkipped
<1>5. CASE Poll
  <2>1. /\ worker'.cursor = worker.cursor /\ worker'.max = worker.cursor
        /\ worker'.todo = FetchBatch(worker.cursor) /\ worker'.pc = "handle"
    BY <1>5 DEF Poll, OutboxTypeOK, Workers
  <2>2. UNCHANGED <<rows, saved, tried>>
    BY <1>5 DEF Poll
  <2>3. \A r \in Ids : r <= worker.cursor => r \in tried
    BY DEF CursorInv, NoneSkipped
  <2>4. TableInOrder'
    BY <2>2 DEF CursorInv, TableInOrder
  <2>5. BatchInOrder'
    BY <1>0, <2>1, <2>2, FetchedIsDue DEF BatchInOrder
  <2>6. Backed'
    BY <1>0, <2>1, <2>2, <2>3, FetchedIsBacked DEF CursorInv, Backed
  <2>7. MaxTried'
    BY <2>1, <2>2, <2>3 DEF MaxTried
  <2>. QED BY <2>1, <2>2, <2>4, <2>5, <2>6, <2>7 DEF CursorInv, NoneSkipped
<1>6. CASE Save
  <2>1. /\ worker' = Idle(worker.max) /\ saved' \in {saved, worker.max}
        /\ UNCHANGED <<rows, tried>>
    BY <1>6 DEF Save
  <2>. QED BY <1>0, <2>1 DEF CursorInv, TableInOrder, BatchInOrder, Backed, MaxTried,
                             NoneSkipped, Idle
<1>7. CASE Restart
  <2>1. worker' = Idle(saved) /\ UNCHANGED <<rows, tried, saved>>
    BY <1>7 DEF Restart
  <2>. QED BY <1>0, <2>1 DEF CursorInv, TableInOrder, BatchInOrder, Backed, MaxTried,
                             NoneSkipped, Idle
<1>8. CASE UNCHANGED outboxVars
  BY <1>8 DEF outboxVars, CursorInv, TableInOrder, BatchInOrder, IsNext, Backed, MaxTried,
              NoneSkipped
<1>. QED BY <1>1, <1>2, <1>3, <1>4, <1>5, <1>6, <1>7, <1>8 DEF OutboxNext

LEMMA CursorInit == OutboxInit => CursorInv
  BY OutboxNumbers
     DEF OutboxInit, CursorInv, TableInOrder, BatchInOrder, Backed, MaxTried, NoneSkipped,
         Idle, Ids

LEMMA CursorAlways == OutboxSpec => [](OutboxTypeOK /\ CursorInv)
<1>1. OutboxTypeOK /\ CursorInv /\ [OutboxNext]_outboxVars => CursorInv'
  BY CursorStep
<1>. QED BY OutboxTypeCorrect, CursorInit, <1>1, PTL DEF OutboxSpec

\* The cursor, in memory and in sys_config, passes no record whose handler was
\* not called, for any batch sizes, retries, lost UPDATEs and restarts
\* (outbox_worker.go:139-178).
THEOREM CursorSkipsNone == OutboxSpec => []NoneSkipped
<1>1. CursorInv => NoneSkipped
  BY DEF CursorInv
<1>. QED BY CursorAlways, <1>1, PTL

\* A record that waits for its retry is not handled before its time: what is
\* in a batch was due when it was read, and falls due no less until it is
\* marked, when it leaves the batch (outbox_worker.go:66-108, 190-206).
THEOREM RetriesAlwaysWait == OutboxSpec => RetryWaits
<1>. DEFINE Waits == \A r \in Ids : rows[r].status = "failed" /\ ~rows[r].due =>
                       failures'[r] = failures[r] /\ (r \in delivered' => r \in delivered)
<1>1. ASSUME OutboxTypeOK, CursorInv, [OutboxNext]_outboxVars PROVE Waits
  <2>1. ASSUME NEW r \in Ids, Handle(r) PROVE Waits
    <3>1. rows[r].due
      <4>1. r \in worker.todo
        BY <2>1 DEF Handle, IsNext
      <4>. QED BY <1>1, <4>1 DEF CursorInv, BatchInOrder
    <3>2. failures' = failures \/ failures' = [failures EXCEPT ![r] = @ + 1]
      BY <2>1 DEF Handle
    <3>3. delivered' = delivered \/ delivered' = delivered \cup {r}
      BY <2>1 DEF Handle
    <3>. QED BY <1>1, <3>1, <3>2, <3>3 DEF OutboxTypeOK
  <2>2. CASE UNCHANGED <<failures, delivered>>
    BY <2>2
  <2>. QED BY <1>1, <2>1, <2>2
           DEF OutboxNext, outboxVars, Post, BecomeDue, Mark, Poll, Save, Restart
<1>. QED BY CursorAlways, <1>1, PTL DEF OutboxSpec, RetryWaits
=============================================================================

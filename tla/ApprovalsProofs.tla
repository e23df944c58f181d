-------------------------- MODULE ApprovalsProofs ---------------------------
(***************************************************************************)
(* Proofs about Approvals, for any number of actions, installations,       *)
(* humans, attempts, answers and ends of the process.                      *)
(***************************************************************************)
EXTENDS Approvals, TLAPS

Prompts == Callers \X Attempts

LEMMA Constants ==
    /\ \A c \in Actions : c \notin Installs
    /\ Package \notin ActionIds
    /\ None \notin Callers /\ None \notin Prompts /\ None \notin Keys
    /\ MaxAttempts \in Nat \ {0} /\ MaxAnswers \in Nat /\ MaxEnds \in Nat
    /\ 1 \in Attempts
  BY ApprovalsAssumption DEF Keys, Prompts, Attempts

\* Ids: of an action's prompt it is the prompt itself.
LEMMA IdTypes ==
    ASSUME NEW c \in Callers, NEW n \in Attempts
    PROVE  /\ IdOf(c, n) \in Ids
           /\ c \in Actions => IdOf(c, n) = <<c, n>>
           /\ IdOf(c, n) \in ActionIds => c \in Actions /\ IdOf(c, n) = <<c, n>>
  BY Constants DEF IdOf, Ids, ActionIds, Callers

\* What the caller makes of a result.
LEMMA AfterTypes ==
    ASSUME NEW row \in Calls, NEW c \in Callers, NEW got \in {"none", "free", "approve", "refuse"},
           row.at # "wait"
    PROVE  /\ After(row, c, got) \in Calls
           /\ After(row, c, got).at \in {"idle", "over"}
           /\ c \in Actions /\ After(row, c, got).got = "approve"
              => got = "approve" /\ After(row, c, got).n = row.n
  <1>1. row.n < MaxAttempts => row.n + 1 \in Attempts
    BY Constants DEF Calls, Attempts
  <1>2. CASE c \in Installs
    <2>1. After(row, c, got) = [row EXCEPT !.at = "over"]
      BY <1>2 DEF After
    <2>. QED BY <1>2, <2>1, Constants DEF Calls
  <1>3. CASE c \notin Installs /\ got # "approve" /\ c \in live /\ row.n < MaxAttempts
    <2>1. After(row, c, got) = [row EXCEPT !.at = "idle", !.n = row.n + 1, !.got = "none"]
      BY <1>3 DEF After
    <2>. QED BY <1>1, <1>3, <2>1 DEF Calls
  <1>4. CASE c \notin Installs /\ ~(got # "approve" /\ c \in live /\ row.n < MaxAttempts)
    <2>1. After(row, c, got) = [row EXCEPT !.at = "over", !.got = got]
      BY <1>4 DEF After
    <2>. QED BY <1>4, <2>1 DEF Calls
  <1>. QED BY <1>2, <1>3, <1>4

\* The fields of a request in progress.
LEMMA RequestTypes ==
    ASSUME TypeOK, NEW h \in Humans
    PROVE  /\ human[h].at = "decide" => human[h].id \in Ids /\ human[h].seen \in Prompts
           /\ human[h].at \in {"delete", "notify", "send"}
              => human[h].id \in Ids /\ human[h].key \in Keys
  BY DEF TypeOK, Requests, Prompts

LEMMA CallTypes ==
    ASSUME TypeOK, NEW c \in Callers
    PROVE  call[c] \in Calls /\ call[c].n \in Attempts /\ Id(c) \in Ids
           /\ (c \in Actions => Id(c) = <<c, call[c].n>>)
  <1>1. call[c] \in Calls
    BY DEF TypeOK
  <1>2. call[c].n \in Attempts
    BY <1>1 DEF Calls
  <1>. QED BY <1>1, <1>2, IdTypes DEF Id

(***************************************************************************)
(* What each step of a call does to it.                                    *)
(***************************************************************************)
\* The call of c becomes row; the other calls stay.
Becomes(c, row) ==
    /\ row \in Calls
    /\ call' = [call EXCEPT ![c] = row]

LEMMA BecomesEffect ==
    ASSUME TypeOK, NEW c \in Callers, NEW row, Becomes(c, row)
    PROVE  /\ call' \in [Callers -> Calls]
           /\ call'[c] = row
           /\ \A d \in Callers \ {c} : call'[d] = call[d]
  BY DEF TypeOK, Becomes

LEMMA BeginEffect ==
    ASSUME TypeOK, NEW c \in Callers, Begin(c)
    PROVE  \E row : /\ Becomes(c, row) /\ row.at \in {"put", "over"}
                    /\ row.got = "approve" => call[c].got = "approve" /\ row.n = call[c].n
  <1>1. call[c] \in Calls
    BY CallTypes
  <1>2. CASE call' = [call EXCEPT ![c].at = "put"]
    <2>. DEFINE row == [call[c] EXCEPT !.at = "put"]
    <2>1. Becomes(c, row)
      BY <1>1, <1>2 DEF Becomes, Calls
    <2>2. row.at = "put" /\ row.got = call[c].got /\ row.n = call[c].n
      BY <1>1 DEF Calls
    <2>. QED BY <2>1, <2>2
  <1>3. ASSUME NEW mode \in Modes, NEW danger \in BOOLEAN,
               call' = [call EXCEPT ![c] =
                           IF MustAsk(mode, danger) THEN [@ EXCEPT !.at = "put"]
                           ELSE [@ EXCEPT !.at = "over", !.got = "free"]]
        PROVE  \E row : /\ Becomes(c, row) /\ row.at \in {"put", "over"}
                        /\ row.got = "approve" => call[c].got = "approve"
                                                  /\ row.n = call[c].n
    <2>1. CASE MustAsk(mode, danger)
      <3>. DEFINE row == [call[c] EXCEPT !.at = "put"]
      <3>1. Becomes(c, row)
        BY <1>1, <1>3, <2>1 DEF Becomes, Calls
      <3>2. row.at = "put" /\ row.got = call[c].got /\ row.n = call[c].n
        BY <1>1 DEF Calls
      <3>. QED BY <3>1, <3>2
    <2>2. CASE ~MustAsk(mode, danger)
      <3>. DEFINE row == [call[c] EXCEPT !.at = "over", !.got = "free"]
      <3>1. Becomes(c, row)
        BY <1>1, <1>3, <2>2 DEF Becomes, Calls
      <3>2. row.at = "over" /\ row.got = "free"
        BY <1>1 DEF Calls
      <3>. QED BY <3>1, <3>2
    <2>. QED BY <2>1, <2>2
  <1>. QED BY <1>2, <1>3 DEF Begin

LEMMA PutEffect ==
    ASSUME TypeOK, NEW c \in Callers, Put(c)
    PROVE  /\ \E row : /\ Becomes(c, row) /\ row.at \in {"register", "idle", "over"}
                       /\ row.got = "approve" /\ c \in Actions
                          => call[c].got = "approve" /\ row.n = call[c].n
           /\ pending' \in [Ids -> Prompts \cup {None}]
           /\ \A i \in Ids : pending'[i] = pending[i]
                             \/ (i = Id(c) /\ pending'[i] = <<c, call[c].n>>)
  <1>1. /\ call[c] \in Calls /\ call[c].at = "put" /\ Id(c) \in Ids
        /\ <<c, call[c].n>> \in Prompts
    BY CallTypes DEF Put, Prompts
  <1>2. CASE /\ pending' = [pending EXCEPT ![Id(c)] = <<c, call[c].n>>]
             /\ call' = [call EXCEPT ![c].at = "register"]
    <2>. DEFINE row == [call[c] EXCEPT !.at = "register"]
    <2>1. Becomes(c, row)
      BY <1>1, <1>2 DEF Becomes, Calls
    <2>2. row.at = "register" /\ row.got = call[c].got /\ row.n = call[c].n
      BY <1>1 DEF Calls
    <2>3. /\ pending' \in [Ids -> Prompts \cup {None}]
          /\ \A i \in Ids : pending'[i] = pending[i]
                            \/ (i = Id(c) /\ pending'[i] = <<c, call[c].n>>)
      BY <1>1, <1>2 DEF TypeOK, Prompts
    <2>. QED BY <2>1, <2>2, <2>3
  <1>3. CASE call' = [call EXCEPT ![c] = After(@, c, "refuse")] /\ UNCHANGED pending
    <2>. DEFINE row == After(call[c], c, "refuse")
    <2>1. /\ row \in Calls /\ row.at \in {"idle", "over"}
          /\ c \in Actions => row.got # "approve"
      BY <1>1, AfterTypes
    <2>. HIDE DEF row
    <2>2. Becomes(c, row)
      BY <1>3, <2>1 DEF Becomes, row
    <2>. QED BY <1>3, <2>1, <2>2 DEF TypeOK, Prompts
  <1>. QED BY <1>2, <1>3 DEF Put

LEMMA RegisterEffect ==
    ASSUME TypeOK, NEW c \in Callers, Register(c)
    PROVE  /\ \E row : /\ Becomes(c, row) /\ row.at = "wait"
                       /\ row.got = call[c].got /\ row.n = call[c].n
           /\ waiters' \in [Ids -> Callers \cup {None}]
           /\ waiters'[Id(c)] = c /\ \A i \in Ids \ {Id(c)} : waiters'[i] = waiters[i]
           /\ chan' \in [Callers -> Keys \cup {None}]
           /\ chan'[c] = None /\ \A d \in Callers \ {c} : chan'[d] = chan[d]
  <1>. DEFINE row == [call[c] EXCEPT !.at = "wait"]
  <1>1. call[c] \in Calls /\ Id(c) \in Ids
    BY CallTypes
  <1>2. Becomes(c, row)
    BY <1>1 DEF Becomes, Calls, Register
  <1>3. row.at = "wait" /\ row.got = call[c].got /\ row.n = call[c].n
    BY <1>1 DEF Calls
  <1>4. /\ waiters' \in [Ids -> Callers \cup {None}]
        /\ waiters'[Id(c)] = c /\ \A i \in Ids \ {Id(c)} : waiters'[i] = waiters[i]
    BY <1>1 DEF TypeOK, Register
  <1>5. /\ chan' \in [Callers -> Keys \cup {None}]
        /\ chan'[c] = None /\ \A d \in Callers \ {c} : chan'[d] = chan[d]
    BY DEF TypeOK, Register
  <1>. QED BY <1>2, <1>3, <1>4, <1>5

LEMMA SelectEffect ==
    ASSUME TypeOK, NEW c \in Callers, Select(c)
    PROVE  /\ \E row : /\ Becomes(c, row) /\ row.at = "leave" /\ row.n = call[c].n
                       /\ row.got = "approve" => chan[c] = "approve"
           /\ chan' \in [Callers -> Keys \cup {None}]
           /\ \A d \in Callers : chan'[d] \in {chan[d], None}
  <1>1. call[c] \in Calls
    BY CallTypes
  <1>2. ASSUME NEW key \in Keys,
               call' = [call EXCEPT ![c].at = "leave", ![c].got = Result(c, key)]
        PROVE  \E row : /\ Becomes(c, row) /\ row.at = "leave" /\ row.n = call[c].n
                        /\ row.got = "approve" => key = "approve"
    <2>. DEFINE row == [call[c] EXCEPT !.at = "leave", !.got = Result(c, key)]
    <2>1. /\ Result(c, key) \in {"none", "approve", "refuse"}
          /\ Result(c, key) = "approve" => key = "approve"
      BY DEF Result, Keys
    <2>2. Becomes(c, row)
      BY <1>1, <1>2, <2>1 DEF Becomes, Calls
    <2>3. row.at = "leave" /\ row.n = call[c].n /\ row.got = Result(c, key)
      BY <1>1 DEF Calls
    <2>. QED BY <2>1, <2>2, <2>3
  <1>3. CASE /\ chan[c] # None
             /\ call' = [call EXCEPT ![c].at = "leave", ![c].got = Result(c, chan[c])]
             /\ chan' = [chan EXCEPT ![c] = None]
    <2>1. chan[c] \in Keys
      BY <1>3 DEF TypeOK
    <2>2. /\ chan' \in [Callers -> Keys \cup {None}]
          /\ \A d \in Callers : chan'[d] \in {chan[d], None}
      BY <1>3 DEF TypeOK
    <2>. QED BY <1>2, <1>3, <2>1, <2>2
  <1>4. CASE /\ call' = [call EXCEPT ![c].at = "leave", ![c].got = Result(c, "deny")]
             /\ UNCHANGED chan
    BY <1>2, <1>4 DEF TypeOK, Keys
  <1>. QED BY <1>3, <1>4 DEF Select

LEMMA LeaveEffect ==
    ASSUME TypeOK, NEW c \in Callers, Leave(c)
    PROVE  /\ \E row : /\ Becomes(c, row) /\ row.at \in {"idle", "over"}
                       /\ row.got = "approve" /\ c \in Actions
                          => call[c].got = "approve" /\ row.n = call[c].n
           /\ waiters' \in [Ids -> Callers \cup {None}]
           /\ waiters'[Id(c)] = None /\ \A i \in Ids \ {Id(c)} : waiters'[i] = waiters[i]
  <1>. DEFINE row == After(call[c], c, call[c].got)
  <1>1. call[c] \in Calls /\ call[c].at = "leave" /\ Id(c) \in Ids
    BY CallTypes DEF Leave
  <1>2. /\ row \in Calls /\ row.at \in {"idle", "over"}
        /\ c \in Actions /\ row.got = "approve" => call[c].got = "approve" /\ row.n = call[c].n
    <2>1. call[c].got \in {"none", "free", "approve", "refuse"}
      BY <1>1 DEF Calls
    <2>. QED BY <1>1, <2>1, AfterTypes
  <1>. HIDE DEF row
  <1>3. Becomes(c, row)
    BY <1>2 DEF Becomes, row, Leave
  <1>4. /\ waiters' \in [Ids -> Callers \cup {None}]
        /\ waiters'[Id(c)] = None /\ \A i \in Ids \ {Id(c)} : waiters'[i] = waiters[i]
    BY <1>1 DEF TypeOK, Leave
  <1>. QED BY <1>2, <1>3, <1>4

(***************************************************************************)
(* What each step of a human does.                                         *)
(***************************************************************************)
\* The request h becomes row; the others stay.
Answers(h, row) ==
    /\ row \in Requests
    /\ human' = [human EXCEPT ![h] = row]

LEMMA AnswersEffect ==
    ASSUME TypeOK, NEW h \in Humans, NEW row, Answers(h, row)
    PROVE  /\ human' \in [Humans -> Requests]
           /\ human'[h] = row
           /\ \A g \in Humans \ {h} : human'[g] = human[g]
  BY DEF TypeOK, Answers

LEMMA IdleType == [at |-> "idle"] \in Requests
  BY DEF Requests

LEMMA LookEffect ==
    ASSUME TypeOK, NEW h \in Humans, Look(h)
    PROVE  \E row : /\ Answers(h, row) /\ row.at = "decide" /\ row.id \in Ids
                    /\ pending[row.id] # None /\ row.seen = pending[row.id]
  <1>1. PICK i \in Ids : /\ pending[i] # None
                         /\ human' = [human EXCEPT ![h] = [at |-> "decide", id |-> i,
                                                           seen |-> pending[i]]]
    BY DEF Look
  <1>. DEFINE row == [at |-> "decide", id |-> i, seen |-> pending[i]]
  <1>2. pending[i] \in Callers \X Attempts
    BY <1>1 DEF TypeOK
  <1>3. row \in Requests
    BY <1>2 DEF Requests
  <1>4. row.at = "decide" /\ row.id = i /\ row.seen = pending[i]
    OBVIOUS
  <1>5. Answers(h, row)
    BY <1>1, <1>3 DEF Answers
  <1>. HIDE DEF row
  <1>. QED BY <1>1, <1>4, <1>5

LEMMA DecideEffect ==
    ASSUME TypeOK, NEW h \in Humans, Decide(h)
    PROVE  /\ \E row : /\ Answers(h, row) /\ row.at = "delete" /\ row.id = human[h].id
                       /\ row.key = "approve" /\ human[h].seen[1] \in Actions
                          => human[h].seen \in said'
           /\ said \subseteq said' /\ said' \in SUBSET (Actions \X Attempts)
  <1>1. PICK k \in Keys :
            /\ human' = [human EXCEPT ![h] = [at |-> "delete", id |-> human[h].id,
                                              key |-> k]]
            /\ said' = IF k = "approve" /\ human[h].seen[1] \in Actions
                       THEN said \cup {human[h].seen} ELSE said
    BY DEF Decide
  <1>. DEFINE row == [at |-> "delete", id |-> human[h].id, key |-> k]
  <1>2. human[h].id \in Ids /\ human[h].seen \in Prompts
    BY RequestTypes DEF Decide
  <1>3. row \in Requests
    BY <1>2 DEF Requests
  <1>4. said' \in SUBSET (Actions \X Attempts)
    BY <1>1, <1>2 DEF TypeOK, Prompts
  <1>5. row.at = "delete" /\ row.id = human[h].id /\ row.key = k
    OBVIOUS
  <1>6. Answers(h, row)
    BY <1>1, <1>3 DEF Answers
  <1>. HIDE DEF row
  <1>7. row.key = "approve" /\ human[h].seen[1] \in Actions => human[h].seen \in said'
    BY <1>1, <1>5
  <1>. QED BY <1>1, <1>4, <1>5, <1>6, <1>7

\* The steps that follow keep the id and the key while the request lasts.
Continues(h, row) ==
    row.at = "idle" \/ (row.id = human[h].id /\ row.key = human[h].key)

LEMMA DeleteEffect ==
    ASSUME TypeOK, NEW h \in Humans, Delete(h)
    PROVE  /\ \E row : Answers(h, row) /\ row.at \in {"idle", "notify"} /\ Continues(h, row)
           /\ pending' \in [Ids -> Prompts \cup {None}]
           /\ \A i \in Ids : pending'[i] \in {pending[i], None}
  <1>1. human[h] \in Requests /\ human[h].at = "delete" /\ human[h].id \in Ids
    BY RequestTypes DEF TypeOK, Delete
  <1>2. human[h] \in [at : {"delete", "notify", "send"}, id : Ids, key : Keys]
    BY <1>1 DEF Requests
  <1>. DEFINE row == [human[h] EXCEPT !.at = "notify"]
  <1>3. row \in Requests /\ row.at = "notify" /\ Continues(h, row)
    BY <1>2 DEF Requests, Continues
  <1>. HIDE DEF row
  <1>4. CASE /\ pending' = [pending EXCEPT ![human[h].id] = None]
             /\ human' = [human EXCEPT ![h].at = "notify"]
    <2>1. Answers(h, row)
      BY <1>3, <1>4 DEF Answers, row
    <2>. QED BY <1>1, <1>3, <1>4, <2>1 DEF TypeOK, Prompts
  <1>5. CASE human' = [human EXCEPT ![h] = [at |-> "idle"]] /\ UNCHANGED pending
    <2>1. Answers(h, [at |-> "idle"]) /\ Continues(h, [at |-> "idle"])
      BY <1>5, IdleType DEF Answers, Continues
    <2>. QED BY <1>5, <2>1 DEF TypeOK, Prompts
  <1>. QED BY <1>4, <1>5 DEF Delete

LEMMA NotifyEffect ==
    ASSUME TypeOK, NEW h \in Humans, Notify(h)
    PROVE  \E row : /\ Answers(h, row) /\ row.at \in {"idle", "send"} /\ Continues(h, row)
                    /\ row.at = "send" => waiters[row.id] # None
  <1>1. human[h] \in Requests /\ human[h].at = "notify"
    BY DEF TypeOK, Notify
  <1>2. human[h] \in [at : {"delete", "notify", "send"}, id : Ids, key : Keys]
    BY <1>1 DEF Requests
  <1>. DEFINE row == [human[h] EXCEPT !.at = "send"]
  <1>3. row \in Requests /\ row.at = "send" /\ Continues(h, row) /\ row.id = human[h].id
    BY <1>2 DEF Requests, Continues
  <1>. HIDE DEF row
  <1>4. CASE waiters[human[h].id] = None
    <2>1. Answers(h, [at |-> "idle"]) /\ Continues(h, [at |-> "idle"])
      BY <1>4, IdleType DEF Answers, Continues, Notify
    <2>. QED BY <2>1
  <1>5. CASE waiters[human[h].id] # None
    <2>1. Answers(h, row)
      BY <1>3, <1>5 DEF Answers, row, Notify
    <2>. QED BY <1>3, <1>5, <2>1
  <1>. QED BY <1>4, <1>5

LEMMA SendEffect ==
    ASSUME TypeOK, NEW h \in Humans, Send(h), waiters[human[h].id] # None
    PROVE  /\ Answers(h, [at |-> "idle"])
           /\ human[h].id \in Ids /\ waiters[human[h].id] \in Callers
           /\ chan' \in [Callers -> Keys \cup {None}]
           /\ chan'[waiters[human[h].id]] = human[h].key
           /\ \A c \in Callers : c # waiters[human[h].id] => chan'[c] = chan[c]
           /\ waiters' \in [Ids -> Callers \cup {None}]
           /\ waiters'[human[h].id] = None
           /\ \A i \in Ids \ {human[h].id} : waiters'[i] = waiters[i]
  <1>1. human[h].id \in Ids /\ human[h].key \in Keys
    BY RequestTypes DEF Send
  <1>2. waiters[human[h].id] \in Callers
    BY <1>1 DEF TypeOK
  <1>3. Answers(h, [at |-> "idle"])
    BY IdleType DEF Answers, Send
  <1>4. /\ chan' \in [Callers -> Keys \cup {None}]
        /\ chan'[waiters[human[h].id]] = human[h].key
        /\ \A c \in Callers : c # waiters[human[h].id] => chan'[c] = chan[c]
    BY <1>1, <1>2 DEF TypeOK, Send
  <1>5. /\ waiters' \in [Ids -> Callers \cup {None}]
        /\ waiters'[human[h].id] = None
        /\ \A i \in Ids \ {human[h].id} : waiters'[i] = waiters[i]
    BY <1>1 DEF TypeOK, Send
  <1>. QED BY <1>1, <1>2, <1>3, <1>4, <1>5

\* The end of the process: calls are over, nobody waits or answers.
LEMMA EndEffect ==
    ASSUME TypeOK, End
    PROVE  /\ TypeOK'
           /\ \A c \in Callers : /\ call'[c].at \in {"idle", "over"}
                                 /\ c \in Actions /\ call'[c].got = "approve"
                                    => call[c].got = "approve" /\ call'[c].n = call[c].n
  <1>1. ASSUME NEW c \in Callers
        PROVE  /\ call'[c] \in Calls /\ call'[c].at \in {"idle", "over"}
               /\ c \in Actions /\ call'[c].got = "approve"
                  => call[c].got = "approve" /\ call'[c].n = call[c].n
    <2>1. call[c] \in Calls
      BY CallTypes
    <2>2. Result(c, "deny") \in {"none", "refuse"}
      BY DEF Result
    <2>3. CASE call[c].at \in {"idle", "over"}
      BY <2>1, <2>3 DEF End
    <2>4. CASE call[c].at \notin {"idle", "over"}
      <3>1. call'[c] = [call[c] EXCEPT !.at = "over", !.got = Result(c, "deny")]
        BY <2>4 DEF End
      <3>. QED BY <2>1, <2>2, <3>1 DEF Calls
    <2>. QED BY <2>3, <2>4
  <1>2. call' \in [Callers -> Calls]
    <2>1. call' = [c \in Callers |-> call'[c]]
      BY DEF End
    <2>. QED BY <1>1, <2>1
  <1>3. ends' \in 0 .. MaxEnds
    <2>1. ends \in 0 .. MaxEnds /\ ends < MaxEnds /\ ends' = ends + 1
      BY DEF TypeOK, End
    <2>. QED BY <2>1, Constants
  <1>4. human' \in [Humans -> Requests]
    BY IdleType DEF End
  <1>. QED BY <1>1, <1>2, <1>3, <1>4 DEF TypeOK, End

\* The type invariant: calls, records, channels and requests keep their shape.
THEOREM TypeCorrect == Spec => []TypeOK
  <1>1. ASSUME Init PROVE TypeOK
    <2>1. 0 \in 0 .. MaxAnswers /\ 0 \in 0 .. MaxEnds
      BY Constants
    <2>2. [at |-> "idle", n |-> 1, got |-> "none"] \in Calls
      BY Constants DEF Calls
    <2>3. call \in [Callers -> Calls] /\ human \in [Humans -> Requests]
      BY <1>1, <2>2, IdleType DEF Init
    <2>. QED BY <1>1, <2>1, <2>3 DEF Init, TypeOK
  <1>2. TypeOK /\ [Next]_vars => TypeOK'
    <2>. SUFFICES ASSUME TypeOK, [Next]_vars PROVE TypeOK'
      OBVIOUS
    <2>1. ASSUME NEW c \in Callers, Prompt(c) PROVE TypeOK'
      <3>1. CASE Begin(c)
        <4>1. call' \in [Callers -> Calls]
          BY <3>1, BeginEffect, BecomesEffect
        <4>. QED BY <3>1, <4>1 DEF TypeOK, Begin
      <3>2. CASE Put(c)
        <4>1. call' \in [Callers -> Calls]
          BY <3>2, PutEffect, BecomesEffect
        <4>2. pending' \in [Ids -> Prompts \cup {None}]
          BY <3>2, PutEffect
        <4>. QED BY <3>2, <4>1, <4>2 DEF TypeOK, Put, Prompts
      <3>3. CASE Register(c)
        <4>1. call' \in [Callers -> Calls]
          BY <3>3, RegisterEffect, BecomesEffect
        <4>. QED BY <3>3, <4>1, RegisterEffect DEF TypeOK, Register
      <3>4. CASE Select(c)
        <4>1. call' \in [Callers -> Calls]
          BY <3>4, SelectEffect, BecomesEffect
        <4>. QED BY <3>4, <4>1, SelectEffect DEF TypeOK, Select
      <3>5. CASE Leave(c)
        <4>1. call' \in [Callers -> Calls]
          BY <3>5, LeaveEffect, BecomesEffect
        <4>. QED BY <3>5, <4>1, LeaveEffect DEF TypeOK, Leave
      <3>. QED BY <2>1, <3>1, <3>2, <3>3, <3>4, <3>5 DEF Prompt
    <2>2. ASSUME NEW c \in Actions, Cancel(c) PROVE TypeOK'
      BY <2>2 DEF TypeOK, Cancel
    <2>3. ASSUME NEW h \in Humans, Respond(h) PROVE TypeOK'
      <3>1. CASE Look(h)
        <4>1. human' \in [Humans -> Requests]
          BY <3>1, LookEffect, AnswersEffect
        <4>2. answers \in 0 .. MaxAnswers /\ answers < MaxAnswers /\ answers' = answers + 1
          BY <3>1 DEF TypeOK, Look
        <4>3. answers' \in 0 .. MaxAnswers
          BY <4>2, Constants
        <4>. QED BY <3>1, <4>1, <4>3 DEF TypeOK, Look
      <3>2. CASE Decide(h)
        <4>1. human' \in [Humans -> Requests]
          BY <3>2, DecideEffect, AnswersEffect
        <4>. QED BY <3>2, <4>1, DecideEffect DEF TypeOK, Decide
      <3>3. CASE Delete(h)
        <4>1. human' \in [Humans -> Requests]
          BY <3>3, DeleteEffect, AnswersEffect
        <4>2. pending' \in [Ids -> Prompts \cup {None}]
          BY <3>3, DeleteEffect
        <4>. QED BY <3>3, <4>1, <4>2 DEF TypeOK, Delete, Prompts
      <3>4. CASE Notify(h)
        <4>1. human' \in [Humans -> Requests]
          BY <3>4, NotifyEffect, AnswersEffect
        <4>. QED BY <3>4, <4>1 DEF TypeOK, Notify
      <3>5. CASE Send(h)
        <4>1. human[h].id \in Ids /\ human[h].key \in Keys
          BY <3>5, RequestTypes DEF Send
        <4>2. chan' \in [Callers -> Keys \cup {None}]
          BY <3>5, <4>1 DEF TypeOK, Send
        <4>3. waiters' \in [Ids -> Callers \cup {None}]
          BY <3>5, <4>1 DEF TypeOK, Send
        <4>4. human' \in [Humans -> Requests]
          BY <3>5, IdleType DEF TypeOK, Send
        <4>. QED BY <3>5, <4>2, <4>3, <4>4 DEF TypeOK, Send
      <3>. QED BY <2>3, <3>1, <3>2, <3>3, <3>4, <3>5 DEF Respond
    <2>4. CASE End
      BY <2>4, EndEffect
    <2>5. CASE UNCHANGED vars
      BY <2>5 DEF TypeOK, vars
    <2>. QED BY <2>1, <2>2, <2>3, <2>4, <2>5 DEF Next
  <1>. QED BY <1>1, <1>2, PTL DEF Spec

(***************************************************************************)
(* The lock and the waiters.  One request at most holds the lock, it has   *)
(* found a waiter that cannot go away under the lock, and the channel of   *)
(* whoever is among the waiters is empty: an answer goes in and the waiter *)
(* goes out in one step.                                                   *)
(***************************************************************************)
OneSender == \A g, h \in Humans : human[g].at = "send" /\ human[h].at = "send" => g = h

Waited == \A h \in Humans : human[h].at = "send" => waiters[human[h].id] # None

RoomForWaiters == \A i \in Ids : waiters[i] # None => chan[waiters[i]] = None

Locks == OneSender /\ Waited /\ RoomForWaiters /\ WaitersAreInside

\* A step that moves c's call to another row and leaves waiters and channels alone.
LEMMA LocksStay ==
    ASSUME TypeOK, TypeOK', Locks, UNCHANGED waiters,
           \A c \in Callers : chan'[c] \in {chan[c], None},
           \A h \in Humans : human'[h].at = "send" => human'[h] = human[h],
           \A c \in Callers : call[c].at \in {"wait", "leave"}
               => call'[c].at \in {"wait", "leave"} /\ call'[c].n = call[c].n
    PROVE  Locks'
  <1>1. OneSender' /\ Waited'
    BY DEF Locks, OneSender, Waited
  <1>2. RoomForWaiters'
    <2>. SUFFICES ASSUME NEW i \in Ids, waiters[i] # None
                  PROVE  chan'[waiters[i]] = None
      BY DEF RoomForWaiters
    <2>1. waiters[i] \in Callers /\ chan[waiters[i]] = None
      BY DEF TypeOK, Locks, RoomForWaiters
    <2>. QED BY <2>1
  <1>3. WaitersAreInside'
    <2>. SUFFICES ASSUME NEW i \in Ids, waiters[i] # None
                  PROVE  call'[waiters[i]].at \in {"wait", "leave"} /\ Id(waiters[i])' = i
      BY DEF WaitersAreInside
    <2>1. waiters[i] \in Callers
      BY DEF TypeOK
    <2>2. call[waiters[i]].at \in {"wait", "leave"} /\ Id(waiters[i]) = i
      BY DEF Locks, WaitersAreInside
    <2>3. call'[waiters[i]].at \in {"wait", "leave"}
          /\ call'[waiters[i]].n = call[waiters[i]].n
      BY <2>1, <2>2
    <2>. QED BY <2>2, <2>3 DEF Id
  <1>. QED BY <1>1, <1>2, <1>3 DEF Locks

LEMMA PromptLocks ==
    ASSUME TypeOK, TypeOK', Locks, NEW c \in Callers, Prompt(c)
    PROVE  Locks'
  <1>1. human' = human
    BY DEF Prompt, Begin, Put, Register, Select, Leave
  <1>2. CASE Begin(c) \/ Put(c)
    <2>1. call[c].at \in {"idle", "put"} /\ UNCHANGED <<waiters, chan>>
      BY <1>2 DEF Begin, Put
    <2>2. \A d \in Callers \ {c} : call'[d] = call[d]
      BY <1>2, BeginEffect, PutEffect, BecomesEffect
    <2>3. \A d \in Callers : call[d].at \in {"wait", "leave"} => call'[d] = call[d]
      BY <2>1, <2>2
    <2>. QED BY <1>1, <2>1, <2>3, LocksStay
  <1>3. CASE Select(c)
    <2>1. UNCHANGED waiters /\ \A d \in Callers : chan'[d] \in {chan[d], None}
      BY <1>3, SelectEffect DEF Select
    <2>2. /\ \A d \in Callers \ {c} : call'[d] = call[d]
          /\ call'[c].at = "leave" /\ call'[c].n = call[c].n
      BY <1>3, SelectEffect, BecomesEffect
    <2>3. \A d \in Callers : call[d].at \in {"wait", "leave"}
               => call'[d].at \in {"wait", "leave"} /\ call'[d].n = call[d].n
      BY <2>2
    <2>. QED BY <1>1, <2>1, <2>3, LocksStay
  <1>4. CASE Register(c)
    <2>1. /\ \A d \in Callers \ {c} : call'[d] = call[d]
          /\ call'[c].at = "wait" /\ call'[c].n = call[c].n
      BY <1>4, RegisterEffect, BecomesEffect
    <2>2. /\ waiters'[Id(c)] = c /\ \A i \in Ids \ {Id(c)} : waiters'[i] = waiters[i]
          /\ chan'[c] = None /\ \A d \in Callers \ {c} : chan'[d] = chan[d]
      BY <1>4, RegisterEffect
    <2>3. /\ \A h \in Humans : human[h].at # "send"
          /\ call[c].at = "register"
      BY <1>4 DEF Register, Unlocked
    <2>4. (OneSender /\ Waited)'
      BY <1>1, <2>3 DEF OneSender, Waited
    <2>5. ASSUME NEW i \in Ids, waiters'[i] # None
          PROVE  /\ chan'[waiters'[i]] = None
                 /\ call'[waiters'[i]].at \in {"wait", "leave"}
                 /\ IdOf(waiters'[i], call'[waiters'[i]].n) = i
      <3>1. CASE i = Id(c)
        BY <2>1, <2>2, <3>1 DEF Id
      <3>2. CASE i # Id(c)
        <4>1. waiters'[i] = waiters[i] /\ waiters[i] \in Callers
          BY <2>2, <2>5, <3>2 DEF TypeOK
        <4>2. /\ chan[waiters[i]] = None
              /\ call[waiters[i]].at \in {"wait", "leave"} /\ Id(waiters[i]) = i
          BY <2>5, <4>1 DEF Locks, RoomForWaiters, WaitersAreInside
        <4>3. waiters[i] # c
          BY <2>3, <4>2
        <4>. QED BY <2>1, <2>2, <4>1, <4>2, <4>3 DEF Id
      <3>. QED BY <3>1, <3>2
    <2>. QED BY <2>4, <2>5 DEF Locks, RoomForWaiters, WaitersAreInside, Id
  <1>5. CASE Leave(c)
    <2>1. \A d \in Callers \ {c} : call'[d] = call[d]
      BY <1>5, LeaveEffect, BecomesEffect
    <2>2. waiters'[Id(c)] = None /\ \A i \in Ids \ {Id(c)} : waiters'[i] = waiters[i]
      BY <1>5, LeaveEffect
    <2>3. /\ \A h \in Humans : human[h].at # "send"
          /\ UNCHANGED chan
      BY <1>5 DEF Leave, Unlocked
    <2>4. (OneSender /\ Waited)'
      BY <1>1, <2>3 DEF OneSender, Waited
    <2>5. ASSUME NEW i \in Ids, waiters'[i] # None
          PROVE  /\ chan'[waiters'[i]] = None
                 /\ call'[waiters'[i]].at \in {"wait", "leave"}
                 /\ IdOf(waiters'[i], call'[waiters'[i]].n) = i
      <3>1. i # Id(c) /\ waiters'[i] = waiters[i] /\ waiters[i] \in Callers
        BY <2>2, <2>5 DEF TypeOK
      <3>2. /\ chan[waiters[i]] = None
            /\ call[waiters[i]].at \in {"wait", "leave"} /\ Id(waiters[i]) = i
        BY <2>5, <3>1 DEF Locks, RoomForWaiters, WaitersAreInside
      <3>3. waiters[i] # c
        BY <3>1, <3>2
      <3>. QED BY <2>1, <2>3, <3>1, <3>2, <3>3 DEF Id
    <2>. QED BY <2>4, <2>5 DEF Locks, RoomForWaiters, WaitersAreInside, Id
  <1>. QED BY <1>2, <1>3, <1>4, <1>5 DEF Prompt

LEMMA RespondLocks ==
    ASSUME TypeOK, TypeOK', Locks, NEW h \in Humans, Respond(h)
    PROVE  Locks'
  <1>1. CASE Look(h) \/ Decide(h) \/ Delete(h)
    <2>1. UNCHANGED <<call, waiters, chan>>
      BY <1>1 DEF Look, Decide, Delete
    <2>2. human'[h].at # "send" /\ \A g \in Humans \ {h} : human'[g] = human[g]
      BY <1>1, LookEffect, DecideEffect, DeleteEffect, AnswersEffect
    <2>3. \A g \in Humans : human'[g].at = "send" => human'[g] = human[g]
      BY <2>2
    <2>. QED BY <2>1, <2>3, LocksStay
  <1>2. CASE Notify(h)
    <2>1. /\ UNCHANGED <<call, waiters, chan>>
          /\ \A g \in Humans : human[g].at # "send"
      BY <1>2 DEF Notify, Unlocked
    <2>2. /\ human'[h].at = "send" => waiters[human'[h].id] # None
          /\ \A g \in Humans \ {h} : human'[g] = human[g]
      BY <1>2, NotifyEffect, AnswersEffect
    <2>3. (OneSender /\ Waited)'
      BY <2>1, <2>2 DEF OneSender, Waited
    <2>4. (RoomForWaiters /\ WaitersAreInside)'
      BY <2>1 DEF Locks, RoomForWaiters, WaitersAreInside, Id
    <2>. QED BY <2>3, <2>4 DEF Locks
  <1>3. CASE Send(h)
    <2>. DEFINE c == waiters[human[h].id]
    <2>1. human[h].at = "send" /\ c # None /\ UNCHANGED call
      BY <1>3 DEF Send, Locks, Waited
    <2>2. /\ Answers(h, [at |-> "idle"])
          /\ human[h].id \in Ids /\ c \in Callers
          /\ \A d \in Callers : d # c => chan'[d] = chan[d]
          /\ waiters'[human[h].id] = None
          /\ \A i \in Ids \ {human[h].id} : waiters'[i] = waiters[i]
      BY <1>3, <2>1, SendEffect
    <2>3. human'[h].at = "idle" /\ \A g \in Humans \ {h} : human'[g] = human[g]
      BY <2>2, AnswersEffect
    <2>4. \A g \in Humans : human'[g].at # "send"
      BY <2>1, <2>3 DEF Locks, OneSender
    <2>5. Id(c) = human[h].id
      BY <2>1, <2>2 DEF Locks, WaitersAreInside
    <2>6. ASSUME NEW i \in Ids, waiters'[i] # None
          PROVE  /\ chan'[waiters'[i]] = None
                 /\ call'[waiters'[i]].at \in {"wait", "leave"}
                 /\ IdOf(waiters'[i], call'[waiters'[i]].n) = i
      <3>1. i # human[h].id /\ waiters'[i] = waiters[i] /\ waiters[i] \in Callers
        BY <2>2, <2>6 DEF TypeOK
      <3>2. /\ chan[waiters[i]] = None
            /\ call[waiters[i]].at \in {"wait", "leave"} /\ Id(waiters[i]) = i
        BY <2>6, <3>1 DEF Locks, RoomForWaiters, WaitersAreInside
      <3>3. waiters[i] # c
        BY <2>5, <3>1, <3>2
      <3>. QED BY <2>1, <2>2, <3>1, <3>2, <3>3 DEF Id
    <2>. QED BY <2>4, <2>6 DEF Locks, OneSender, Waited, RoomForWaiters, WaitersAreInside, Id
  <1>. QED BY <1>1, <1>2, <1>3 DEF Respond

LEMMA LocksHold == Spec => []Locks
  <1>1. Init => Locks
    BY DEF Init, Locks, OneSender, Waited, RoomForWaiters, WaitersAreInside
  <1>2. TypeOK /\ TypeOK' /\ Locks /\ [Next]_vars => Locks'
    <2>. SUFFICES ASSUME TypeOK, TypeOK', Locks, [Next]_vars PROVE Locks'
      OBVIOUS
    <2>1. CASE \E c \in Callers : Prompt(c)
      BY <2>1, PromptLocks
    <2>2. CASE \E h \in Humans : Respond(h)
      BY <2>2, RespondLocks
    <2>3. CASE (\E c \in Actions : Cancel(c)) \/ UNCHANGED vars
      <3>1. UNCHANGED <<call, waiters, chan, human>>
        BY <2>3 DEF Cancel, vars
      <3>. QED BY <3>1, LocksStay
    <2>4. CASE End
      BY <2>4 DEF End, Locks, OneSender, Waited, RoomForWaiters, WaitersAreInside
    <2>. QED BY <2>1, <2>2, <2>3, <2>4 DEF Next
  <1>. QED BY <1>1, <1>2, TypeCorrect, PTL DEF Spec

\* An answer is acknowledged only to a call that is still going on under that id.
THEOREM WaitersAreAlwaysInside == Spec => []WaitersAreInside
  <1>1. Locks => WaitersAreInside
    BY DEF Locks
  <1>. QED BY <1>1, LocksHold, PTL

\* The gateway's lock is never held for a channel that is full.
THEOREM SendIsAlwaysFree == Spec => []SendIsFree
  <1>1. TypeOK /\ Locks => SendIsFree
    <2>. SUFFICES ASSUME TypeOK, Locks, NEW h \in Humans, human[h].at = "send"
                  PROVE  /\ waiters[human[h].id] # None
                         /\ chan[waiters[human[h].id]] = None
      BY DEF SendIsFree
    <2>1. human[h].id \in Ids
      BY RequestTypes
    <2>. QED BY <2>1 DEF Locks, Waited, RoomForWaiters
  <1>. QED BY <1>1, TypeCorrect, LocksHold, PTL

(***************************************************************************)
(* The way of an approval: a record holds the prompt of its id, a human    *)
(* answers the prompt they have read, and as the id of an action's prompt  *)
(* is that of no other, the approval in a channel is for the very attempt  *)
(* that waits there.                                                       *)
(***************************************************************************)
PendingIsPrompt ==
    \A i \in Ids : pending[i] # None => IdOf(pending[i][1], pending[i][2]) = i

SeenIsPrompt ==
    \A h \in Humans :
        human[h].at = "decide" => IdOf(human[h].seen[1], human[h].seen[2]) = human[h].id

KeysAreSaid ==
    \A h \in Humans :
        human[h].at \in {"delete", "notify", "send"} /\ human[h].key = "approve"
        /\ human[h].id \in ActionIds => human[h].id \in said

ChansAreSaid ==
    \A c \in Actions :
        call[c].at = "wait" /\ chan[c] = "approve" => <<c, call[c].n>> \in said

Said == PendingIsPrompt /\ SeenIsPrompt /\ KeysAreSaid /\ ChansAreSaid /\ RunsApproved

LEMMA PromptSaid ==
    ASSUME TypeOK, TypeOK', Said, NEW c \in Callers, Prompt(c)
    PROVE  Said'
  <1>1. UNCHANGED <<human, said>>
    BY DEF Prompt, Begin, Put, Register, Select, Leave
  <1>2. (SeenIsPrompt /\ KeysAreSaid)'
    BY <1>1 DEF Said, SeenIsPrompt, KeysAreSaid
  <1>3. PendingIsPrompt'
    <2>1. CASE Put(c)
      <3>1. /\ pending' \in [Ids -> Prompts \cup {None}]
            /\ \A i \in Ids : pending'[i] = pending[i]
                              \/ (i = Id(c) /\ pending'[i] = <<c, call[c].n>>)
        BY <2>1, PutEffect
      <3>2. IdOf(<<c, call[c].n>>[1], <<c, call[c].n>>[2]) = Id(c)
        BY DEF Id
      <3>3. ASSUME NEW i \in Ids, pending'[i] # None
            PROVE  IdOf(pending'[i][1], pending'[i][2]) = i
        <4>1. CASE pending'[i] = pending[i]
          BY <3>3, <4>1 DEF Said, PendingIsPrompt
        <4>2. CASE i = Id(c) /\ pending'[i] = <<c, call[c].n>>
          BY <3>2, <4>2
        <4>. QED BY <3>1, <4>1, <4>2
      <3>. QED BY <3>3 DEF PendingIsPrompt
    <2>2. CASE ~Put(c)
      BY <2>2 DEF Prompt, Begin, Register, Select, Leave, Said, PendingIsPrompt
    <2>. QED BY <2>1, <2>2
  <1>4. /\ \A d \in Callers \ {c} : call'[d] = call[d]
        /\ c \in Actions /\ call'[c].got = "approve" =>
              \/ call[c].got = "approve" /\ call'[c].n = call[c].n
              \/ /\ call[c].at = "wait" /\ chan[c] = "approve"
                 /\ call'[c].n = call[c].n
        /\ call'[c].at = "wait" => chan'[c] = None
        /\ \A d \in Callers \ {c} : chan'[d] = chan[d]
    <2>1. CASE Begin(c)
      <3>1. PICK row : /\ Becomes(c, row) /\ row.at \in {"put", "over"}
                       /\ row.got = "approve" => call[c].got = "approve"
                                                 /\ row.n = call[c].n
        BY <2>1, BeginEffect
      <3>. QED BY <2>1, <3>1, BecomesEffect DEF Begin
    <2>2. CASE Put(c)
      <3>1. PICK row : /\ Becomes(c, row) /\ row.at \in {"register", "idle", "over"}
                       /\ row.got = "approve" /\ c \in Actions
                          => call[c].got = "approve" /\ row.n = call[c].n
        BY <2>2, PutEffect
      <3>. QED BY <2>2, <3>1, BecomesEffect DEF Put
    <2>3. CASE Register(c)
      <3>1. PICK row : /\ Becomes(c, row) /\ row.at = "wait"
                       /\ row.got = call[c].got /\ row.n = call[c].n
        BY <2>3, RegisterEffect
      <3>2. chan'[c] = None /\ \A d \in Callers \ {c} : chan'[d] = chan[d]
        BY <2>3, RegisterEffect
      <3>. QED BY <3>1, <3>2, BecomesEffect
    <2>4. CASE Select(c)
      <3>1. PICK row : /\ Becomes(c, row) /\ row.at = "leave" /\ row.n = call[c].n
                       /\ row.got = "approve" => chan[c] = "approve"
        BY <2>4, SelectEffect
      <3>2. /\ call[c].at = "wait"
            /\ \A d \in Callers \ {c} : chan'[d] = chan[d]
        BY <2>4 DEF Select, TypeOK
      <3>. QED BY <3>1, <3>2, BecomesEffect
    <2>5. CASE Leave(c)
      <3>1. PICK row : /\ Becomes(c, row) /\ row.at \in {"idle", "over"}
                       /\ row.got = "approve" /\ c \in Actions
                          => call[c].got = "approve" /\ row.n = call[c].n
        BY <2>5, LeaveEffect
      <3>. QED BY <2>5, <3>1, BecomesEffect DEF Leave
    <2>. QED BY <2>1, <2>2, <2>3, <2>4, <2>5 DEF Prompt
  <1>5. ChansAreSaid'
    <2>. SUFFICES ASSUME NEW d \in Actions, call'[d].at = "wait", chan'[d] = "approve"
                  PROVE  <<d, call'[d].n>> \in said
      BY <1>1 DEF ChansAreSaid
    <2>1. d # c
      BY <1>4, Constants DEF Keys
    <2>. QED BY <1>4, <2>1 DEF Said, ChansAreSaid, Callers
  <1>6. RunsApproved'
    <2>. SUFFICES ASSUME NEW d \in Actions, call'[d].got = "approve"
                  PROVE  <<d, call'[d].n>> \in said
      BY <1>1 DEF RunsApproved
    <2>1. CASE d # c
      BY <1>4, <2>1 DEF Said, RunsApproved, Callers
    <2>2. CASE d = c
      BY <1>4, <2>2 DEF Said, RunsApproved, ChansAreSaid
    <2>. QED BY <2>1, <2>2
  <1>. QED BY <1>2, <1>3, <1>5, <1>6 DEF Said

LEMMA RespondSaid ==
    ASSUME TypeOK, TypeOK', Locks, Said, NEW h \in Humans, Respond(h)
    PROVE  Said'
  <1>1. call' = call /\ said \subseteq said'
    BY DecideEffect DEF Respond, Look, Decide, Delete, Notify, Send
  <1>2. RunsApproved'
    BY <1>1 DEF Said, RunsApproved
  <1>3. PendingIsPrompt'
    <2>1. \A i \in Ids : pending'[i] \in {pending[i], None}
      BY DeleteEffect DEF Respond, Look, Decide, Notify, Send
    <2>. QED BY <2>1 DEF Said, PendingIsPrompt
  <1>4. /\ \A g \in Humans \ {h} : human'[g] = human[g]
        /\ human'[h].at = "decide" =>
              IdOf(human'[h].seen[1], human'[h].seen[2]) = human'[h].id
        /\ human'[h].at \in {"delete", "notify", "send"} /\ human'[h].key = "approve"
           /\ human'[h].id \in ActionIds => human'[h].id \in said'
    <2>1. CASE Look(h)
      <3>1. PICK row : /\ Answers(h, row) /\ row.at = "decide" /\ row.id \in Ids
                       /\ pending[row.id] # None /\ row.seen = pending[row.id]
        BY <2>1, LookEffect
      <3>2. IdOf(row.seen[1], row.seen[2]) = row.id
        BY <3>1 DEF Said, PendingIsPrompt
      <3>. QED BY <3>1, <3>2, AnswersEffect
    <2>2. CASE Decide(h)
      <3>1. PICK row : /\ Answers(h, row) /\ row.at = "delete" /\ row.id = human[h].id
                       /\ row.key = "approve" /\ human[h].seen[1] \in Actions
                          => human[h].seen \in said'
        BY <2>2, DecideEffect
      <3>2. /\ human[h].seen \in Prompts
            /\ IdOf(human[h].seen[1], human[h].seen[2]) = human[h].id
        BY <2>2, RequestTypes DEF Decide, Said, SeenIsPrompt
      <3>3. human[h].id \in ActionIds => /\ human[h].seen[1] \in Actions
                                         /\ human[h].id = human[h].seen
        BY <3>2, IdTypes DEF Prompts
      <3>. QED BY <3>1, <3>3, AnswersEffect
    <2>3. CASE Delete(h) \/ Notify(h)
      <3>1. PICK row : /\ Answers(h, row) /\ row.at \in {"idle", "notify", "send"}
                       /\ Continues(h, row)
        BY <2>3, DeleteEffect, NotifyEffect
      <3>2. human[h].at \in {"delete", "notify"}
        BY <2>3 DEF Delete, Notify
      <3>3. row.at # "idle" /\ row.key = "approve" /\ row.id \in ActionIds
            => row.id \in said'
        BY <1>1, <3>1, <3>2 DEF Continues, Said, KeysAreSaid
      <3>. QED BY <3>1, <3>3, AnswersEffect
    <2>4. CASE Send(h)
      <3>1. waiters[human[h].id] # None
        BY <2>4 DEF Send, Locks, Waited
      <3>2. Answers(h, [at |-> "idle"])
        BY <2>4, <3>1, SendEffect
      <3>. QED BY <3>2, AnswersEffect
    <2>. QED BY <2>1, <2>2, <2>3, <2>4 DEF Respond
  <1>5. (SeenIsPrompt /\ KeysAreSaid)'
    BY <1>1, <1>4 DEF Said, SeenIsPrompt, KeysAreSaid
  <1>6. ChansAreSaid'
    <2>. SUFFICES ASSUME NEW d \in Actions, call[d].at = "wait", chan'[d] = "approve"
                  PROVE  <<d, call[d].n>> \in said'
      BY <1>1 DEF ChansAreSaid
    <2>1. d \in Callers
      BY DEF Callers
    <2>2. CASE chan'[d] = chan[d]
      BY <1>1, <2>2 DEF Said, ChansAreSaid
    <2>3. CASE chan'[d] # chan[d]
      <3>1. Send(h)
        BY <2>3 DEF Respond, Look, Decide, Delete, Notify
      <3>2. waiters[human[h].id] # None /\ human[h].at = "send"
        BY <3>1 DEF Send, Locks, Waited
      <3>3. /\ human[h].id \in Ids /\ d = waiters[human[h].id]
            /\ human[h].key = "approve"
        BY <2>1, <2>3, <3>1, <3>2, SendEffect
      <3>4. human[h].id = <<d, call[d].n>> /\ human[h].id \in ActionIds
        <4>1. Id(d) = human[h].id
          BY <3>2, <3>3 DEF Locks, WaitersAreInside
        <4>2. Id(d) = <<d, call[d].n>> /\ call[d].n \in Attempts
          BY <2>1, CallTypes
        <4>. QED BY <4>1, <4>2 DEF ActionIds
      <3>. QED BY <1>1, <3>2, <3>3, <3>4 DEF Said, KeysAreSaid
    <2>. QED BY <2>2, <2>3
  <1>. QED BY <1>2, <1>3, <1>5, <1>6 DEF Said

\* An attempt of an action goes on only when a human has read its own prompt and
\* approved it.
THEOREM RunsAreApproved == Spec => []RunsApproved
  <1>1. Init => Said
    BY Constants DEF Init, Said, PendingIsPrompt, SeenIsPrompt, KeysAreSaid,
                     ChansAreSaid, RunsApproved, Callers
  <1>2. TypeOK /\ TypeOK' /\ Locks /\ Said /\ [Next]_vars => Said'
    <2>. SUFFICES ASSUME TypeOK, TypeOK', Locks, Said, [Next]_vars PROVE Said'
      OBVIOUS
    <2>1. CASE \E c \in Callers : Prompt(c)
      BY <2>1, PromptSaid
    <2>2. CASE \E h \in Humans : Respond(h)
      BY <2>2, RespondSaid
    <2>3. CASE (\E c \in Actions : Cancel(c)) \/ UNCHANGED vars
      <3>1. UNCHANGED <<call, pending, chan, human, said>>
        BY <2>3 DEF Cancel, vars
      <3>. QED BY <3>1 DEF Said, PendingIsPrompt, SeenIsPrompt, KeysAreSaid,
                           ChansAreSaid, RunsApproved
    <2>4. CASE End
      <3>1. \A c \in Callers : /\ call'[c].at \in {"idle", "over"}
                               /\ c \in Actions /\ call'[c].got = "approve"
                                  => call[c].got = "approve" /\ call'[c].n = call[c].n
        BY <2>4, EndEffect
      <3>2. (RunsApproved /\ ChansAreSaid)'
        <4>1. said' = said /\ \A c \in Actions : c \in Callers
          BY <2>4 DEF End, Callers
        <4>2. ChansAreSaid'
          BY <3>1, <4>1 DEF ChansAreSaid
        <4>3. \A c \in Actions : call'[c].got = "approve" => <<c, call'[c].n>> \in said
          BY <3>1, <4>1 DEF Said, RunsApproved
        <4>. QED BY <4>1, <4>2, <4>3 DEF RunsApproved
      <3>3. (PendingIsPrompt /\ SeenIsPrompt /\ KeysAreSaid)'
        BY <2>4 DEF End, Said, PendingIsPrompt, SeenIsPrompt, KeysAreSaid
      <3>. QED BY <3>2, <3>3 DEF Said
    <2>. QED BY <2>1, <2>2, <2>3, <2>4 DEF Next
  <1>3. Said => RunsApproved
    BY DEF Said
  <1>. QED BY <1>1, <1>2, <1>3, TypeCorrect, LocksHold, PTL DEF Spec
=============================================================================

------------------------------ MODULE CommitLog ------------------------------
(***************************************************************************)
(* What the write bus promises to those who submit, whatever it does with  *)
(* channels, batches, leases, transactions and rollbacks: one history, to  *)
(* which a batch is added as a whole, where every intent is made for the   *)
(* version that the ones before it left, in the order of its lane; and one *)
(* answer for each intent, with a reason.                                  *)
(***************************************************************************)
EXTENDS Integers, Sequences

CONSTANTS
    Intents,
    Request,      \* what each intent asks for
    Leased,       \* the intents that a lost lease may concern
    Keys,
    NoRow, Null   \* versions: there is no row, the row has none

VARIABLES normal, urgent,  \* what the two lanes accepted
          answer, history, table

logVars == <<normal, urgent, answer, history, table>>

Members(s) == {s[n] : n \in DOMAIN s}
Pending == {i \in Members(normal) \cup Members(urgent) : answer[i] = "none"}

Earlier(i, j) ==
    \E lane \in {normal, urgent} :
        \E p, q \in DOMAIN lane : p < q /\ lane[p] = i /\ lane[q] = j

-----------------------------------------------------------------------------
(* What stands after the first n intents of a history h *)

Rewrites(i) == Request[i].op \in {"insert", "upsert", "delete"}

Leaves(r) ==
    IF r.op = "delete" THEN NoRow
    ELSE IF r.op = "upsert" /\ r.claimed = 0 THEN Null ELSE r.claimed

Rewriters(h, n, k) == {m \in 1 .. n : Rewrites(h[m]) /\ Request[h[m]].key = k}

\* The version under the key k, as the only element of a set: the last one
\* that was written.
Stands(h, n, k) ==
    LET W == Rewriters(h, n, k)
    IN  IF W = {} THEN {NoRow}
        ELSE {Leaves(Request[h[m]]) : m \in {l \in W : \A o \in W : o <= l}}

MadeFor(r, v) ==
    \/ r.op = "delete" \/ r.claimed = 0 \/ v = r.claimed - 1
    \/ r.op = "upsert" /\ v = NoRow

Fits(i, h, n) ==
    /\ Request[i].op # "emit"
    /\ Rewrites(i) => \E v \in Stands(h, n, Request[i].key) : MadeFor(Request[i], v)
    /\ Request[i].op = "event" =>
           \A m \in 1 .. n : Request[h[m]].op = "event" => Request[h[m]].key # Request[i].key

Outdated(i, h, n) ==
    Rewrites(i) /\ \E v \in Stands(h, n, Request[i].key) : ~MadeFor(Request[i], v)

-----------------------------------------------------------------------------
LogInit ==
    /\ normal = <<>> /\ urgent = <<>>
    /\ answer = [i \in Intents |-> "none"]
    /\ history = <<>>
    /\ table = [k \in Keys |-> NoRow]

Accept(i) ==
    /\ i \notin Members(normal) \cup Members(urgent)
    /\ IF Request[i].flush THEN urgent' = Append(urgent, i) /\ UNCHANGED normal
                           ELSE normal' = Append(normal, i) /\ UNCHANGED urgent
    /\ UNCHANGED <<answer, history, table>>

\* A lease is lost.
TurnDown(i) ==
    /\ i \in Pending \cap Leased
    /\ answer' = [answer EXCEPT ![i] = "stale"]
    /\ UNCHANGED <<normal, urgent, history, table>>

\* What fails leaves no trace.
FailTogether(S) ==
    /\ S \subseteq Pending
    /\ answer' = [i \in Intents |-> IF i \in S THEN "failed" ELSE answer[i]]
    /\ UNCHANGED <<normal, urgent, history, table>>

\* Intent n of the longer history: it was waiting, and all that its lane had
\* accepted before it is dealt with, and comes before it if it is there.
Follows(n) ==
    /\ history'[n] \in Pending
    /\ Fits(history'[n], history', n - 1)
    /\ \A m \in 1 .. n - 1 : history'[m] # history'[n]
    /\ \A i \in Pending : Earlier(i, history'[n]) =>
           /\ answer'[i] # "none"
           /\ \A m \in DOMAIN history' : history'[m] = i => m < n

AddBatch ==
    /\ history' \in Seq(Intents)
    /\ Len(history) <= Len(history')
    /\ \A n \in 1 .. Len(history) : history'[n] = history[n]
    /\ \A n \in Len(history) + 1 .. Len(history') : Follows(n)
    /\ \A k \in Keys : table'[k] \in Stands(history', Len(history'), k)
    /\ \A i \in Intents :
           IF i \in Members(history') \ Members(history) THEN answer'[i] = "ok"
           ELSE \/ answer'[i] = answer[i]
                \/ /\ i \in Pending /\ answer'[i] = "stale"
                   /\ \/ i \in Leased
                      \/ \E n \in Len(history) .. Len(history') : Outdated(i, history', n)
    /\ UNCHANGED <<normal, urgent>>

LogNext ==
    \/ \E i \in Intents : Accept(i) \/ TurnDown(i)
    \/ \E S \in SUBSET Intents : FailTogether(S)
    \/ AddBatch

LogSpec == LogInit /\ [][LogNext]_logVars
=============================================================================

------------------------------ MODULE Approvals ------------------------------
(***************************************************************************)
(* Approvals by a human: the HITL gateway, with its pending records in the *)
(* store and its waiters in memory; the agent, which asks before it uses   *)
(* the computer or the browser; installations that ask; and the requests   *)
(* by which humans list what is pending and resolve it.                    *)
(*                                                                         *)
(* An action of the agent is a node of a plan: when it is refused or not   *)
(* answered it is tried again, with a new prompt, until its attempts or    *)
(* its time are used up.  An id is a uuid for such a prompt, and the name  *)
(* of the package for the installations an agent asks for.                 *)
(***************************************************************************)
EXTENDS Naturals

CONSTANTS
    Actions,        \* actions of the agent
    Installs,       \* installations of one package
    Package,        \* their id
    Humans,         \* requests about approvals
    MaxAttempts,    \* MaxRetry + 1 of a node
    MaxAnswers,     \* bound on the answers
    MaxEnds,        \* bound on the ends of the process
    None            \* no record, no waiter, no answer

Callers == Actions \cup Installs
Attempts == 1 .. MaxAttempts

ActionIds == Actions \X Attempts
Ids == ActionIds \cup {Package}

ASSUME ApprovalsAssumption ==
    /\ Actions \cap Installs = {}
    /\ Package \notin ActionIds
    /\ None \notin Callers \cup Callers \X Attempts \cup {"approve", "deny"}
    /\ MaxAttempts \in Nat \ {0} /\ MaxAnswers \in Nat /\ MaxEnds \in Nat

VARIABLES
    call,       \* calls of Prompt, with the attempt and what it has returned
    live,       \* actions whose time is not up
    pending,    \* records hitl:pending, each with the prompt
    waiters,    \* GatewayImpl.waiters: whose channel
    chan,       \* the channels, which hold one answer
    human,      \* requests about approvals
    said,       \* prompts of actions that a human has read and approved
    answers,    \* answers so far
    ends        \* ends of the process so far

vars == <<call, live, pending, waiters, chan, human, said, answers, ends>>

Keys == {"approve", "deny"}
Modes == {"default", "auto_review", "off"}

\* got: what an action makes of its call: "free" did not have to ask.
Calls == [at : {"idle", "put", "register", "wait", "leave", "over"}, n : Attempts,
          got : {"none", "free", "approve", "refuse"}]

\* A human who has read the prompt "seen"; "send" holds the gateway's lock.
Requests == [at : {"idle"}]
            \cup [at : {"decide"}, id : Ids, seen : Callers \X Attempts]
            \cup [at : {"delete", "notify", "send"}, id : Ids, key : Keys]

TypeOK ==
    /\ call \in [Callers -> Calls]
    /\ live \in SUBSET Actions
    /\ pending \in [Ids -> (Callers \X Attempts) \cup {None}]
    /\ waiters \in [Ids -> Callers \cup {None}]
    /\ chan \in [Callers -> Keys \cup {None}]
    /\ human \in [Humans -> Requests]
    /\ said \in SUBSET (Actions \X Attempts)
    /\ answers \in 0 .. MaxAnswers /\ ends \in 0 .. MaxEnds

Init ==
    /\ call = [c \in Callers |-> [at |-> "idle", n |-> 1, got |-> "none"]]
    /\ live = Actions
    /\ pending = [i \in Ids |-> None]
    /\ waiters = [i \in Ids |-> None]
    /\ chan = [c \in Callers |-> None]
    /\ human = [h \in Humans |-> [at |-> "idle"]]
    /\ said = {} /\ answers = 0 /\ ends = 0

\* The same id for every attempt.
IdOfTool(c, n) == IF c \in Actions THEN <<c, 1>> ELSE Package

\* The id of a prompt.
IdOf(c, n) == IF c \in Actions THEN <<c, n>> ELSE Package

Id(c) == IdOf(c, call[c].n)

\* GatewayImpl.mu is held between two steps by a request that sends.
Unlocked == \A h \in Humans : human[h].at # "send"

(***************************************************************************)
(* A caller.                                                               *)
(***************************************************************************)
\* interceptComputerUse: what has to be approved.
MustAsk(mode, danger) == mode = "default" \/ (mode = "auto_review" /\ danger)

Begin(c) ==
    /\ call[c].at = "idle"
    /\ \/ /\ c \in Installs
          /\ call' = [call EXCEPT ![c].at = "put"]
       \/ /\ c \in Actions
          /\ \E mode \in Modes, danger \in BOOLEAN :
                call' = [call EXCEPT ![c] =
                            IF MustAsk(mode, danger) THEN [@ EXCEPT !.at = "put"]
                            ELSE [@ EXCEPT !.at = "over", !.got = "free"]]
    /\ UNCHANGED <<live, pending, waiters, chan, human, said, answers, ends>>

\* What the caller does with what Prompt returns: a node whose tool was refused is
\* tried again; an installation leaves it unread.
After(row, c, got) ==
    IF c \in Installs THEN [row EXCEPT !.at = "over"]
    ELSE IF got # "approve" /\ c \in live /\ row.n < MaxAttempts
    THEN [row EXCEPT !.at = "idle", !.n = row.n + 1, !.got = "none"]
    ELSE [row EXCEPT !.at = "over", !.got = got]

\* An action goes on with "approve" and is refused with everything else.
Result(c, key) == IF c \in Installs THEN "none"
                  ELSE IF key = "approve" THEN key ELSE "refuse"

\* Prompt writes the record.
Put(c) ==
    /\ call[c].at = "put"
    /\ \/ /\ pending' = [pending EXCEPT ![Id(c)] = <<c, call[c].n>>]
          /\ call' = [call EXCEPT ![c].at = "register"]
       \/ /\ call' = [call EXCEPT ![c] = After(@, c, "refuse")]
          /\ UNCHANGED pending
    /\ UNCHANGED <<live, waiters, chan, human, said, answers, ends>>

Register(c) ==
    /\ call[c].at = "register" /\ Unlocked
    /\ chan' = [chan EXCEPT ![c] = None]
    /\ waiters' = [waiters EXCEPT ![Id(c)] = c]
    /\ call' = [call EXCEPT ![c].at = "wait"]
    /\ UNCHANGED <<live, pending, human, said, answers, ends>>

\* select: an answer or the end of the context, either if there are both.  The context
\* of an installation is that of its request, which may end at any time.
Select(c) ==
    /\ call[c].at = "wait"
    /\ \/ /\ chan[c] # None
          /\ call' = [call EXCEPT ![c].at = "leave", ![c].got = Result(c, chan[c])]
          /\ chan' = [chan EXCEPT ![c] = None]
       \/ /\ c \notin live
          /\ call' = [call EXCEPT ![c].at = "leave", ![c].got = Result(c, "deny")]
          /\ UNCHANGED chan
    /\ UNCHANGED <<live, pending, waiters, human, said, answers, ends>>

\* Leaving without the deferred function.
LeaveAtOnce(c) ==
    /\ call[c].at = "leave"
    /\ call' = [call EXCEPT ![c] = After(@, c, @.got)]
    /\ UNCHANGED <<live, pending, waiters, chan, human, said, answers, ends>>

\* The deferred function, which deletes by id, whoever waits there.
Leave(c) ==
    /\ call[c].at = "leave" /\ Unlocked
    /\ waiters' = [waiters EXCEPT ![Id(c)] = None]
    /\ call' = [call EXCEPT ![c] = After(@, c, @.got)]
    /\ UNCHANGED <<live, pending, chan, human, said, answers, ends>>

\* The node's time is up; it shows when the record is written and while an answer is
\* waited for.
Cancel(c) ==
    /\ c \in live /\ call[c].at \in {"put", "wait"}
    /\ live' = live \ {c}
    /\ UNCHANGED <<call, pending, waiters, chan, human, said, answers, ends>>

(***************************************************************************)
(* A human.                                                                *)
(***************************************************************************)
\* handleGetPendingApprovals.
Look(h) ==
    /\ human[h].at = "idle" /\ answers < MaxAnswers
    /\ \E i \in Ids :
          /\ pending[i] # None
          /\ human' = [human EXCEPT ![h] = [at |-> "decide", id |-> i,
                                            seen |-> pending[i]]]
    /\ answers' = answers + 1
    /\ UNCHANGED <<call, live, pending, waiters, chan, said, ends>>

\* handleResolveApproval is called, however much later.
Decide(h) ==
    /\ human[h].at = "decide"
    /\ \E k \in Keys :
          /\ human' = [human EXCEPT ![h] = [at |-> "delete", id |-> human[h].id,
                                            key |-> k]]
          /\ said' = IF k = "approve" /\ human[h].seen[1] \in Actions
                     THEN said \cup {human[h].seen} ELSE said
    /\ UNCHANGED <<call, live, pending, waiters, chan, answers, ends>>

\* Respond: the record is deleted and archived; if deleting fails, that is all.
Delete(h) ==
    /\ human[h].at = "delete"
    /\ \/ /\ pending' = [pending EXCEPT ![human[h].id] = None]
          /\ human' = [human EXCEPT ![h].at = "notify"]
       \/ /\ human' = [human EXCEPT ![h] = [at |-> "idle"]]
          /\ UNCHANGED pending
    /\ UNCHANGED <<call, live, waiters, chan, said, answers, ends>>

\* The lock is taken; without a waiter the request ends with an error.
Notify(h) ==
    /\ human[h].at = "notify" /\ Unlocked
    /\ human' = [human EXCEPT ![h] = IF waiters[human[h].id] = None
                                     THEN [at |-> "idle"]
                                     ELSE [@ EXCEPT !.at = "send"]]
    /\ UNCHANGED <<call, live, pending, waiters, chan, said, answers, ends>>

\* Sending and leaving the waiter where it is.
SendAndKeep(h) ==
    /\ human[h].at = "send"
    /\ LET c == waiters[human[h].id]
       IN  /\ chan[c] = None
           /\ chan' = [chan EXCEPT ![c] = human[h].key]
    /\ human' = [human EXCEPT ![h] = [at |-> "idle"]]
    /\ UNCHANGED <<call, live, pending, waiters, said, answers, ends>>

\* The answer is sent, which blocks while there is one in the channel, and the lock
\* is released.
Send(h) ==
    /\ human[h].at = "send"
    /\ LET c == waiters[human[h].id]
       IN  /\ chan[c] = None
           /\ chan' = [chan EXCEPT ![c] = human[h].key]
    /\ waiters' = [waiters EXCEPT ![human[h].id] = None]
    /\ human' = [human EXCEPT ![h] = [at |-> "idle"]]
    /\ UNCHANGED <<call, live, pending, said, answers, ends>>

(***************************************************************************)
(* The process ends and starts again: the records stay, calls are gone.    *)
(***************************************************************************)
End ==
    /\ ends < MaxEnds
    /\ ends' = ends + 1
    /\ call' = [c \in Callers |-> IF call[c].at \in {"idle", "over"} THEN call[c]
                                  ELSE [call[c] EXCEPT !.at = "over", !.got = Result(c, "deny")]]
    /\ waiters' = [i \in Ids |-> None]
    /\ chan' = [c \in Callers |-> None]
    /\ human' = [h \in Humans |-> [at |-> "idle"]]
    /\ UNCHANGED <<live, pending, said, answers>>

Prompt(c) == Begin(c) \/ Put(c) \/ Register(c) \/ Select(c) \/ Leave(c)
Respond(h) == Look(h) \/ Decide(h) \/ Delete(h) \/ Notify(h) \/ Send(h)

Next ==
    \/ \E c \in Callers : Prompt(c)
    \/ \E c \in Actions : Cancel(c)
    \/ \E h \in Humans : Respond(h)
    \/ End

Spec == Init /\ [][Next]_vars

(***************************************************************************)
(* Properties.                                                             *)
(***************************************************************************)
\* An attempt of an action goes on only after a human has read the prompt of this very
\* attempt and approved it, whatever is answered late, twice or for another prompt.
RunsApproved ==
    \A c \in Actions :
        call[c].got = "approve" => <<c, call[c].n>> \in said

\* Whoever is found among the waiters is still inside the call with that id: no answer
\* is acknowledged for a call that has returned.
WaitersAreInside ==
    \A i \in Ids :
        waiters[i] # None => call[waiters[i]].at \in {"wait", "leave"} /\ Id(waiters[i]) = i

\* The gateway's lock is never held for a channel that is full: an answer that is sent
\* under it always finds a waiter and room, so nobody waits for ever for the lock.
SendIsFree ==
    \A h \in Humans :
        human[h].at = "send" => /\ waiters[human[h].id] # None
                                /\ chan[waiters[human[h].id]] = None

Answering(id) == \E h \in Humans : human[h].at \in {"delete", "notify", "send"}
                                   /\ human[h].id = id

\* The list of pending approvals has every request that waits (gateway.go:97).
PendingListsAll ==
    \A c \in Callers :
        call[c].at = "wait" /\ (c \in Actions => c \in live) /\ chan[c] = None
        => pending[Id(c)] # None \/ Answering(Id(c))
=============================================================================

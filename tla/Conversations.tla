--------------------------- MODULE Conversations ----------------------------
(***************************************************************************)
(* A conversation: the rows of one session in chat_messages, and the turns *)
(* that read and write them: requests of the web page (handleAgentStream)  *)
(* and messages of a chat channel (dispatchChannelMessage).  Nothing makes *)
(* the turns of a session wait for each other.  A long conversation is     *)
(* compacted by the turn that finds it too long.                           *)
(*                                                                         *)
(* Texts are abstracted: a message is the question or the reply of a turn, *)
(* or the summary that a turn has written; whether a text is too long is   *)
(* open.  The system prompt, which is never stored, is left out of the     *)
(* histories; it is always in the part that a summary stands for.          *)
(***************************************************************************)
EXTENDS Naturals, Sequences

CONSTANTS
    WebTurns,       \* requests of the page in this session
    ChannelTurns,   \* messages of a chat channel in this session
    ForeignKeys,    \* whether the connection enforces REFERENCES: store.go asks for it in
                    \* the words of another driver than the one it opens
    MaxRounds,      \* maxToolRounds
    MaxDeletes,     \* bound on the user's deletions of the session
    MaxEnds         \* bound on ends of the process

Turns == WebTurns \cup ChannelTurns

ASSUME ConversationsAssumption ==
    /\ WebTurns \cap ChannelTurns = {}
    /\ ForeignKeys \in BOOLEAN
    /\ MaxRounds \in Nat \ {0} /\ MaxDeletes \in Nat /\ MaxEnds \in Nat

Question(t) == <<"question", t>>
Reply(t) == <<"reply", t>>
Summary(t) == <<"summary", t>>
Messages == {"question", "reply", "summary"} \X Turns

VARIABLES
    session,    \* whether the row of chat_sessions is there
    rows,       \* chat_messages of the session, ORDER BY id
    turn,       \* where each turn is, and what it holds: the history it has read, the
                \* tail that its compaction keeps, its rounds of inference
    deletes,    \* deletions so far
    ends        \* ends of the process so far

vars == <<session, rows, turn, deletes, ends>>

Positions ==
    [at : {"idle", "ensure", "load", "reply", "over"}]
    \cup [at : {"question", "compact"}, history : Seq(Messages)]
    \cup [at : {"summary", "persist"}, history : Seq(Messages), tail : Seq(Messages)]
    \cup [at : {"infer"}, round : 0 .. MaxRounds]

TypeOK ==
    /\ session \in BOOLEAN
    /\ rows \in Seq(Messages)
    /\ turn \in [Turns -> Positions]
    /\ deletes \in 0 .. MaxDeletes /\ ends \in 0 .. MaxEnds

Init ==
    /\ session = FALSE /\ rows = <<>>
    /\ turn = [t \in Turns |-> [at |-> "idle"]]
    /\ deletes = 0 /\ ends = 0

Goto(t, position) == turn' = [turn EXCEPT ![t] = position]
Over(t) == Goto(t, [at |-> "over"])
GoOn(t) == Goto(t, [at |-> "infer", round |-> 0])

\* A statement that writes messages may fail, as all do once the page has been closed
\* and the context of its turn is done; and it fails when the session is not there.
Write(new) == rows' = rows \/ ((ForeignKeys => session) /\ rows' = new)

\* saveMessage: an error is logged, and the turn goes on.
Save(message) == Write(Append(rows, message))

(***************************************************************************)
(* A turn.                                                                 *)
(***************************************************************************)

\* A channel's turn looks for a provider before anything else.
Begin(t) ==
    /\ turn[t].at = "idle"
    /\ \/ Goto(t, [at |-> "ensure"])
       \/ t \in ChannelTurns /\ Over(t)
    /\ UNCHANGED <<session, rows, deletes, ends>>

\* INSERT OR IGNORE INTO chat_sessions; then the hook message.before may refuse.
ensureSession(t) ==
    /\ turn[t].at = "ensure"
    /\ \/ UNCHANGED session /\ Over(t)
       \/ session' = TRUE /\ (Over(t) \/ Goto(t, [at |-> "load"]))
    /\ UNCHANGED <<rows, deletes, ends>>

loadMessages(t) ==
    /\ turn[t].at = "load"
    /\ Over(t) \/ Goto(t, [at |-> "question", history |-> rows])
    /\ UNCHANGED <<session, rows, deletes, ends>>

\* The page's turn then looks for a provider, and at the length of its history.
SaveQuestion(t) ==
    /\ turn[t].at = "question"
    /\ Save(Question(t))
    /\ \/ GoOn(t)
       \/ /\ t \in WebTurns
          /\ \/ Over(t)
             \/ Goto(t, [at |-> "compact",
                         history |-> Append(turn[t].history, Question(t))])
    /\ UNCHANGED <<session, deletes, ends>>

\* Compact: the hook session.compact.before may refuse.  The tail has no more than
\* tailTokens: nothing of a last message that is longer, and everything if only the
\* system prompt is long.
Compact(t) ==
    /\ turn[t].at = "compact"
    /\ LET history == turn[t].history
       IN  \/ GoOn(t)
           \/ \E n \in 0 .. Len(history) :
                 Goto(t, [at |-> "summary", history |-> history,
                          tail |-> SubSeq(history, n + 1, Len(history))])
    /\ UNCHANGED <<session, rows, deletes, ends>>

\* The provider writes the summary, or fails, or never ends its stream: nothing limits
\* the time of a stream but the context of the page's request, which ends with the page.
summarize(t) ==
    /\ turn[t].at = "summary"
    /\ GoOn(t) \/ Goto(t, [turn[t] EXCEPT !.at = "persist"])
    /\ UNCHANGED <<session, rows, deletes, ends>>

Compacted(t) == <<Summary(t)>> \o turn[t].tail

\* A transaction in which the DELETE has been forgotten.
persistWithoutDelete(t) ==
    /\ turn[t].at = "persist"
    /\ Write(rows \o Compacted(t))
    /\ GoOn(t)
    /\ UNCHANGED <<session, deletes, ends>>

\* One transaction: DELETE of all rows, INSERT of the summary and of the tail.  If it
\* fails the turn goes on with the history it has.
persistCompacted(t) ==
    /\ turn[t].at = "persist"
    /\ Write(Compacted(t))
    /\ GoOn(t)
    /\ UNCHANGED <<session, deletes, ends>>

\* A loop without a bound.
InferOnAndOn(t) ==
    /\ turn[t].at = "infer"
    /\ \/ Over(t)
       \/ Goto(t, [at |-> "reply"])
       \/ Goto(t, [turn[t] EXCEPT !.round = (@ + 1) % MaxRounds])
    /\ UNCHANGED <<session, rows, deletes, ends>>

\* A round of inference: tools are called and their results are for this turn only, or
\* the reply is complete.  It ends the turn if the provider fails, the reply is empty or
\* the page has been closed.  The stream of the round may never end; a channel's turn has
\* no context that would end it (context.Background()).  After the last round the reply
\* is what there is.
Infer(t) ==
    /\ turn[t].at = "infer"
    /\ \/ Over(t)
       \/ Goto(t, [at |-> "reply"])
       \/ turn[t].round + 1 < MaxRounds /\ Goto(t, [turn[t] EXCEPT !.round = @ + 1])
    /\ UNCHANGED <<session, rows, deletes, ends>>

\* The page has been shown the reply by now; a channel gets it when it is stored.
SaveReply(t) ==
    /\ turn[t].at = "reply"
    /\ Save(Reply(t))
    /\ Over(t)
    /\ UNCHANGED <<session, deletes, ends>>

Step(t) ==
    \/ ensureSession(t) \/ loadMessages(t) \/ SaveQuestion(t)
    \/ Compact(t) \/ persistCompacted(t) \/ SaveReply(t)

\* What waits for a provider.
Receive(t) == summarize(t) \/ Infer(t)

(***************************************************************************)
(* What happens around the turns.                                          *)
(***************************************************************************)

\* handleDeleteSession: ON DELETE CASCADE, or the messages stay behind.
DeleteSession ==
    /\ session /\ deletes < MaxDeletes
    /\ deletes' = deletes + 1
    /\ session' = FALSE
    /\ rows' = IF ForeignKeys THEN <<>> ELSE rows
    /\ UNCHANGED <<turn, ends>>

\* The process ends, with its turns.
End ==
    /\ ends < MaxEnds
    /\ ends' = ends + 1
    /\ turn' = [t \in Turns |-> IF turn[t].at = "idle" THEN turn[t] ELSE [at |-> "over"]]
    /\ UNCHANGED <<session, rows, deletes>>

Next ==
    \/ \E t \in Turns : Begin(t) \/ Step(t) \/ Receive(t)
    \/ DeleteSession
    \/ End

\* Statements return; nobody has to ask anything, and no provider has to answer.
Spec == Init /\ [][Next]_vars /\ \A t \in Turns : WF_vars(Step(t))

(***************************************************************************)
(* Properties.                                                             *)
(***************************************************************************)

\* A sequence in which no message is twice and every reply is behind its question.
Ordered(s) ==
    \A i, j \in DOMAIN s :
        /\ s[i] = s[j] => i = j
        /\ \A t \in Turns : s[i] = Question(t) /\ s[j] = Reply(t) => i < j

\* Whatever turns overlap, are cut short or rewrite the conversation: no message is
\* stored twice, and a reply stands behind its question.
OnceInOrder == Ordered(rows)

\* One call of a provider by the turn never returns.
Stalls(t) ==
    \/ <>[](turn[t].at = "summary")
    \/ \E n \in 0 .. MaxRounds : <>[](turn[t] = [at |-> "infer", round |-> n])

\* Every turn that has begun comes to an end, whatever the others do or wait for, unless
\* one of its own calls of a provider never returns.
TurnsEnd == \A t \in Turns : Stalls(t) \/ (turn[t].at = "ensure" ~> turn[t].at = "over")

\* A compaction replaces messages by their summary and keeps the last ones
\* (compressor.go:60); it takes away no message that it has not read.
ReplacesWhatItRead ==
    [][\A t \in Turns :
         turn[t].at = "persist" /\ turn'[t].at = "infer" /\ rows' # rows =>
             \A i \in DOMAIN rows :
                \E j \in DOMAIN turn[t].history : rows[i] = turn[t].history[j]]_vars

\* Calls of a model have a deadline (docs/specs/01-Go-Code.md:184), so every turn that
\* has begun comes to an end.
AllTurnsEnd == \A t \in Turns : turn[t].at = "ensure" ~> turn[t].at = "over"
=============================================================================

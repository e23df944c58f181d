------------------------ MODULE ConversationsProofs -------------------------
(***************************************************************************)
(* Proofs about Conversations, for any number of turns, with and without   *)
(* foreign keys.                                                           *)
(*                                                                         *)
(* OnceInOrder is about the table alone and is not inductive: what a turn  *)
(* has read comes back when it compacts.  Inv adds that every history and  *)
(* every tail is in order too, and that nobody has read or stored what its *)
(* turn has not yet said.                                                  *)
(***************************************************************************)
EXTENDS Conversations, TLAPS

Elements(s) == {s[i] : i \in DOMAIN s}

\* What the turns may have said by now.
Said ==
    {m \in Messages :
        LET t == m[2]
        IN  \/ m[1] = "question" /\ turn[t].at \notin {"idle", "ensure", "load", "question"}
            \/ m[1] = "summary" /\ turn[t].at \in {"infer", "reply", "over"}
            \/ m[1] = "reply" /\ turn[t].at = "over"}

Sound(s) == Ordered(s) /\ Elements(s) \subseteq Said

HistoriesAreSound ==
    \A t \in Turns :
        /\ turn[t].at \in {"question", "compact", "summary", "persist"} =>
              Sound(turn[t].history)
        /\ turn[t].at \in {"summary", "persist"} => Sound(turn[t].tail)

Inv == TypeOK /\ Sound(rows) /\ HistoriesAreSound

(***************************************************************************)
(* Sequences.                                                              *)
(***************************************************************************)

\* A message that is new, and a question before its reply, can be put at the end.
LEMMA AppendIsOrdered ==
    ASSUME NEW s \in Seq(Messages), NEW m \in Messages, Ordered(s), m \notin Elements(s),
           \A t \in Turns : m = Question(t) => Reply(t) \notin Elements(s)
    PROVE  Ordered(Append(s, m))
<1> DEFINE a == Append(s, m)
<1>1. /\ a \in Seq(Messages) /\ Len(a) = Len(s) + 1 /\ Len(s) \in Nat
      /\ DOMAIN a = 1 .. Len(s) + 1 /\ DOMAIN s = 1 .. Len(s)
      /\ a[Len(s) + 1] = m
      /\ \A i \in 1 .. Len(s) : a[i] = s[i]
  OBVIOUS
<1>2. \A i \in 1 .. Len(s) : a[i] \in Elements(s)
  BY <1>1 DEF Elements
<1>3. \A t \in Turns : Question(t) # Reply(t)
  BY DEF Question, Reply
<1> HIDE DEF a
<1>4. SUFFICES ASSUME NEW i \in DOMAIN a, NEW j \in DOMAIN a
               PROVE  /\ a[i] = a[j] => i = j
                      /\ \A t \in Turns : a[i] = Question(t) /\ a[j] = Reply(t) => i < j
  BY DEF Ordered, a
<1>5. CASE i \in 1 .. Len(s) /\ j \in 1 .. Len(s)
  BY <1>1, <1>5 DEF Ordered
<1>6. CASE i = Len(s) + 1 /\ j = Len(s) + 1
  BY <1>1, <1>3, <1>6
<1>7. CASE i \in 1 .. Len(s) /\ j = Len(s) + 1
  BY <1>1, <1>2, <1>7
<1>8. CASE i = Len(s) + 1 /\ j \in 1 .. Len(s)
  BY <1>1, <1>2, <1>8
<1>9. QED
  BY <1>1, <1>4, <1>5, <1>6, <1>7, <1>8

LEMMA AppendElements ==
    ASSUME NEW s \in Seq(Messages), NEW m \in Messages
    PROVE  Elements(Append(s, m)) = Elements(s) \cup {m}
<1>1. /\ DOMAIN Append(s, m) = 1 .. Len(s) + 1 /\ DOMAIN s = 1 .. Len(s) /\ Len(s) \in Nat
      /\ Append(s, m)[Len(s) + 1] = m
      /\ \A i \in 1 .. Len(s) : Append(s, m)[i] = s[i]
  OBVIOUS
<1>2. ASSUME NEW x PROVE x \in Elements(Append(s, m)) <=> x \in Elements(s) \/ x = m
  <2>1. x \in Elements(Append(s, m)) <=> \E i \in 1 .. Len(s) + 1 : x = Append(s, m)[i]
    BY <1>1 DEF Elements
  <2>2. x \in Elements(s) <=> \E i \in 1 .. Len(s) : x = s[i]
    BY <1>1 DEF Elements
  <2>3. QED
    BY <1>1, <2>1, <2>2
<1>3. QED
  BY <1>2

\* The end of a sequence in order is in order.
LEMMA TailIsOrdered ==
    ASSUME NEW s \in Seq(Messages), NEW n \in 0 .. Len(s)
    PROVE  LET e == SubSeq(s, n + 1, Len(s))
           IN  /\ e \in Seq(Messages)
               /\ Ordered(s) => Ordered(e)
               /\ Elements(e) \subseteq Elements(s)
<1> DEFINE e == SubSeq(s, n + 1, Len(s))
<1>1. /\ e \in Seq(Messages) /\ Len(s) \in Nat /\ n \in Nat /\ n <= Len(s)
      /\ DOMAIN e = 1 .. Len(s) - n /\ DOMAIN s = 1 .. Len(s)
      /\ \A i \in 1 .. Len(s) - n : e[i] = s[n + i]
  OBVIOUS
<1> HIDE DEF e
<1>2. \A i \in DOMAIN e : i + n \in DOMAIN s /\ e[i] = s[i + n]
  BY <1>1
<1>3. Ordered(s) => Ordered(e)
  <2>1. SUFFICES ASSUME Ordered(s), NEW i \in DOMAIN e, NEW j \in DOMAIN e
                 PROVE  /\ e[i] = e[j] => i = j
                        /\ \A t \in Turns : e[i] = Question(t) /\ e[j] = Reply(t) => i < j
    BY DEF Ordered
  <2>2. i \in Nat /\ j \in Nat /\ n \in Nat
    BY <1>1
  <2>3. /\ s[i + n] = s[j + n] => i + n = j + n
        /\ \A t \in Turns : s[i + n] = Question(t) /\ s[j + n] = Reply(t) => i + n < j + n
    BY <1>2, <2>1 DEF Ordered
  <2>4. QED
    BY <1>2, <2>2, <2>3
<1>4. Elements(e) \subseteq Elements(s)
  BY <1>2 DEF Elements
<1>5. QED
  BY <1>1, <1>3, <1>4 DEF e

\* A summary that is new can be put in front.
LEMMA SummaryInFront ==
    ASSUME NEW s \in Seq(Messages), NEW u \in Turns, Ordered(s),
           Summary(u) \notin Elements(s)
    PROVE  LET c == <<Summary(u)>> \o s
           IN  /\ c \in Seq(Messages)
               /\ Ordered(c)
               /\ Elements(c) = Elements(s) \cup {Summary(u)}
<1> DEFINE c == <<Summary(u)>> \o s
<1>1. Summary(u) \in Messages
  BY DEF Summary, Messages
<1>2. /\ c \in Seq(Messages) /\ Len(s) \in Nat
      /\ DOMAIN c = 1 .. Len(s) + 1 /\ DOMAIN s = 1 .. Len(s)
      /\ c[1] = Summary(u)
      /\ \A i \in 2 .. Len(s) + 1 : c[i] = s[i - 1]
  BY <1>1
<1> HIDE DEF c
<1>3. \A i \in DOMAIN c : i = 1 \/ (i # 1 /\ i - 1 \in DOMAIN s /\ c[i] = s[i - 1])
  BY <1>2
<1>4. \A i \in DOMAIN c : i # 1 => c[i] \in Elements(s)
  BY <1>3 DEF Elements
<1>5. \A t \in Turns : Summary(u) # Question(t) /\ Summary(u) # Reply(t)
  BY DEF Summary, Question, Reply
<1>6. Ordered(c)
  <2>1. SUFFICES ASSUME NEW i \in DOMAIN c, NEW j \in DOMAIN c
                 PROVE  /\ c[i] = c[j] => i = j
                        /\ \A t \in Turns : c[i] = Question(t) /\ c[j] = Reply(t) => i < j
    BY DEF Ordered
  <2>2. CASE i = 1 \/ j = 1
    BY <1>2, <1>4, <1>5, <2>1, <2>2
  <2>3. CASE i # 1 /\ j # 1
    <3>1. /\ s[i - 1] = s[j - 1] => i - 1 = j - 1
          /\ \A t \in Turns : s[i - 1] = Question(t) /\ s[j - 1] = Reply(t) => i - 1 < j - 1
      BY <1>3, <2>1, <2>3 DEF Ordered
    <3>2. i \in Nat /\ j \in Nat
      BY <1>2, <2>1
    <3>3. QED
      BY <1>3, <2>1, <2>3, <3>1, <3>2
  <2>4. QED
    BY <2>2, <2>3
<1>7. Elements(c) = Elements(s) \cup {Summary(u)}
  <2>1. \A x : x \in Elements(c) => x \in Elements(s) \cup {Summary(u)}
    BY <1>2, <1>4 DEF Elements
  <2>2. \A i \in DOMAIN s : i + 1 \in DOMAIN c /\ c[i + 1] = s[i]
    BY <1>2
  <2>3. 1 \in DOMAIN c
    BY <1>2
  <2>4. \A x : x \in Elements(s) \cup {Summary(u)} => x \in Elements(c)
    BY <1>2, <2>2, <2>3 DEF Elements
  <2>5. QED
    BY <2>1, <2>4
<1>8. QED
  BY <1>2, <1>6, <1>7 DEF c

(***************************************************************************)
(* Turns.                                                                  *)
(***************************************************************************)

LEMMA WhatTurnsHold ==
    ASSUME NEW p \in Positions
    PROVE  /\ p.at \in {"question", "compact", "summary", "persist"} =>
                 p.history \in Seq(Messages)
           /\ p.at \in {"summary", "persist"} => p.tail \in Seq(Messages)
           /\ p.at = "infer" => p.round \in 0 .. MaxRounds
BY DEF Positions

\* What a turn has said, and nobody could have said before it.
LEMMA SaidBefore ==
    ASSUME NEW t \in Turns
    PROVE  /\ Question(t) \in Messages /\ Reply(t) \in Messages /\ Summary(t) \in Messages
           /\ Question(t) \in Said <=>
                 turn[t].at \notin {"idle", "ensure", "load", "question"}
           /\ Summary(t) \in Said <=> turn[t].at \in {"infer", "reply", "over"}
           /\ Reply(t) \in Said <=> turn[t].at = "over"
BY DEF Question, Reply, Summary, Messages, Said

\* A turn that goes from one position to a later one takes nothing back.
LEMMA SaidGrows ==
    ASSUME TypeOK, NEW t \in Turns, NEW p, turn' = [turn EXCEPT ![t] = p],
           \/ turn[t].at \in {"idle", "ensure", "load", "question"}
           \/ turn[t].at \in {"compact", "summary", "persist"}
              /\ p.at \notin {"idle", "ensure", "load", "question"}
           \/ turn[t].at \in {"infer", "reply", "over"} /\ p.at \in {"infer", "reply"}
              /\ turn[t].at # "over"
           \/ p.at = "over"
    PROVE  Said \subseteq Said'
<1>1. SUFFICES ASSUME NEW m \in Said PROVE m \in Said'
  OBVIOUS
<1>2. m \in Messages /\ m[2] \in Turns
  BY DEF Said, Messages
<1>3. CASE m[2] = t
  <2>1. turn'[t] = p
    BY DEF TypeOK
  <2>2. QED
    BY <1>1, <1>2, <1>3, <2>1 DEF Said
<1>4. CASE m[2] # t
  <2>1. turn'[m[2]] = turn[m[2]]
    BY <1>2, <1>4 DEF TypeOK
  <2>2. QED
    BY <1>1, <1>2, <2>1 DEF Said
<1>5. QED
  BY <1>3, <1>4

\* What is left to show when one turn moves: that it keeps sound what it takes along.
LEMMA OneTurnMoves ==
    ASSUME Inv, NEW t \in Turns, NEW p \in Positions, turn' = [turn EXCEPT ![t] = p],
           Said \subseteq Said',
           p.at \in {"question", "compact", "summary", "persist"} =>
               Ordered(p.history) /\ Elements(p.history) \subseteq Said',
           p.at \in {"summary", "persist"} => Ordered(p.tail) /\ Elements(p.tail) \subseteq Said'
    PROVE  HistoriesAreSound' /\ turn' \in [Turns -> Positions]
<1>1. turn' \in [Turns -> Positions]
  BY DEF Inv, TypeOK
<1>2. SUFFICES ASSUME NEW u \in Turns
               PROVE  /\ turn'[u].at \in {"question", "compact", "summary", "persist"} =>
                            /\ Ordered(turn'[u].history)
                            /\ Elements(turn'[u].history) \subseteq Said'
                      /\ turn'[u].at \in {"summary", "persist"} =>
                            /\ Ordered(turn'[u].tail)
                            /\ Elements(turn'[u].tail) \subseteq Said'
  BY <1>1 DEF HistoriesAreSound, Sound, Ordered, Elements
<1>3. CASE u = t
  BY <1>3 DEF Inv, TypeOK
<1>4. CASE u # t
  <2>1. turn'[u] = turn[u]
    BY <1>4 DEF Inv, TypeOK
  <2>2. QED
    BY <2>1 DEF Inv, HistoriesAreSound, Sound
<1>5. QED
  BY <1>3, <1>4

\* A statement that fails changes nothing, and one that does not writes what is sound.
LEMMA Written ==
    ASSUME TypeOK, Sound(rows), Said \subseteq Said', NEW new \in Seq(Messages), Write(new),
           Ordered(new), Elements(new) \subseteq Said'
    PROVE  rows' \in Seq(Messages) /\ Sound(rows)'
<1>1. rows' = rows \/ rows' = new
  BY DEF Write
<1>2. rows' \in Seq(Messages) /\ Ordered(rows') /\ Elements(rows') \subseteq Said'
  BY <1>1 DEF TypeOK, Sound
<1>3. QED
  BY <1>2 DEF Sound, Ordered, Elements

\* A step that leaves the table as it is.
LEMMA Unwritten ==
    ASSUME TypeOK, Sound(rows), Said \subseteq Said', UNCHANGED rows
    PROVE  rows' \in Seq(Messages) /\ Sound(rows)'
<1>1. rows' \in Seq(Messages) /\ Ordered(rows') /\ Elements(rows') \subseteq Said'
  BY DEF TypeOK, Sound
<1>2. QED
  BY <1>1 DEF Sound, Ordered, Elements

(***************************************************************************)
(* Steps.                                                                  *)
(***************************************************************************)

LEMMA InitInv == Init => Inv
<1>1. ASSUME Init PROVE TypeOK
  <2>1. [at |-> "idle"] \in Positions
    BY DEF Positions
  <2>2. turn \in [Turns -> Positions]
    BY <1>1, <2>1 DEF Init
  <2>3. session \in BOOLEAN /\ rows \in Seq(Messages)
    <3>1. session \in BOOLEAN
      BY <1>1 DEF Init
    <3>2. <<>> \in Seq(Messages) /\ rows = <<>>
      BY <1>1 DEF Init
    <3>3. QED
      BY <3>1, <3>2
  <2>4. deletes \in 0 .. MaxDeletes /\ ends \in 0 .. MaxEnds
    <3>1. deletes = 0 /\ ends = 0
      BY <1>1 DEF Init
    <3>2. QED
      BY <3>1, ConversationsAssumption
  <2>5. QED
    BY <2>2, <2>3, <2>4 DEF TypeOK
<1>2. ASSUME Init PROVE Sound(rows) /\ HistoriesAreSound
  BY <1>2 DEF Init, Sound, Ordered, Elements, HistoriesAreSound
<1>3. QED
  BY <1>1, <1>2 DEF Inv

LEMMA NextInv == Inv /\ [Next]_vars => Inv'
<1>1. SUFFICES ASSUME Inv, [Next]_vars PROVE Inv'
  OBVIOUS
<1>2. TypeOK /\ Sound(rows) /\ HistoriesAreSound
  BY <1>1 DEF Inv
<1>3. /\ \A s \in {"idle", "ensure", "load", "reply", "over"} : [at |-> s] \in Positions
      /\ [at |-> "infer", round |-> 0] \in Positions
  BY ConversationsAssumption DEF Positions
<1>4. ASSUME NEW t \in Turns, Begin(t) PROVE Inv'
  <2>1. PICK p \in {[at |-> "ensure"], [at |-> "over"]} : turn' = [turn EXCEPT ![t] = p]
    BY <1>4 DEF Begin, Goto, Over
  <2>2. p \in Positions /\ p.at \in {"ensure", "over"} /\ turn[t].at = "idle"
    BY <1>3, <1>4, <2>1 DEF Begin
  <2>3. Said \subseteq Said'
    BY <1>2, <2>1, <2>2, SaidGrows
  <2>4. HistoriesAreSound' /\ turn' \in [Turns -> Positions]
    BY <1>1, <2>1, <2>2, <2>3, OneTurnMoves
  <2>5. rows' \in Seq(Messages) /\ Sound(rows)'
    BY <1>2, <1>4, <2>3, Unwritten DEF Begin
  <2>6. QED
    BY <1>2, <1>4, <2>4, <2>5 DEF Inv, TypeOK, Begin
<1>5. ASSUME NEW t \in Turns, ensureSession(t) PROVE Inv'
  <2>1. PICK p \in {[at |-> "load"], [at |-> "over"]} : turn' = [turn EXCEPT ![t] = p]
    BY <1>5 DEF ensureSession, Goto, Over
  <2>2. p \in Positions /\ p.at \in {"load", "over"} /\ turn[t].at = "ensure"
    BY <1>3, <1>5, <2>1 DEF ensureSession
  <2>3. Said \subseteq Said'
    BY <1>2, <2>1, <2>2, SaidGrows
  <2>4. HistoriesAreSound' /\ turn' \in [Turns -> Positions]
    BY <1>1, <2>1, <2>2, <2>3, OneTurnMoves
  <2>5. rows' \in Seq(Messages) /\ Sound(rows)'
    BY <1>2, <1>5, <2>3, Unwritten DEF ensureSession
  <2>6. session' \in BOOLEAN
    BY <1>2, <1>5 DEF ensureSession, TypeOK
  <2>7. QED
    BY <1>2, <1>5, <2>4, <2>5, <2>6 DEF Inv, TypeOK, ensureSession
<1>6. ASSUME NEW t \in Turns, loadMessages(t) PROVE Inv'
  <2>1. PICK p \in {[at |-> "over"], [at |-> "question", history |-> rows]} :
            turn' = [turn EXCEPT ![t] = p]
    BY <1>6 DEF loadMessages, Goto, Over
  <2>2. /\ p \in Positions /\ p.at \in {"question", "over"} /\ turn[t].at = "load"
        /\ p.at = "question" => p.history = rows
    <3>1. [at |-> "question", history |-> rows] \in Positions
      BY <1>2 DEF TypeOK, Positions
    <3>2. QED
      BY <1>3, <1>6, <2>1, <3>1 DEF loadMessages
  <2>3. Said \subseteq Said'
    BY <1>2, <2>1, <2>2, SaidGrows
  <2>4. HistoriesAreSound' /\ turn' \in [Turns -> Positions]
    <3>1. Ordered(rows) /\ Elements(rows) \subseteq Said'
      BY <1>2, <2>3 DEF Sound
    <3>2. QED
      BY <1>1, <2>1, <2>2, <2>3, <3>1, OneTurnMoves
  <2>5. rows' \in Seq(Messages) /\ Sound(rows)'
    BY <1>2, <1>6, <2>3, Unwritten DEF loadMessages
  <2>6. QED
    BY <1>2, <1>6, <2>4, <2>5 DEF Inv, TypeOK, loadMessages
<1>7. ASSUME NEW t \in Turns, SaveQuestion(t) PROVE Inv'
  <2> DEFINE h == turn[t].history
  <2>1. turn[t] \in Positions /\ turn[t].at = "question"
    BY <1>2, <1>7 DEF TypeOK, SaveQuestion
  <2>2. /\ Question(t) \in Messages /\ Question(t) \notin Said /\ Reply(t) \notin Said
        /\ \A u \in Turns : Question(t) = Question(u) => u = t
    BY <2>1, SaidBefore DEF Question
  <2>3. h \in Seq(Messages) /\ Ordered(h) /\ Elements(h) \subseteq Said
    BY <1>2, <2>1, WhatTurnsHold DEF HistoriesAreSound, Sound
  <2>4. rows \in Seq(Messages) /\ Ordered(rows) /\ Elements(rows) \subseteq Said
    BY <1>2 DEF TypeOK, Sound
  <2> HIDE DEF h
  <2>5. Ordered(Append(h, Question(t)))
        /\ Elements(Append(h, Question(t))) = Elements(h) \cup {Question(t)}
    BY <2>2, <2>3, AppendIsOrdered, AppendElements
  <2>6. Ordered(Append(rows, Question(t)))
        /\ Elements(Append(rows, Question(t))) = Elements(rows) \cup {Question(t)}
    BY <2>2, <2>4, AppendIsOrdered, AppendElements
  <2>7. PICK p \in {[at |-> "over"], [at |-> "infer", round |-> 0],
                    [at |-> "compact", history |-> Append(h, Question(t))]} :
            turn' = [turn EXCEPT ![t] = p]
    BY <1>7 DEF SaveQuestion, Goto, Over, GoOn, h
  <2>8. /\ p \in Positions /\ p.at \in {"over", "infer", "compact"}
        /\ p.at = "compact" => p.history = Append(h, Question(t))
    <3>1. [at |-> "compact", history |-> Append(h, Question(t))] \in Positions
      BY <2>2, <2>3 DEF Positions
    <3>2. CASE p = [at |-> "over"]
      BY <1>3, <3>2
    <3>3. CASE p = [at |-> "infer", round |-> 0]
      BY <1>3, <3>3
    <3>4. CASE p = [at |-> "compact", history |-> Append(h, Question(t))]
      BY <3>1, <3>4
    <3>5. QED
      BY <2>7, <3>2, <3>3, <3>4
  <2>9. Said \subseteq Said'
    BY <1>2, <2>1, <2>7, <2>8, SaidGrows
  <2>10. Question(t) \in Said'
    <3>1. turn'[t] = p
      BY <1>2, <2>7 DEF TypeOK
    <3>2. QED
      BY <2>2, <2>8, <3>1 DEF Said, Question
  <2>11. HistoriesAreSound' /\ turn' \in [Turns -> Positions]
    BY <1>1, <2>3, <2>5, <2>7, <2>8, <2>9, <2>10, OneTurnMoves
  <2>12. rows' \in Seq(Messages) /\ Sound(rows)'
    <3>1. Append(rows, Question(t)) \in Seq(Messages) /\ Write(Append(rows, Question(t)))
      BY <1>7, <2>2, <2>4 DEF SaveQuestion, Save
    <3>2. QED
      BY <1>2, <2>4, <2>6, <2>9, <2>10, <3>1, Written
  <2>13. QED
    BY <1>2, <1>7, <2>11, <2>12 DEF Inv, TypeOK, SaveQuestion
<1>8. ASSUME NEW t \in Turns, Compact(t) PROVE Inv'
  <2> DEFINE h == turn[t].history
             e(n) == SubSeq(h, n + 1, Len(h))
             q(n) == [at |-> "summary", history |-> h, tail |-> e(n)]
  <2>1. turn[t] \in Positions /\ turn[t].at = "compact"
    BY <1>2, <1>8 DEF TypeOK, Compact
  <2>2. h \in Seq(Messages) /\ Ordered(h) /\ Elements(h) \subseteq Said
    BY <1>2, <2>1, WhatTurnsHold DEF HistoriesAreSound, Sound
  <2>3. \/ turn' = [turn EXCEPT ![t] = [at |-> "infer", round |-> 0]]
        \/ \E n \in 0 .. Len(h) : turn' = [turn EXCEPT ![t] = q(n)]
    BY <1>8 DEF Compact, Goto, GoOn
  <2> HIDE DEF h
  <2>4. PICK p : /\ turn' = [turn EXCEPT ![t] = p]
                 /\ \/ p = [at |-> "infer", round |-> 0]
                    \/ \E n \in 0 .. Len(h) : p = q(n)
    BY <2>3
  <2>5. \A n \in 0 .. Len(h) :
           e(n) \in Seq(Messages) /\ Ordered(e(n)) /\ Elements(e(n)) \subseteq Said
    BY <2>2, TailIsOrdered
  <2> HIDE DEF e
  <2>6. \A n \in 0 .. Len(h) : q(n) \in Positions
    BY <2>2, <2>5 DEF Positions
  <2>7. /\ p \in Positions /\ p.at \in {"infer", "summary"}
        /\ p.at = "summary" => /\ p.history = h
                               /\ Ordered(p.tail) /\ Elements(p.tail) \subseteq Said
    BY <1>3, <2>4, <2>5, <2>6
  <2>8. Said \subseteq Said'
    BY <1>2, <2>1, <2>4, <2>7, SaidGrows
  <2>9. HistoriesAreSound' /\ turn' \in [Turns -> Positions]
    BY <1>1, <2>2, <2>4, <2>7, <2>8, OneTurnMoves
  <2>10. rows' \in Seq(Messages) /\ Sound(rows)'
    BY <1>2, <1>8, <2>8, Unwritten DEF Compact
  <2>11. QED
    BY <1>2, <1>8, <2>9, <2>10 DEF Inv, TypeOK, Compact
<1>9. ASSUME NEW t \in Turns, summarize(t) PROVE Inv'
  <2> DEFINE h == turn[t].history
             e == turn[t].tail
             q == [turn[t] EXCEPT !.at = "persist"]
  <2>1. turn[t] \in Positions /\ turn[t].at = "summary"
    BY <1>2, <1>9 DEF TypeOK, summarize
  <2>2. Ordered(h) /\ Elements(h) \subseteq Said /\ Ordered(e) /\ Elements(e) \subseteq Said
    BY <1>2, <2>1 DEF HistoriesAreSound, Sound
  <2>3. q \in Positions /\ q.at = "persist" /\ q.history = h /\ q.tail = e
    BY <2>1 DEF Positions
  <2>4. PICK p \in {[at |-> "infer", round |-> 0], q} : turn' = [turn EXCEPT ![t] = p]
    BY <1>9 DEF summarize, Goto, GoOn
  <2> HIDE DEF h, e, q
  <2>5. /\ p \in Positions /\ p.at \in {"infer", "persist"}
        /\ p.at = "persist" => p.history = h /\ p.tail = e
    BY <1>3, <2>3, <2>4
  <2>6. Said \subseteq Said'
    BY <1>2, <2>1, <2>4, <2>5, SaidGrows
  <2>7. HistoriesAreSound' /\ turn' \in [Turns -> Positions]
    BY <1>1, <2>2, <2>4, <2>5, <2>6, OneTurnMoves
  <2>8. rows' \in Seq(Messages) /\ Sound(rows)'
    BY <1>2, <1>9, <2>6, Unwritten DEF summarize
  <2>9. QED
    BY <1>2, <1>9, <2>7, <2>8 DEF Inv, TypeOK, summarize
<1>10. ASSUME NEW t \in Turns, persistCompacted(t) PROVE Inv'
  <2> DEFINE e == turn[t].tail
             p == [at |-> "infer", round |-> 0]
  <2>1. turn[t] \in Positions /\ turn[t].at = "persist"
    BY <1>2, <1>10 DEF TypeOK, persistCompacted
  <2>2. e \in Seq(Messages) /\ Ordered(e) /\ Elements(e) \subseteq Said
    BY <1>2, <2>1, WhatTurnsHold DEF HistoriesAreSound, Sound
  <2>3. Summary(t) \in Messages /\ Summary(t) \notin Said
    BY <2>1, SaidBefore
  <2>4. /\ Compacted(t) \in Seq(Messages) /\ Ordered(Compacted(t))
        /\ Elements(Compacted(t)) = Elements(e) \cup {Summary(t)}
    BY <2>2, <2>3, SummaryInFront DEF Compacted
  <2> HIDE DEF e
  <2>5. turn' = [turn EXCEPT ![t] = p] /\ p \in Positions
    BY <1>3, <1>10 DEF persistCompacted, GoOn, Goto
  <2>6. Said \subseteq Said'
    BY <1>2, <2>1, <2>5, SaidGrows
  <2>7. Summary(t) \in Said'
    <3>1. turn'[t] = p
      BY <1>2, <2>5 DEF TypeOK
    <3>2. QED
      BY <2>3, <3>1 DEF Said, Summary
  <2>8. HistoriesAreSound' /\ turn' \in [Turns -> Positions]
    BY <1>1, <2>5, <2>6, OneTurnMoves
  <2>9. rows' \in Seq(Messages) /\ Sound(rows)'
    <3>1. Write(Compacted(t))
      BY <1>10 DEF persistCompacted
    <3>2. QED
      BY <1>2, <2>2, <2>4, <2>6, <2>7, <3>1, Written
  <2>10. QED
    BY <1>2, <1>10, <2>8, <2>9 DEF Inv, TypeOK, persistCompacted
<1>11. ASSUME NEW t \in Turns, Infer(t) PROVE Inv'
  <2> DEFINE q == [turn[t] EXCEPT !.round = @ + 1]
  <2>1. turn[t] \in Positions /\ turn[t].at = "infer"
    BY <1>2, <1>11 DEF TypeOK, Infer
  <2>2. turn[t].round + 1 < MaxRounds => q \in Positions /\ q.at = "infer"
    BY <2>1, ConversationsAssumption DEF Positions
  <2>3. PICK p : /\ turn' = [turn EXCEPT ![t] = p]
                 /\ \/ p \in {[at |-> "over"], [at |-> "reply"]}
                    \/ turn[t].round + 1 < MaxRounds /\ p = q
    BY <1>11 DEF Infer, Goto, Over
  <2> HIDE DEF q
  <2>4. p \in Positions /\ p.at \in {"over", "reply", "infer"}
    <3>1. CASE p \in {[at |-> "over"], [at |-> "reply"]}
      BY <1>3, <3>1
    <3>2. CASE turn[t].round + 1 < MaxRounds /\ p = q
      BY <2>2, <3>2
    <3>3. QED
      BY <2>3, <3>1, <3>2
  <2>5. Said \subseteq Said'
    BY <1>2, <2>1, <2>3, <2>4, SaidGrows
  <2>6. HistoriesAreSound' /\ turn' \in [Turns -> Positions]
    BY <1>1, <2>3, <2>4, <2>5, OneTurnMoves
  <2>7. rows' \in Seq(Messages) /\ Sound(rows)'
    BY <1>2, <1>11, <2>5, Unwritten DEF Infer
  <2>8. QED
    BY <1>2, <1>11, <2>6, <2>7 DEF Inv, TypeOK, Infer
<1>12. ASSUME NEW t \in Turns, SaveReply(t) PROVE Inv'
  <2> DEFINE p == [at |-> "over"]
  <2>1. turn[t] \in Positions /\ turn[t].at = "reply"
    BY <1>2, <1>12 DEF TypeOK, SaveReply
  <2>2. /\ Reply(t) \in Messages /\ Reply(t) \notin Said
        /\ \A u \in Turns : Reply(t) # Question(u)
    BY <2>1, SaidBefore DEF Reply, Question
  <2>3. rows \in Seq(Messages) /\ Ordered(rows) /\ Elements(rows) \subseteq Said
    BY <1>2 DEF TypeOK, Sound
  <2>4. Ordered(Append(rows, Reply(t)))
        /\ Elements(Append(rows, Reply(t))) = Elements(rows) \cup {Reply(t)}
    BY <2>2, <2>3, AppendIsOrdered, AppendElements
  <2>5. turn' = [turn EXCEPT ![t] = p] /\ p \in Positions
    BY <1>3, <1>12 DEF SaveReply, Over, Goto
  <2>6. Said \subseteq Said'
    BY <1>2, <2>1, <2>5, SaidGrows
  <2>7. Reply(t) \in Said'
    <3>1. turn'[t] = p
      BY <1>2, <2>5 DEF TypeOK
    <3>2. QED
      BY <2>2, <3>1 DEF Said, Reply
  <2>8. HistoriesAreSound' /\ turn' \in [Turns -> Positions]
    BY <1>1, <2>5, <2>6, OneTurnMoves
  <2>9. rows' \in Seq(Messages) /\ Sound(rows)'
    <3>1. Append(rows, Reply(t)) \in Seq(Messages) /\ Write(Append(rows, Reply(t)))
      BY <1>12, <2>2, <2>3 DEF SaveReply, Save
    <3>2. QED
      BY <1>2, <2>3, <2>4, <2>6, <2>7, <3>1, Written
  <2>10. QED
    BY <1>2, <1>12, <2>8, <2>9 DEF Inv, TypeOK, SaveReply
<1>13. ASSUME DeleteSession PROVE Inv'
  <2>1. UNCHANGED turn
    BY <1>13 DEF DeleteSession
  <2>2. Said' = Said
    BY <2>1 DEF Said
  <2>3. HistoriesAreSound'
    BY <1>2, <2>1, <2>2 DEF HistoriesAreSound, Sound, Ordered, Elements
  <2>4. rows' \in Seq(Messages) /\ Ordered(rows') /\ Elements(rows') \subseteq Said'
    BY <1>2, <1>13, <2>2 DEF DeleteSession, TypeOK, Sound, Ordered, Elements
  <2>5. Sound(rows)'
    BY <2>4 DEF Sound, Ordered, Elements
  <2>6. deletes' \in 0 .. MaxDeletes
    BY <1>2, <1>13, ConversationsAssumption DEF TypeOK, DeleteSession
  <2>7. session' \in BOOLEAN /\ ends' \in 0 .. MaxEnds /\ turn' \in [Turns -> Positions]
    BY <1>2, <1>13, <2>1 DEF TypeOK, DeleteSession
  <2>8. QED
    BY <2>3, <2>4, <2>5, <2>6, <2>7 DEF Inv, TypeOK
<1>14. ASSUME End PROVE Inv'
  <2>1. turn' = [t \in Turns |-> IF turn[t].at = "idle" THEN turn[t] ELSE [at |-> "over"]]
    BY <1>14 DEF End
  <2>2. /\ turn' \in [Turns -> Positions]
        /\ \A t \in Turns : turn'[t].at \in {"idle", "over"}
        /\ \A t \in Turns : turn'[t].at = "idle" => turn[t].at = "idle"
    BY <1>2, <1>3, <2>1 DEF TypeOK
  <2>3. Said \subseteq Said'
    <3>1. SUFFICES ASSUME NEW m \in Said PROVE m \in Said'
      OBVIOUS
    <3>2. m \in Messages /\ m[2] \in Turns
      BY DEF Said, Messages
    <3>3. turn[m[2]].at # "idle"
      BY <3>1, <3>2 DEF Said
    <3>4. turn'[m[2]].at = "over"
      BY <2>2, <3>2, <3>3
    <3>5. QED
      BY <3>1, <3>2, <3>4 DEF Said
  <2>4. HistoriesAreSound'
    BY <2>2 DEF HistoriesAreSound
  <2>5. rows' \in Seq(Messages) /\ Sound(rows)'
    BY <1>2, <1>14, <2>3, Unwritten DEF End
  <2>6. ends' \in 0 .. MaxEnds
    BY <1>2, <1>14, ConversationsAssumption DEF TypeOK, End
  <2>7. session' \in BOOLEAN /\ deletes' \in 0 .. MaxDeletes
    BY <1>2, <1>14 DEF TypeOK, End
  <2>8. QED
    BY <2>2, <2>4, <2>5, <2>6, <2>7 DEF Inv, TypeOK
<1>15. ASSUME UNCHANGED vars PROVE Inv'
  <2>1. Said' = Said
    BY <1>15 DEF vars, Said
  <2>2. TypeOK'
    BY <1>2, <1>15 DEF vars, TypeOK
  <2>3. Sound(rows)'
    BY <1>2, <1>15, <2>1 DEF vars, Sound, Ordered, Elements
  <2>4. HistoriesAreSound'
    BY <1>2, <1>15, <2>1 DEF vars, HistoriesAreSound, Sound, Ordered, Elements
  <2>5. QED
    BY <2>2, <2>3, <2>4 DEF Inv
<1>16. QED
  BY <1>1, <1>4, <1>5, <1>6, <1>7, <1>8, <1>9, <1>10, <1>11, <1>12, <1>13, <1>14, <1>15
     DEF Next, Step, Receive

LEMMA SpecInv == Spec => []Inv
<1>1. QED
  BY InitInv, NextInv, PTL DEF Spec

(***************************************************************************)
(* Theorems.                                                               *)
(***************************************************************************)

\* The variables have their types: what a turn holds at each of its steps.
THEOREM TypeCorrect == Spec => []TypeOK
<1>1. Inv => TypeOK
  BY DEF Inv
<1>2. QED
  BY <1>1, SpecInv, PTL

\* For any number of overlapping turns, deletions and ends of the process, whether or not
\* foreign keys are enforced: the table never has a message twice, and never a reply
\* before its question, also when a turn rewrites the conversation from what it has read.
THEOREM AlwaysOnceInOrder == Spec => []OnceInOrder
<1>1. Inv => OnceInOrder
  BY DEF Inv, Sound, OnceInOrder
<1>2. QED
  BY <1>1, SpecInv, PTL
=============================================================================

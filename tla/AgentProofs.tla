------------------------------ MODULE AgentProofs ------------------------------
(***************************************************************************)
(* Theorems about AgentRun, for any conversations that Run may be given,   *)
(* any number of steps, calls of an answer and attempts: what Run returns  *)
(* and every request it sends are whole, and a tool runs at most once per  *)
(* call, with the user's yes where it changes data.                        *)
(*                                                                         *)
(* The argument: while tools are run the conversation ends in one turn     *)
(* that is open, with the results of the first nextCall of its calls; each *)
(* result, and the ones that Stop adds, keep it so until none is missing.  *)
(* Calls are numbered by step and place, and a tool that ran has a smaller *)
(* number than the call whose turn it is.  What llm.Fit drops are groups   *)
(* of an answer with its results, and all that stood before a user turn.   *)
(***************************************************************************)
EXTENDS AgentRun, FiniteSetTheorems, TLAPS

HasUser(msgs) == \E i \in DOMAIN msgs : msgs[i].role = "user"

\* Whole, but for the calls of the turn at index open, which are being answered.
WholeBut(msgs, open) ==
  \A i \in DOMAIN msgs :
    /\ i # open => \A n \in DOMAIN msgs[i].calls :
         msgs[i].role = "assistant" =>
           /\ i + n \in DOMAIN msgs
           /\ msgs[i + n].role = "result" /\ msgs[i + n].calls = <<msgs[i].calls[n]>>
    /\ msgs[i].role = "result" =>
         \E j \in 1 .. i - 1 : /\ msgs[j].role = "assistant" /\ i - j \in DOMAIN msgs[j].calls
                               /\ msgs[j].calls[i - j] = msgs[i].calls[1]

\* The conversation ends in a turn with the calls cs and the results of the first
\* few of them.
TurnOpen(msgs, cs, answered) ==
  LET turn == Len(msgs) - answered IN
  /\ answered < Len(msgs)
  /\ msgs[turn].role = "assistant" /\ msgs[turn].calls = cs
  /\ \A k \in 1..answered : msgs[turn + k].role = "result" /\ msgs[turn + k].calls = <<cs[k]>>
  /\ WholeBut(msgs, turn)

\* Messages that answer the calls after the first few.
AnswersRest(rest, cs, answered) ==
  /\ Len(rest) = Len(cs) - answered
  /\ \A n \in 1..Len(rest) : rest[n].role = "result" /\ rest[n].calls = <<cs[answered + n]>>

AtTools == runPc \in {"call", "confirm", "tool", "stop"}

RunTyped ==
  /\ runPc \in {"fit", "send", "stream", "call", "confirm", "tool", "stop", "returned"}
  /\ convo \in Seq(Messages) /\ sent \in Seq(Messages)
  /\ calls \in Seq(AgentCalls) /\ ran \in Seq(AgentCalls) /\ allowed \subseteq AgentCalls
  /\ steps \in 0 .. MaxSteps /\ tries \in 0 .. MaxAttempts
  /\ nextCall \in 0 .. Len(calls) /\ Len(calls) <= MaxCalls
  /\ streamed \in BOOLEAN /\ declined \in BOOLEAN /\ ended \in BOOLEAN
  /\ runPc \in {"send", "stream"} => steps < MaxSteps /\ nextCall = 0

\* The calls of an answer are numbered, in the answer that is read and in the one
\* whose tools are run.
AnswerFits ==
  /\ runPc \in {"send", "stream"} =>
       \A k \in 1..Len(calls) : calls[k].step = steps /\ calls[k].n = k
  /\ AtTools => /\ \A k \in 1..Len(calls) : calls[k].step + 1 = steps /\ calls[k].n = k
                /\ runPc # "stop" => nextCall < Len(calls)

\* The conversation is whole but for the answer whose tools are run.
ConvoFits ==
  /\ OpensWithUser(convo) /\ HasUser(convo)
  /\ IF AtTools THEN TurnOpen(convo, calls, nextCall) ELSE Whole(convo)

\* A tool that ran is of an earlier answer, or of an earlier call of this one.
RanFits ==
  /\ IsInjective(ran)
  /\ \A i \in 1..Len(ran) :
       /\ ran[i].step < steps
       /\ runPc \in {"call", "confirm", "tool"} /\ ran[i].step + 1 = steps => ran[i].n <= nextCall
       /\ \E j \in 1..Len(convo) : Contains(convo[j].calls, ran[i])
       /\ ran[i].kind = "destructive" => ran[i] \in allowed

\* A yes is for the call that is about to run, or for one that ran.
AllowedFits ==
  /\ runPc = "tool" /\ Current.kind = "destructive" => Current \in allowed
  /\ \A a \in allowed : (\E i \in 1..Len(ran) : ran[i] = a) \/ (runPc = "tool" /\ a = Current)
  /\ declined => runPc # "confirm"

SentFits == runPc = "send" => Whole(sent) /\ OpensWithUser(sent) /\ HasUser(sent)

RunInv == RunTyped /\ AnswerFits /\ ConvoFits /\ RanFits /\ AllowedFits /\ SentFits
-----------------------------------------------------------------------------
(* Conversations.                                                          *)

\* What appending one message does to a conversation.
LEMMA AddMessage ==
  ASSUME NEW s \in Seq(Messages), NEW m \in Messages
  PROVE  /\ Append(s, m) \in Seq(Messages) /\ Len(s) \in Nat /\ Len(Append(s, m)) = Len(s) + 1
         /\ DOMAIN s = 1..Len(s) /\ DOMAIN Append(s, m) = 1..Len(s) + 1
         /\ Append(s, m)[Len(s) + 1] = m
         /\ \A k \in 1..Len(s) : Append(s, m)[k] = s[k]
  OBVIOUS

\* A function on 1..n is a sequence of length n.
LEMMA ListParts ==
  ASSUME NEW S, NEW n \in Nat, NEW f \in [1..n -> S]
  PROVE  f \in Seq(S) /\ Len(f) = n
  OBVIOUS

\* What joining two sequences does to their elements.
LEMMA JoinParts ==
  ASSUME NEW S, NEW s \in Seq(S), NEW r \in Seq(S)
  PROVE  /\ s \o r \in Seq(S) /\ Len(s) \in Nat /\ Len(r) \in Nat /\ Len(s \o r) = Len(s) + Len(r)
         /\ \A k \in 1..Len(s) : (s \o r)[k] = s[k]
         /\ \A n \in 1..Len(r) : (s \o r)[Len(s) + n] = r[n]
  OBVIOUS

\* What is in a message.
LEMMA MessageParts ==
  ASSUME NEW m \in Messages
  PROVE  /\ m.role \in {"system", "user", "assistant", "result"}
         /\ m.calls \in Seq(AgentCalls)
         /\ DOMAIN m.calls = 1..Len(m.calls) /\ Len(m.calls) \in Nat
  BY DEF Messages

\* Turns and results are messages.
LEMMA BuiltMessages ==
  /\ \A cs \in Seq(AgentCalls) : Turn(cs) \in Messages
  /\ \A c \in AgentCalls, what \in {"output", "failed", "refused", "stopped"} :
       Answer(c, what) \in Messages /\ Answer(c, what).role = "result" /\ Answer(c, what).calls = <<c>>
  BY DEF Turn, Answer, Messages

\* Whatever follows a conversation that opens with the user, it still does.
LEMMA StillOpens ==
  ASSUME NEW s \in Seq(Messages), NEW t \in Seq(Messages), Len(s) <= Len(t),
         \A k \in 1..Len(s) : t[k] = s[k], OpensWithUser(s), HasUser(s)
  PROVE  OpensWithUser(t) /\ HasUser(t)
  <1>1. PICK u \in 1..Len(s) : s[u].role = "user"
    BY DEF HasUser
  <1>2. PICK j \in 1..u : s[j].role = "user" /\ \A k \in 1..j-1 : s[k].role = "system"
    BY <1>1 DEF OpensWithUser
  <1>3. j \in 1..Len(t) /\ t[j].role = "user" /\ \A k \in 1..j-1 : t[k].role = "system"
    BY <1>1, <1>2
  <1>4. ASSUME NEW i \in 1..Len(t), t[i].role # "system" PROVE j \in 1..i
    BY <1>3, <1>4
  <1> QED
    BY <1>3, <1>4 DEF OpensWithUser, HasUser

\* An answer opens a turn; one without calls is whole.
LEMMA AddTurn ==
  ASSUME NEW s \in Seq(Messages), NEW cs \in Seq(AgentCalls), Whole(s)
  PROVE  TurnOpen(Append(s, Turn(cs)), cs, 0)
  <1> DEFINE t == Append(s, Turn(cs))
  <1>1. /\ t \in Seq(Messages) /\ Len(s) \in Nat /\ Len(t) = Len(s) + 1
        /\ DOMAIN s = 1..Len(s) /\ DOMAIN t = 1..Len(s) + 1
        /\ t[Len(s) + 1] = Turn(cs) /\ \A k \in 1..Len(s) : t[k] = s[k]
    BY AddMessage, BuiltMessages
  <1>2. t[Len(t)].role = "assistant" /\ t[Len(t)].calls = cs
    BY <1>1 DEF Turn
  <1> HIDE DEF t
  <1>3. WholeBut(t, Len(t))
    <2>1. ASSUME NEW i \in 1..Len(s) PROVE i \in DOMAIN s /\ t[i] = s[i]
      BY <1>1
    <2>2. ASSUME NEW i \in DOMAIN t, i # Len(t), NEW n \in DOMAIN t[i].calls, t[i].role = "assistant"
          PROVE  /\ i + n \in DOMAIN t
                 /\ t[i + n].role = "result" /\ t[i + n].calls = <<t[i].calls[n]>>
      <3>1. i \in 1..Len(s)
        BY <1>1, <2>2
      <3>2. /\ i + n \in DOMAIN s
            /\ s[i + n].role = "result" /\ s[i + n].calls = <<s[i].calls[n]>>
        BY <2>1, <2>2, <3>1 DEF Whole
      <3> QED
        BY <1>1, <2>1, <3>1, <3>2
    <2>3. ASSUME NEW i \in DOMAIN t, t[i].role = "result"
          PROVE  \E j \in 1 .. i - 1 : /\ t[j].role = "assistant" /\ i - j \in DOMAIN t[j].calls
                                       /\ t[j].calls[i - j] = t[i].calls[1]
      <3>1. i \in 1..Len(s)
        BY <1>1, <1>2, <2>3
      <3>2. PICK j \in 1 .. i - 1 : /\ s[j].role = "assistant" /\ i - j \in DOMAIN s[j].calls
                                    /\ s[j].calls[i - j] = s[i].calls[1]
        BY <2>1, <2>3, <3>1 DEF Whole
      <3>3. t[j] = s[j] /\ t[i] = s[i]
        BY <2>1, <3>1
      <3> QED
        BY <3>2, <3>3
    <2> QED
      BY <2>2, <2>3 DEF WholeBut
  <1>4. Len(t) - 0 = Len(t) /\ 0 < Len(t)
    BY <1>1
  <1> QED
    BY <1>2, <1>3, <1>4 DEF TurnOpen, t

\* A result of the next call keeps the turn open.
LEMMA AddResult ==
  ASSUME NEW s \in Seq(Messages), NEW cs \in Seq(AgentCalls), NEW d \in Nat, d < Len(cs),
         TurnOpen(s, cs, d), NEW what \in {"output", "failed", "refused", "stopped"}
  PROVE  TurnOpen(Append(s, Answer(cs[d + 1], what)), cs, d + 1)
  <1> DEFINE m == Answer(cs[d + 1], what)
             t == Append(s, m)
             o == Len(s) - d
  <1>1. /\ m \in Messages /\ m.role = "result" /\ m.calls = <<cs[d + 1]>>
    BY BuiltMessages
  <1> HIDE DEF m
  <1>2. /\ t \in Seq(Messages) /\ Len(s) \in Nat /\ Len(t) = Len(s) + 1
        /\ DOMAIN s = 1..Len(s) /\ DOMAIN t = 1..Len(s) + 1
        /\ t[Len(s) + 1] = m /\ \A k \in 1..Len(s) : t[k] = s[k]
    BY <1>1, AddMessage
  <1> HIDE DEF t
  <1>3. /\ o \in 1..Len(s) /\ s[o].role = "assistant" /\ s[o].calls = cs
        /\ \A k \in 1..d : s[o + k].role = "result" /\ s[o + k].calls = <<cs[k]>>
        /\ WholeBut(s, o) /\ Len(t) - (d + 1) = o
    <2>1. d < Len(s)
      BY DEF TurnOpen
    <2>2. o \in 1..Len(s) /\ Len(t) - (d + 1) = o
      BY <1>2, <2>1
    <2>3. /\ s[o].role = "assistant" /\ s[o].calls = cs
          /\ \A k \in 1..d : s[o + k].role = "result" /\ s[o + k].calls = <<cs[k]>>
          /\ WholeBut(s, o)
      BY DEF TurnOpen
    <2> QED
      BY <2>2, <2>3
  <1>4. t[o] = s[o] /\ d + 1 < Len(t) /\ o + (d + 1) = Len(s) + 1 /\ \A k \in 1..d : o + k \in 1..Len(s)
    BY SMTT(20), <1>2, <1>3
  <1> HIDE DEF o
  <1>5. \A k \in 1..d+1 : t[o + k].role = "result" /\ t[o + k].calls = <<cs[k]>>
    <2>1. \A k \in 1..d : t[o + k] = s[o + k]
      BY <1>2, <1>4
    <2>2. t[o + (d + 1)] = m
      BY <1>2, <1>4
    <2>3. ASSUME NEW k \in 1..d+1
          PROVE  t[o + k].role = "result" /\ t[o + k].calls = <<cs[k]>>
      <3>1. CASE k = d + 1
        BY <1>1, <2>2, <3>1
      <3>2. CASE k # d + 1
        <4>1. k \in 1..d
          BY <3>2
        <4> QED
          BY <1>3, <2>1, <4>1
      <3> QED
        BY <3>1, <3>2
    <2> QED
      BY <2>3
  <1>6. WholeBut(t, o)
    <2>1. ASSUME NEW i \in 1..Len(s) PROVE i \in DOMAIN s /\ t[i] = s[i]
      BY <1>2
    <2>2. ASSUME NEW i \in DOMAIN t, i # o, NEW n \in DOMAIN t[i].calls, t[i].role = "assistant"
          PROVE  /\ i + n \in DOMAIN t
                 /\ t[i + n].role = "result" /\ t[i + n].calls = <<t[i].calls[n]>>
      <3>1. i \in 1..Len(s)
        BY <1>1, <1>2, <2>2
      <3>2. /\ i + n \in DOMAIN s
            /\ s[i + n].role = "result" /\ s[i + n].calls = <<s[i].calls[n]>>
        BY <1>3, <2>1, <2>2, <3>1 DEF WholeBut
      <3> QED
        BY <1>2, <2>1, <3>1, <3>2
    <2>3. ASSUME NEW i \in DOMAIN t, t[i].role = "result"
          PROVE  \E j \in 1 .. i - 1 : /\ t[j].role = "assistant" /\ i - j \in DOMAIN t[j].calls
                                       /\ t[j].calls[i - j] = t[i].calls[1]
      <3>1. CASE i \in 1..Len(s)
        <4>2. PICK j \in 1 .. i - 1 : /\ s[j].role = "assistant" /\ i - j \in DOMAIN s[j].calls
                                      /\ s[j].calls[i - j] = s[i].calls[1]
          BY ZenonT(40), <1>3, <2>1, <2>3, <3>1 DEF WholeBut
        <4>3. t[j] = s[j] /\ t[i] = s[i]
          BY <2>1, <3>1
        <4> QED
          BY <4>2, <4>3
      <3>2. CASE i = Len(s) + 1
        <4>1. t[i].calls[1] = cs[d + 1]
          BY <1>1, <1>2, <3>2
        <4>2. o \in 1 .. i - 1 /\ i - o = d + 1 /\ d + 1 \in DOMAIN cs
          BY <1>2, <1>3, <1>4, <3>2
        <4> QED
          BY <1>3, <1>4, <4>1, <4>2
      <3> QED
        BY <1>2, <3>1, <3>2
    <2> QED
      BY <2>2, <2>3 DEF WholeBut
  <1> QED
    BY <1>3, <1>4, <1>5, <1>6 DEF TurnOpen, t, m

\* With the last result the conversation is whole again.
LEMMA AllAnswered ==
  ASSUME NEW s \in Seq(Messages), NEW cs \in Seq(AgentCalls), TurnOpen(s, cs, Len(cs))
  PROVE  Whole(s)
  <1> DEFINE o == Len(s) - Len(cs)
  <1>1. /\ Len(s) \in Nat /\ Len(cs) \in Nat /\ DOMAIN s = 1..Len(s) /\ DOMAIN cs = 1..Len(cs)
        /\ o \in 1..Len(s) /\ o + Len(cs) = Len(s)
    BY DEF TurnOpen
  <1>2. /\ s[o].role = "assistant" /\ s[o].calls = cs
        /\ \A k \in 1..Len(cs) : s[o + k].role = "result" /\ s[o + k].calls = <<cs[k]>>
        /\ WholeBut(s, o)
    BY DEF TurnOpen
  <1>3. \A k \in 1..Len(cs) : o + k \in 1..Len(s)
    BY <1>1
  <1> HIDE DEF o
  <1> QED
    BY <1>1, <1>2, <1>3 DEF Whole, WholeBut

\* What a run that stops says of the calls that are left.
LEMMA RestParts ==
  ASSUME NEW cs \in Seq(AgentCalls), NEW d \in Nat, d <= Len(cs)
  PROVE  LET rest == [n \in 1..Len(cs) - d |-> Answer(cs[d + n], "stopped")]
         IN  rest \in Seq(Messages) /\ AnswersRest(rest, cs, d)
  <1> DEFINE rest == [n \in 1..Len(cs) - d |-> Answer(cs[d + n], "stopped")]
  <1>1. Len(cs) - d \in Nat
    OBVIOUS
  <1>2. ASSUME NEW n \in 1..Len(cs) - d
        PROVE  /\ rest[n] \in Messages /\ rest[n].role = "result"
               /\ rest[n].calls = <<cs[d + n]>>
    <2>1. cs[d + n] \in AgentCalls
      BY <1>2
    <2>2. rest[n] = Answer(cs[d + n], "stopped")
      BY <1>2
    <2> QED
      BY <2>1, <2>2, BuiltMessages
  <1>3. rest = [n \in 1..Len(cs) - d |-> rest[n]]
    OBVIOUS
  <1> HIDE DEF rest
  <1>4. rest \in [1..Len(cs) - d -> Messages]
    BY <1>2, <1>3
  <1>5. rest \in Seq(Messages) /\ Len(rest) = Len(cs) - d
    BY <1>1, <1>4, ListParts
  <1> QED
    BY <1>2, <1>5 DEF rest, AnswersRest

\* So it is when the calls that are left are all answered at once.
LEMMA AnswerTheRest ==
  ASSUME NEW s \in Seq(Messages), NEW cs \in Seq(AgentCalls), NEW d \in Nat, d <= Len(cs),
         TurnOpen(s, cs, d), NEW rest \in Seq(Messages), AnswersRest(rest, cs, d)
  PROVE  Whole(s \o rest)
  <1> DEFINE t == s \o rest
             o == Len(s) - d
  <1>0. Len(rest) = Len(cs) - d
    BY DEF AnswersRest
  <1>1. \A n \in 1..Len(rest) : rest[n].role = "result" /\ rest[n].calls = <<cs[d + n]>>
    BY DEF AnswersRest
  <1>2. /\ t \in Seq(Messages) /\ Len(s) \in Nat /\ Len(t) = Len(s) + (Len(cs) - d)
        /\ \A k \in 1..Len(s) : t[k] = s[k]
        /\ \A n \in 1..Len(rest) : t[Len(s) + n] = rest[n]
    <2>1. /\ t \in Seq(Messages) /\ Len(s) \in Nat /\ Len(t) = Len(s) + Len(rest)
          /\ \A k \in 1..Len(s) : t[k] = s[k]
          /\ \A n \in 1..Len(rest) : t[Len(s) + n] = rest[n]
      BY JoinParts
    <2> QED
      BY <1>0, <2>1
  <1> HIDE DEF t
  <1>3. /\ o \in 1..Len(s) /\ s[o].role = "assistant" /\ s[o].calls = cs
        /\ \A k \in 1..d : s[o + k].role = "result" /\ s[o + k].calls = <<cs[k]>>
        /\ WholeBut(s, o)
    <2>1. d < Len(s) /\ o \in 1..Len(s)
      BY <1>2 DEF TurnOpen
    <2>2. /\ s[o].role = "assistant" /\ s[o].calls = cs
          /\ \A k \in 1..d : s[o + k].role = "result" /\ s[o + k].calls = <<cs[k]>>
          /\ WholeBut(s, o)
      BY DEF TurnOpen
    <2> QED
      BY <2>1, <2>2
  <1>4. /\ DOMAIN s = 1..Len(s) /\ DOMAIN t = 1..Len(t) /\ DOMAIN cs = 1..Len(cs) /\ Len(cs) \in Nat
        /\ o + d = Len(s) /\ t[o] = s[o] /\ Len(t) = o + Len(cs)
    BY <1>2, <1>3
  <1>5. \A k \in 1..Len(cs) : t[o + k].role = "result" /\ t[o + k].calls = <<cs[k]>>
    <2> SUFFICES ASSUME NEW k \in 1..Len(cs)
                 PROVE  t[o + k].role = "result" /\ t[o + k].calls = <<cs[k]>>
      OBVIOUS
    <2>1. CASE k <= d
      <3>1. k \in 1..d /\ o + k \in 1..Len(s)
        BY SMTT(20), <2>1, <1>3, <1>4
      <3> QED
        BY <1>2, <1>3, <3>1
    <2>2. CASE k > d
      <3>1. k - d \in 1..Len(rest) /\ o + k = Len(s) + (k - d) /\ d + (k - d) = k
        BY <2>2, <1>0, <1>3, <1>4
      <3>2. t[o + k] = rest[k - d]
        BY <1>2, <3>1
      <3>3. rest[k - d].role = "result" /\ rest[k - d].calls = <<cs[k]>>
        BY <1>1, <3>1
      <3> QED
        BY <3>2, <3>3
    <2> QED
      BY <2>1, <2>2
  <1>6. \A k \in 1..Len(cs) : o + k \in 1..Len(t)
    BY <1>3, <1>4
  <1>7. \A i \in 1..Len(t) : i \in 1..Len(s) \/ (i - o \in 1..Len(cs) /\ o + (i - o) = i /\ o \in 1..i - 1)
    BY <1>2, <1>3, <1>4
  <1> HIDE DEF o
  <1>8. ASSUME NEW i \in DOMAIN t, NEW n \in DOMAIN t[i].calls, t[i].role = "assistant"
        PROVE  /\ i + n \in DOMAIN t
               /\ t[i + n].role = "result" /\ t[i + n].calls = <<t[i].calls[n]>>
    <2>1. CASE i = o
      BY <1>3, <1>4, <1>5, <1>6, <1>8, <2>1
    <2>2. CASE i # o
      <3>1. i \in 1..Len(s)
        BY <1>4, <1>5, <1>7, <1>8
      <3>2. t[i] = s[i]
        BY <1>2, <3>1
      <3>3. i + n \in 1..Len(s) /\ s[i + n].role = "result" /\ s[i + n].calls = <<s[i].calls[n]>>
        BY <1>3, <1>4, <1>8, <2>2, <3>1, <3>2 DEF WholeBut
      <3> QED
        BY <1>2, <1>4, <3>2, <3>3
    <2> QED
      BY <2>1, <2>2
  <1>9. ASSUME NEW i \in DOMAIN t, t[i].role = "result"
        PROVE  \E j \in 1 .. i - 1 : /\ t[j].role = "assistant" /\ i - j \in DOMAIN t[j].calls
                                     /\ t[j].calls[i - j] = t[i].calls[1]
    <2>1. CASE i \in 1..Len(s)
      <3>1. PICK j \in 1 .. i - 1 : /\ s[j].role = "assistant" /\ i - j \in DOMAIN s[j].calls
                                    /\ s[j].calls[i - j] = s[i].calls[1]
        BY <1>2, <1>3, <1>4, <1>9, <2>1 DEF WholeBut
      <3>2. t[i] = s[i] /\ t[j] = s[j]
        <4>1. j \in 1..Len(s)
          BY <1>2, <2>1
        <4> QED
          BY <1>2, <2>1, <4>1
      <3> QED
        BY <3>1, <3>2
    <2>2. CASE i \notin 1..Len(s)
      <3>1. i - o \in 1..Len(cs) /\ o + (i - o) = i /\ o \in 1..i - 1
        BY <1>4, <1>7, <2>2
      <3>2. t[i].calls = <<cs[i - o]>>
        BY <1>5, <3>1
      <3>3. t[o].role = "assistant" /\ t[o].calls = cs /\ i - o \in DOMAIN cs
        BY <1>3, <1>4, <3>1
      <3>4. t[i].calls[1] = cs[i - o]
        <4>1. \A x : <<x>>[1] = x
          OBVIOUS
        <4> QED
          BY <3>2, <4>1
      <3> QED
        BY <3>1, <3>3, <3>4
    <2> QED
      BY <2>1, <2>2
  <1>10. Whole(t)
    BY <1>8, <1>9 DEF Whole
  <1> QED
    BY <1>10 DEF t
-----------------------------------------------------------------------------
(* What is left of a conversation when some messages are dropped.          *)

\* The later of two indices that stay has the higher rank.
LEMMA RankGrows ==
  ASSUME NEW is, IsFiniteSet(is), is \subseteq Nat
  PROVE  /\ Cardinality(is) \in Nat
         /\ \A i \in is : Rank(is, i) \in 1..Cardinality(is)
         /\ \A i, k \in is : i < k => Rank(is, i) < Rank(is, k)
  <1> DEFINE upTo(i) == {j \in is : j <= i}
  <1>1. Cardinality(is) \in Nat
    BY FS_CardinalityType
  <1>2. ASSUME NEW i \in is PROVE IsFiniteSet(upTo(i)) /\ Cardinality(upTo(i)) \in 1..Cardinality(is)
    <2>1. upTo(i) \in SUBSET is /\ i \in upTo(i)
      OBVIOUS
    <2>2. IsFiniteSet(upTo(i)) /\ Cardinality(upTo(i)) <= Cardinality(is)
      BY <2>1, FS_Subset
    <2>3. Cardinality(upTo(i)) \in Nat
      BY <2>2, FS_CardinalityType
    <2>4. Cardinality(upTo(i)) # 0
      BY <2>1, <2>2, FS_EmptySet
    <2> QED
      BY <1>1, <2>2, <2>3, <2>4
  <1>3. ASSUME NEW i \in is, NEW k \in is, i < k
        PROVE  Cardinality(upTo(i)) < Cardinality(upTo(k))
    <2>1. upTo(i) \in SUBSET upTo(k)
      <3>1. i \in Nat /\ k \in Nat
        OBVIOUS
      <3>2. ASSUME NEW j \in upTo(i) PROVE j \in upTo(k)
        BY <1>3, <3>1
      <3> QED
        BY <3>2
    <2>2. k \in upTo(k) /\ k \notin upTo(i)
      <3>1. i \in Nat /\ k \in Nat
        OBVIOUS
      <3> QED
        BY <1>3, <3>1
    <2>3. upTo(i) # upTo(k)
      BY <2>2
    <2>4. Cardinality(upTo(i)) <= Cardinality(upTo(k)) /\ Cardinality(upTo(i)) # Cardinality(upTo(k))
      BY <1>2, <2>1, <2>3, FS_Subset
    <2>5. Cardinality(upTo(i)) \in Nat /\ Cardinality(upTo(k)) \in Nat
      BY <1>1, <1>2
    <2> QED
      BY <2>4, <2>5
  <1> QED
    BY <1>1, <1>2, <1>3 DEF Rank

\* Every rank is that of one index.
LEMMA NthRank ==
  ASSUME NEW is, IsFiniteSet(is), is \subseteq Nat
  PROVE  /\ \A n \in 1..Cardinality(is) : Nth(is, n) \in is /\ Rank(is, Nth(is, n)) = n
         /\ \A i \in is : Nth(is, Rank(is, i)) = i
  <1> DEFINE c == Cardinality(is)
             f == [i \in is |-> Rank(is, i)]
  <1>1. /\ c \in Nat /\ \A i \in is : Rank(is, i) \in 1..c
        /\ \A i, k \in is : i < k => Rank(is, i) < Rank(is, k)
    BY RankGrows
  <1>2. \A i, k \in is : Rank(is, i) = Rank(is, k) => i = k
    <2>1. ASSUME NEW i \in is, NEW k \in is, Rank(is, i) = Rank(is, k) PROVE i = k
      <3>1. i \in Nat /\ k \in Nat /\ Rank(is, i) \in Nat
        BY <1>1
      <3>2. ~(i < k) /\ ~(k < i)
        BY <1>1, <2>1, <3>1
      <3> QED
        BY <3>1, <3>2
    <2> QED
      BY <2>1
  <1> HIDE DEF c
  <1>3. f \in Injection(is, 1..c)
    BY <1>1, <1>2 DEF Injection, IsInjective
  <1>4. IsFiniteSet(1..c) /\ Cardinality(1..c) = c
    BY <1>1, FS_Interval
  <1>5. f \in Surjection(is, 1..c)
    BY <1>3, <1>4, FS_Injection DEF c
  <1>6. \A n \in 1..c : \E i \in is : Rank(is, i) = n
    BY <1>5 DEF Surjection
  <1>7. ASSUME NEW n \in 1..c PROVE Nth(is, n) \in is /\ Rank(is, Nth(is, n)) = n
    BY <1>6 DEF Nth
  <1>8. ASSUME NEW i \in is PROVE Nth(is, Rank(is, i)) = i
    BY <1>1, <1>2, <1>7
  <1> QED
    BY <1>7, <1>8 DEF c

\* A finite set of indices has a last one.
LEMMA LastOf ==
  ASSUME NEW is, IsFiniteSet(is), is \subseteq Nat, is # {}
  PROVE  Max(is) \in is /\ \A k \in is : k <= Max(is)
  <1> DEFINE c == Cardinality(is)
  <1>1. c \in Nat /\ c # 0
    BY FS_CardinalityType, FS_EmptySet
  <1>2. c \in 1..c
    BY <1>1
  <1>3. PICK i \in is : Rank(is, i) = c
    BY <1>2, NthRank
  <1>4. ASSUME NEW k \in is PROVE i >= k
    <2>1. ~(i < k)
      <3>1. Rank(is, k) \in 1..c
        BY RankGrows
      <3>2. i < k => Rank(is, i) < Rank(is, k)
        BY RankGrows
      <3> QED
        BY <1>1, <1>3, <3>1, <3>2
    <2>2. i \in Nat /\ k \in Nat
      OBVIOUS
    <2> QED
      BY <2>1, <2>2
  <1>5. Max(is) \in is /\ \A k \in is : Max(is) >= k
    BY <1>4 DEF Max
  <1> QED
    BY <1>5

\* Neighbours that all stay remain neighbours.
LEMMA RankOfRun ==
  ASSUME NEW is, IsFiniteSet(is), is \subseteq Nat, NEW i \in is, NEW n \in Nat,
         \A k \in 1..n : i + k \in is
  PROVE  Rank(is, i + n) = Rank(is, i) + n
  <1> DEFINE below == {j \in is : j <= i}
             new == i+1..i+n
  <1>1. i \in Nat
    OBVIOUS
  <1>2. new \subseteq is
    <2>1. ASSUME NEW j \in new PROVE j \in is
      <3>1. j - i \in 1..n /\ i + (j - i) = j
        BY <1>1
      <3> QED
        BY <3>1
    <2> QED
      BY <2>1
  <1>3. {j \in is : j <= i + n} = below \cup new
    <2>1. ASSUME NEW j \in is PROVE j <= i + n <=> j <= i \/ j \in new
      <3>1. j \in Nat
        OBVIOUS
      <3> QED
        BY <1>1, <3>1
    <2> QED
      BY <1>2, <2>1
  <1>4. below \cap new = {}
    BY <1>1
  <1>5. IsFiniteSet(below) /\ Cardinality(below) \in Nat
    <2>1. below \in SUBSET is
      OBVIOUS
    <2> QED
      BY <2>1, FS_Subset, FS_CardinalityType
  <1>6. IsFiniteSet(new) /\ Cardinality(new) = n
    <2>1. IsFiniteSet(new) /\ Cardinality(new) = IF i + 1 > i + n THEN 0 ELSE (i + n) - (i + 1) + 1
      BY <1>1, FS_Interval
    <2> QED
      BY <1>1, <2>1
  <1>7. Cardinality({}) = 0
    BY FS_EmptySet
  <1> HIDE DEF below, new
  <1>8. Cardinality(below \cup new) = Cardinality(below) + n
    BY <1>4, <1>5, <1>6, <1>7, FS_Union
  <1> QED
    BY <1>3, <1>8 DEF Rank, below

\* The messages at the indices that stay, in order.
LEMMA KeptParts ==
  ASSUME NEW msgs \in Seq(Messages), NEW is, is \subseteq DOMAIN msgs
  PROVE  /\ IsFiniteSet(is) /\ is \subseteq Nat /\ Cardinality(is) \in Nat
         /\ Kept(msgs, is) \in Seq(Messages) /\ Len(Kept(msgs, is)) = Cardinality(is)
         /\ DOMAIN Kept(msgs, is) = 1..Cardinality(is)
         /\ \A n \in 1..Cardinality(is) :
              /\ Nth(is, n) \in is /\ Rank(is, Nth(is, n)) = n
              /\ Kept(msgs, is)[n] = msgs[Nth(is, n)]
         /\ \A i \in is : Rank(is, i) \in 1..Cardinality(is) /\ Kept(msgs, is)[Rank(is, i)] = msgs[i]
  <1>1. DOMAIN msgs = 1..Len(msgs) /\ Len(msgs) \in Nat
    OBVIOUS
  <1>2. IsFiniteSet(is) /\ is \subseteq Nat
    <2>1. IsFiniteSet(1..Len(msgs)) /\ is \in SUBSET (1..Len(msgs))
      BY <1>1, FS_Interval
    <2> QED
      BY <1>1, <2>1, FS_Subset
  <1>3. /\ Cardinality(is) \in Nat
        /\ \A i \in is : Rank(is, i) \in 1..Cardinality(is)
    BY <1>2, RankGrows
  <1>4. /\ \A n \in 1..Cardinality(is) : Nth(is, n) \in is /\ Rank(is, Nth(is, n)) = n
        /\ \A i \in is : Nth(is, Rank(is, i)) = i
    BY <1>2, NthRank
  <1>5. Kept(msgs, is) \in [1..Cardinality(is) -> Messages]
    BY <1>3, <1>4 DEF Kept
  <1>6. Kept(msgs, is) \in Seq(Messages) /\ Len(Kept(msgs, is)) = Cardinality(is)
    BY <1>3, <1>5, ListParts
  <1>7. \A n \in 1..Cardinality(is) : Kept(msgs, is)[n] = msgs[Nth(is, n)]
    BY DEF Kept
  <1>8. DOMAIN Kept(msgs, is) = 1..Cardinality(is)
    BY DEF Kept
  <1> QED
    BY <1>2, <1>3, <1>4, <1>6, <1>7, <1>8
\* An answer and the results after it stay or go together.
Closed(msgs, is) ==
  \A j, i \in DOMAIN msgs :
    j < i /\ msgs[j].role = "assistant" /\ (\A k \in j + 1 .. i : msgs[k].role = "result")
      => (j \in is <=> i \in is)

\* All that stands between a call and its result are results.
LEMMA ResultsBetween ==
  ASSUME NEW msgs \in Seq(Messages), Whole(msgs), NEW j \in DOMAIN msgs,
         msgs[j].role = "assistant", NEW n \in DOMAIN msgs[j].calls
  PROVE  /\ j \in Nat /\ n \in Nat
         /\ \A k \in 1..n : /\ j + k \in DOMAIN msgs /\ msgs[j + k].role = "result"
                             /\ msgs[j + k].calls = <<msgs[j].calls[k]>>
         /\ \A k \in j + 1 .. j + n : msgs[k].role = "result"
  <1>1. msgs[j] \in Messages /\ j \in Nat
    OBVIOUS
  <1>2. msgs[j].calls \in Seq(AgentCalls)
    BY <1>1 DEF Messages
  <1>3. n \in Nat /\ \A k \in 1..n : k \in DOMAIN msgs[j].calls
    BY <1>2
  <1>4. \A k \in 1..n : /\ j + k \in DOMAIN msgs /\ msgs[j + k].role = "result"
                        /\ msgs[j + k].calls = <<msgs[j].calls[k]>>
    BY <1>3 DEF Whole
  <1>5. ASSUME NEW k \in j + 1 .. j + n PROVE msgs[k].role = "result"
    <2>1. k - j \in 1..n /\ j + (k - j) = k
      BY <1>1, <1>3
    <2> QED
      BY <1>4, <2>1
  <1> QED
    BY <1>1, <1>3, <1>4, <1>5

\* A whole conversation stays whole when answers go with their results.
LEMMA KeptWhole ==
  ASSUME NEW msgs \in Seq(Messages), Whole(msgs), NEW is, is \subseteq DOMAIN msgs,
         Closed(msgs, is)
  PROVE  Whole(Kept(msgs, is))
  <1> DEFINE s == Kept(msgs, is)
             c == Cardinality(is)
  <1>1. /\ IsFiniteSet(is) /\ is \subseteq Nat /\ c \in Nat /\ DOMAIN s = 1..c
        /\ \A a \in 1..c : /\ Nth(is, a) \in is /\ Rank(is, Nth(is, a)) = a
                           /\ s[a] = msgs[Nth(is, a)]
        /\ \A i \in is : Rank(is, i) \in 1..c /\ s[Rank(is, i)] = msgs[i]
    BY KeptParts
  <1>2. DOMAIN msgs = 1..Len(msgs) /\ Len(msgs) \in Nat
    OBVIOUS
  <1> HIDE DEF s, c
  <1>3. ASSUME NEW j \in DOMAIN msgs, msgs[j].role = "assistant", NEW n \in DOMAIN msgs[j].calls
        PROVE  /\ j + n \in is <=> j \in is
               /\ j \in is => Rank(is, j + n) = Rank(is, j) + n
    <2>1. /\ j \in Nat /\ n \in Nat
          /\ \A k \in 1..n : j + k \in DOMAIN msgs
          /\ \A k \in j + 1 .. j + n : msgs[k].role = "result"
      BY <1>3, ResultsBetween
    <2>2. ASSUME NEW k \in 1..n PROVE j + k \in is <=> j \in is
      <3>1. j < j + k /\ j + k \in DOMAIN msgs /\ j + 1 .. j + k \subseteq j + 1 .. j + n
        BY <2>1
      <3> QED
        BY <1>3, <2>1, <3>1 DEF Closed
    <2>3. msgs[j] \in Messages
      OBVIOUS
    <2>4. n \in 1..n
      BY <2>1, <2>3 DEF Messages
    <2>5. ASSUME j \in is PROVE Rank(is, j + n) = Rank(is, j) + n
      BY <1>1, <2>1, <2>2, <2>5, RankOfRun
    <2> QED
      BY <2>2, <2>4, <2>5
  <1>4. ASSUME NEW a \in DOMAIN s, NEW n \in DOMAIN s[a].calls, s[a].role = "assistant"
        PROVE  a + n \in DOMAIN s /\ s[a + n].role = "result" /\ s[a + n].calls = <<s[a].calls[n]>>
    <2>1. PICK j \in is : s[a] = msgs[j] /\ Rank(is, j) = a
      BY <1>1, <1>4
    <2>2. j \in DOMAIN msgs /\ msgs[j].role = "assistant" /\ n \in DOMAIN msgs[j].calls
      BY <1>4, <2>1
    <2>3. j + n \in is /\ Rank(is, j + n) = a + n
      BY <1>3, <2>1, <2>2
    <2>4. a + n \in DOMAIN s /\ s[a + n] = msgs[j + n]
      BY <1>1, <2>3
    <2>5. msgs[j + n].role = "result" /\ msgs[j + n].calls = <<msgs[j].calls[n]>>
      BY <2>2 DEF Whole
    <2> QED
      BY <2>1, <2>4, <2>5
  <1>5. ASSUME NEW a \in DOMAIN s, s[a].role = "result"
        PROVE  \E b \in 1 .. a - 1 : /\ s[b].role = "assistant" /\ a - b \in DOMAIN s[b].calls
                                     /\ s[b].calls[a - b] = s[a].calls[1]
    <2>1. PICK i \in is : s[a] = msgs[i] /\ Rank(is, i) = a
      BY <1>1, <1>5
    <2>2. i \in DOMAIN msgs /\ i \in Nat
      BY <1>1, <2>1
    <2>3. PICK j \in 1 .. i - 1 : /\ msgs[j].role = "assistant" /\ i - j \in DOMAIN msgs[j].calls
                                 /\ msgs[j].calls[i - j] = msgs[i].calls[1]
      BY <1>5, <2>1, <2>2 DEF Whole
    <2>4. j \in DOMAIN msgs /\ j \in Nat /\ j + (i - j) = i /\ i - j \in Nat /\ i - j # 0
      BY <1>2, <2>2
    <2>5. j \in is /\ Rank(is, i) = Rank(is, j) + (i - j)
      BY <1>3, <2>1, <2>3, <2>4
    <2>6. Rank(is, j) \in 1..c /\ s[Rank(is, j)] = msgs[j]
      BY <1>1, <2>5
    <2>7. Rank(is, j) \in 1 .. a - 1 /\ a - Rank(is, j) = i - j
      <3> DEFINE b == Rank(is, j)
                 d == i - j
      <3>1. b \in Nat /\ b >= 1 /\ d \in Nat /\ d # 0 /\ a = b + d
        BY <1>1, <2>1, <2>4, <2>5, <2>6
      <3> HIDE DEF b, d
      <3>2. b \in 1 .. a - 1 /\ a - b = d
        BY <3>1
      <3> QED
        BY <3>2 DEF b, d
    <2> QED
      BY <2>1, <2>3, <2>6, <2>7
  <1>6. Whole(s)
    BY <1>4, <1>5 DEF Whole
  <1> QED
    BY <1>6 DEF s

OnlySystemBefore(msgs, is, u) == \A k \in is : k < u => msgs[k].role = "system"

\* What is left opens with the user when all that stays before one of his turns
\* are system messages.
LEMMA KeptOpens ==
  ASSUME NEW msgs \in Seq(Messages), NEW is, is \subseteq DOMAIN msgs,
         NEW u \in is, msgs[u].role = "user",
         OnlySystemBefore(msgs, is, u)
  PROVE  OpensWithUser(Kept(msgs, is)) /\ HasUser(Kept(msgs, is))
  <1> DEFINE s == Kept(msgs, is)
             c == Cardinality(is)
             b == Rank(is, u)
  <1>1. /\ IsFiniteSet(is) /\ is \subseteq Nat /\ c \in Nat /\ DOMAIN s = 1..c
        /\ \A a \in 1..c : /\ Nth(is, a) \in is /\ Rank(is, Nth(is, a)) = a
                           /\ s[a] = msgs[Nth(is, a)]
        /\ \A i \in is : Rank(is, i) \in 1..c /\ s[Rank(is, i)] = msgs[i]
    BY SMTT(20), KeptParts
  <1>2. \A i, k \in is : i < k => Rank(is, i) < Rank(is, k)
    BY <1>1, RankGrows
  <1>3. b \in 1..c /\ s[b].role = "user"
    BY <1>1
  <1> HIDE DEF s, c
  <1>4. ASSUME NEW a \in 1 .. b - 1 PROVE s[a].role = "system"
    <2>1. a \in 1..c
      BY <1>1, <1>3
    <2>2. PICK i \in is : s[a] = msgs[i] /\ Rank(is, i) = a
      BY <1>1, <2>1
    <2>3. i < u
      <3>1. i \in Nat /\ u \in Nat
        BY <1>1
      <3>2. ~(u < i) /\ i # u
        BY SMTT(20), <1>2, <1>3, <2>1, <2>2, <1>1
      <3> QED
        BY <3>1, <3>2
    <2> QED
      BY <2>2, <2>3 DEF OnlySystemBefore
  <1> HIDE DEF b
  <1>5. ASSUME NEW a \in 1..c, s[a].role # "system" PROVE b \in 1..a
    <2>1. a \notin 1 .. b - 1
      BY <1>4, <1>5
    <2> QED
      BY <1>1, <1>3, <2>1
  <1>6. OpensWithUser(s) /\ HasUser(s)
    BY <1>1, <1>3, <1>4, <1>5 DEF OpensWithUser, HasUser
  <1> QED
    BY <1>6 DEF s

-----------------------------------------------------------------------------
(* llm.Fit                                                                 *)

\* The last question is in the conversation.
LEMMA LastUser ==
  ASSUME NEW msgs \in Seq(Messages), HasUser(msgs)
  PROVE  LET last == LastIndex(msgs, "user")
         IN  /\ last \in DOMAIN msgs /\ last > 0 /\ msgs[last].role = "user"
             /\ \A k \in DOMAIN msgs : msgs[k].role = "user" => k <= last
  <1> DEFINE is == {i \in DOMAIN msgs : msgs[i].role = "user"}
  <1>1. is \subseteq DOMAIN msgs /\ is # {}
    BY DEF HasUser
  <1>2. IsFiniteSet(is) /\ is \subseteq Nat
    BY <1>1, KeptParts
  <1>3. Max(is) \in is /\ \A k \in is : k <= Max(is)
    BY <1>1, <1>2, LastOf
  <1>4. LastIndex(msgs, "user") = Max(is)
    BY <1>1 DEF LastIndex
  <1> QED
    BY <1>3, <1>4

\* The turn in progress starts after every message that is no result, or is one.
LEMMA FinalParts ==
  ASSUME NEW msgs \in Seq(Messages)
  PROVE  /\ Final(msgs) \in 1 .. Len(msgs) + 1
         /\ Final(msgs) \in DOMAIN msgs => msgs[Final(msgs)].role = "assistant"
         /\ \A k \in DOMAIN msgs : msgs[k].role # "result" => k <= Final(msgs)
  <1> DEFINE is == {i \in DOMAIN msgs : msgs[i].role # "result"}
             last == IF is = {} THEN 0 ELSE Max(is)
  <1>1. DOMAIN msgs = 1..Len(msgs) /\ Len(msgs) \in Nat /\ is \subseteq DOMAIN msgs
    OBVIOUS
  <1>2. IsFiniteSet(is) /\ is \subseteq Nat
    BY <1>1, KeptParts
  <1>3. is # {} => Max(is) \in is /\ \A k \in is : k <= Max(is)
    BY <1>2, LastOf
  <1>4. Final(msgs) = IF last > 0 /\ msgs[last].role = "assistant" THEN last ELSE Len(msgs) + 1
    BY DEF Final
  <1>5. CASE last > 0 /\ msgs[last].role = "assistant"
    <2>1. is # {} /\ last \in is /\ (\A k \in is : k <= last) /\ Final(msgs) = last
      BY <1>3, <1>4, <1>5
    <2> QED
      BY <1>1, <1>5, <2>1
  <1>6. CASE ~(last > 0 /\ msgs[last].role = "assistant")
    <2>1. Final(msgs) = Len(msgs) + 1
      BY <1>4, <1>6
    <2> QED
      BY <1>1, <2>1
  <1> QED
    BY <1>5, <1>6
Rest(msgs, firsts) == DOMAIN msgs \ UNION {Group(msgs, i) : i \in firsts}

\* A message that is no result goes only when it is the first of a group, and
\* an answer that goes takes its results with it.
LEMMA RestClosed ==
  ASSUME NEW msgs \in Seq(Messages), NEW firsts, firsts \subseteq Droppable(msgs)
  PROVE  /\ Rest(msgs, firsts) \subseteq DOMAIN msgs
         /\ \A k \in DOMAIN msgs : msgs[k].role # "result" =>
              (k \in Rest(msgs, firsts) <=> k \notin firsts)
         /\ Closed(msgs, Rest(msgs, firsts))
  <1> DEFINE is == Rest(msgs, firsts)
  <1>1. DOMAIN msgs = 1..Len(msgs) /\ Len(msgs) \in Nat
    OBVIOUS
  <1>2. /\ Final(msgs) \in 1 .. Len(msgs) + 1
        /\ Final(msgs) \in DOMAIN msgs => msgs[Final(msgs)].role = "assistant"
    BY FinalParts
  <1>3. \A h \in firsts : /\ h \in 1 .. Final(msgs) - 1 /\ h \in Nat /\ h \in DOMAIN msgs
                          /\ msgs[h].role # "result"
    BY <1>1, <1>2 DEF Droppable
  <1>4. ASSUME NEW k \in DOMAIN msgs, msgs[k].role # "result"
        PROVE  k \in is <=> k \notin firsts
    <2>1. ASSUME NEW h \in firsts, k \in Group(msgs, h) PROVE k = h
      BY <1>1, <1>2, <1>3, <1>4, <2>1 DEF Group
    <2>2. \A h \in firsts : h \in Group(msgs, h)
      BY DEF Group
    <2> QED
      BY <2>1, <2>2 DEF Rest
  <1>5. ASSUME NEW j \in DOMAIN msgs, NEW i \in DOMAIN msgs, j < i, msgs[j].role = "assistant",
               \A k \in j + 1 .. i : msgs[k].role = "result"
        PROVE  j \in is <=> i \in is
    <2>1. j \in Nat /\ i \in Nat /\ msgs[i].role = "result"
      BY <1>1, <1>5
    <2>2. ASSUME NEW h \in firsts, i \in Group(msgs, h) PROVE h = j
      <3>1. i # h
        BY <1>3, <2>1
      <3>2. h < i /\ \A k \in h + 1 .. i : msgs[k].role = "result"
        BY <1>1, <1>2, <1>3, <2>2, <3>1 DEF Group
      <3>3. ~(h < j)
        BY <1>3, <1>5, <2>1, <3>2
      <3>4. ~(j < h)
        BY <1>3, <1>5, <2>1, <3>2
      <3> QED
        BY <1>3, <2>1, <3>3, <3>4
    <2>3. ASSUME j \in firsts PROVE i \in Group(msgs, j)
      <3>1. j < Final(msgs)
        BY <1>2, <1>3, <2>1, <2>3
      <3>2. i < Final(msgs)
        <4>1. CASE Final(msgs) \in DOMAIN msgs
          <5>1. Final(msgs) \notin j + 1 .. i
            BY <1>2, <1>5, <4>1
          <5> QED
            BY <1>2, <2>1, <3>1, <5>1
        <4>2. CASE Final(msgs) \notin DOMAIN msgs
          BY <1>1, <1>2, <4>2
        <4> QED
          BY <4>1, <4>2
      <3> QED
        BY <1>2, <1>5, <2>1, <3>2 DEF Group
    <2>4. j \in is <=> j \notin firsts
      BY <1>4, <1>5
    <2> QED
      BY <2>2, <2>3, <2>4 DEF Rest
  <1>6. Closed(msgs, is)
    BY <1>5 DEF Closed
  <1>7. is \subseteq DOMAIN msgs
    BY DEF Rest
  <1> QED
    BY <1>4, <1>6, <1>7

AllBefore(msgs, firsts, u) ==
  \A k \in DOMAIN msgs : k < u /\ msgs[k].role \notin {"system", "result"} => k \in firsts

\* Dropping everything before a user turn leaves what a server accepts.
LEMMA RestFits ==
  ASSUME NEW msgs \in Seq(Messages), Whole(msgs), NEW firsts, firsts \subseteq Droppable(msgs),
         NEW u \in DOMAIN msgs, msgs[u].role = "user", u \notin firsts, AllBefore(msgs, firsts, u)
  PROVE  LET s == Without(msgs, firsts)
         IN  s \in Seq(Messages) /\ Whole(s) /\ OpensWithUser(s) /\ HasUser(s)
  <1> DEFINE is == Rest(msgs, firsts)
  <1>1. /\ is \subseteq DOMAIN msgs /\ Closed(msgs, is)
        /\ \A k \in DOMAIN msgs : msgs[k].role # "result" => (k \in is <=> k \notin firsts)
    BY RestClosed
  <1>2. Without(msgs, firsts) = Kept(msgs, is)
    BY DEF Without, Rest
  <1> HIDE DEF is
  <1>3. Kept(msgs, is) \in Seq(Messages)
    BY <1>1, KeptParts
  <1>4. Whole(Kept(msgs, is))
    BY <1>1, KeptWhole
  <1>5. u \in is
    BY <1>1
  <1>6. ASSUME NEW k \in is, k < u PROVE msgs[k].role = "system"
    <2>1. k \in DOMAIN msgs /\ k \in Nat /\ u \in Nat
      BY <1>1
    <2>2. CASE msgs[k].role = "result"
      <3>1. PICK j \in 1 .. k - 1 : msgs[j].role = "assistant" /\ k - j \in DOMAIN msgs[j].calls
        BY <2>1, <2>2 DEF Whole
      <3>2. j \in DOMAIN msgs /\ j \in Nat /\ j < k /\ j < u /\ j + (k - j) = k
        BY <1>6, <2>1
      <3>3. \A m \in j + 1 .. k : msgs[m].role = "result"
        BY <3>1, <3>2, ResultsBetween
      <3>4. j \in is
        BY <1>1, <2>1, <3>1, <3>2, <3>3 DEF Closed
      <3>5. j \notin firsts
        BY <1>1, <3>1, <3>2, <3>4
      <3> QED
        BY <3>1, <3>2, <3>5 DEF AllBefore
    <2>3. CASE msgs[k].role # "result"
      <3>1. k \notin firsts
        BY <1>1, <2>1, <2>3
      <3> QED
        BY <1>6, <2>1, <2>3, <3>1 DEF AllBefore
    <2> QED
      BY <2>2, <2>3
  <1>7. OnlySystemBefore(msgs, is, u)
    BY <1>6 DEF OnlySystemBefore
  <1>8. OpensWithUser(Kept(msgs, is)) /\ HasUser(Kept(msgs, is))
    BY <1>1, <1>5, <1>7, KeptOpens
  <1> QED
    BY <1>2, <1>3, <1>4, <1>8

\* Whatever llm.Fit drops, a server accepts the rest.
LEMMA FittedFits ==
  ASSUME NEW msgs \in Seq(Messages), Whole(msgs), OpensWithUser(msgs), HasUser(msgs),
         NEW s \in Fitted(msgs)
  PROVE  s \in Seq(Messages) /\ Whole(s) /\ OpensWithUser(s) /\ HasUser(s)
  <1> DEFINE last == LastIndex(msgs, "user")
  <1>1. /\ last \in DOMAIN msgs /\ msgs[last].role = "user"
        /\ \A k \in DOMAIN msgs : msgs[k].role = "user" => k <= last
    BY LastUser
  <1>2. DOMAIN msgs = 1..Len(msgs) /\ Len(msgs) \in Nat
    OBVIOUS
  <1>3. last < Final(msgs)
    <2>1. /\ Final(msgs) \in 1 .. Len(msgs) + 1 /\ last <= Final(msgs)
          /\ Final(msgs) \in DOMAIN msgs => msgs[Final(msgs)].role = "assistant"
      BY <1>1, FinalParts
    <2>2. last # Final(msgs)
      BY <1>1, <2>1
    <2> QED
      BY <1>1, <1>2, <2>1, <2>2
  <1>4. Final(msgs) \in Nat
    BY <1>2, FinalParts
  <1>5. /\ last \notin Droppable(msgs)
        /\ \A k \in DOMAIN msgs : k < Final(msgs) /\ k # last /\ msgs[k].role \notin {"system", "result"}
             => k \in Droppable(msgs)
    BY <1>2, <1>4 DEF Droppable
  <1>6. CASE s = msgs
    BY <1>6
  <1>7. CASE s = Without(msgs, Droppable(msgs))
    <2>1. AllBefore(msgs, Droppable(msgs), last)
      BY <1>1, <1>2, <1>3, <1>4, <1>5 DEF AllBefore
    <2> QED
      BY <1>1, <1>5, <1>7, <2>1, RestFits
  <1>8. ASSUME NEW i \in Droppable(msgs), MayKeepFrom(msgs, i),
               s = Without(msgs, {j \in Droppable(msgs) : j < i})
        PROVE  s \in Seq(Messages) /\ Whole(s) /\ OpensWithUser(s) /\ HasUser(s)
    <2> DEFINE firsts == {j \in Droppable(msgs) : j < i}
    <2>1. firsts \subseteq Droppable(msgs) /\ s = Without(msgs, firsts)
      BY <1>8
    <2>2. i \in DOMAIN msgs /\ i \in Nat /\ i < Final(msgs) /\ i # last
      BY <1>2, <1>4, FinalParts DEF Droppable
    <2>3. CASE i > last
      <3>1. AllBefore(msgs, firsts, last)
        BY <1>1, <1>2, <1>3, <1>4, <1>5, <2>2, <2>3 DEF AllBefore
      <3>2. last \notin firsts
        BY <1>5
      <3> QED
        BY <1>1, <2>1, <3>1, <3>2, RestFits
    <2>4. CASE ~(i > last) /\ msgs[i].role = "user"
      <3>1. i < last
        BY <1>1, <1>2, <2>2, <2>4
      <3>2. AllBefore(msgs, firsts, i)
        BY <1>1, <1>2, <1>3, <1>4, <1>5, <2>2, <3>1 DEF AllBefore
      <3>3. i \notin firsts
        BY <2>2
      <3> QED
        BY <2>1, <2>2, <2>4, <3>2, <3>3, RestFits
    <2> QED
      BY <1>8, <2>3, <2>4 DEF MayKeepFrom
  <1> QED
    BY <1>6, <1>7, <1>8 DEF Fitted
-----------------------------------------------------------------------------
(* The steps of a run.                                                     *)

Grows ==
  /\ convo' \in Seq(Messages) /\ Len(convo) <= Len(convo')
  /\ \A k \in 1..Len(convo) : convo'[k] = convo[k]

\* What holds of the tools that ran goes on to hold.
LEMMA RanStays ==
  ASSUME RunTyped, RanFits, Grows, ran' = ran, allowed \subseteq allowed',
         steps' \in Nat, steps <= steps',
         runPc' \in {"call", "confirm", "tool"} =>
           \A i \in 1..Len(ran) : ran[i].step + 1 = steps' => ran[i].n <= nextCall'
  PROVE  RanFits'
  <1>1. ASSUME NEW i \in 1..Len(ran)
        PROVE  /\ ran[i].step < steps'
               /\ \E j \in 1..Len(convo') : Contains(convo'[j].calls, ran[i])
               /\ ran[i].kind = "destructive" => ran[i] \in allowed'
    <2>1. ran[i].step \in Nat /\ ran[i].step < steps
      <3>1. ran[i] \in AgentCalls
        BY DEF RunTyped
      <3> QED
        BY <3>1 DEF RanFits, AgentCalls
    <2>2. PICK j \in 1..Len(convo) : Contains(convo[j].calls, ran[i])
      BY DEF RanFits
    <2>3. j \in 1..Len(convo') /\ convo'[j] = convo[j]
      BY <2>2 DEF Grows, RunTyped
    <2>4. steps \in Nat
      BY AgentAssumption DEF RunTyped
    <2> QED
      BY <2>1, <2>2, <2>3, <2>4 DEF RanFits
  <1> QED
    BY <1>1 DEF RanFits, IsInjective

\* A conversation that does not change still has what it had.
LEMMA QuietGrows ==
  ASSUME RunTyped, convo' = convo
  PROVE  Grows
  BY DEF RunTyped, Grows

\* A run starts with a conversation that is whole.
LEMMA InitRunInv == AgentInit => RunInv
  <1> SUFFICES ASSUME AgentInit PROVE RunInv
    OBVIOUS
  <1> USE AgentAssumption DEF AgentInit
  <1>1. RunTyped
    <2>1. sent \in Seq(Messages) /\ calls \in Seq(AgentCalls) /\ ran \in Seq(AgentCalls)
          /\ Len(calls) = 0
      OBVIOUS
    <2>2. streamed \in BOOLEAN /\ declined \in BOOLEAN /\ ended \in BOOLEAN
      OBVIOUS
    <2>3. steps \in 0..MaxSteps /\ tries \in 0..MaxAttempts /\ nextCall \in 0..Len(calls)
          /\ Len(calls) <= MaxCalls
      BY <2>1
    <2> QED
      BY <2>1, <2>2, <2>3 DEF RunTyped
  <1>2. AnswerFits /\ SentFits
    BY DEF AnswerFits, SentFits, AtTools
  <1>3. ConvoFits
    BY DEF ConvoFits, AtTools, HasUser
  <1>4. RanFits /\ AllowedFits
    BY DEF RanFits, AllowedFits, IsInjective
  <1> QED
    BY <1>1, <1>2, <1>3, <1>4 DEF RunInv

\* The step limit, or a request with what Fit keeps of the conversation.
LEMMA FitKeeps ==
  ASSUME RunInv, Fit
  PROVE  RunInv'
  <1> USE AgentAssumption DEF RunInv
  <1>1. Grows
    BY QuietGrows DEF Fit
  <1>2. Whole(convo) /\ OpensWithUser(convo) /\ HasUser(convo) /\ convo \in Seq(Messages)
    BY DEF Fit, ConvoFits, AtTools, RunTyped
  <1>3. CASE runPc' = "returned" /\ UNCHANGED <<sent, tries, streamed, calls, nextCall>>
    <2>1. UNCHANGED <<convo, steps, ran, allowed, declined, ended>>
      BY DEF Fit
    <2>2. RunTyped' /\ AnswerFits' /\ SentFits'
      BY <1>3, <2>1 DEF RunTyped, AnswerFits, SentFits, AtTools
    <2>3. ConvoFits'
      BY <1>2, <1>3, <2>1 DEF ConvoFits, AtTools
    <2>4. RanFits'
      BY <1>1, <1>3, <2>1, RanStays DEF RunTyped
    <2>5. AllowedFits'
      BY <1>3, <2>1 DEF AllowedFits, Fit
    <2> QED
      BY <2>2, <2>3, <2>4, <2>5
  <1>4. CASE /\ steps < MaxSteps /\ sent' \in Fitted(convo)
             /\ runPc' = "send" /\ tries' = 0
             /\ streamed' = FALSE /\ calls' = <<>> /\ nextCall' = 0
    <2>1. UNCHANGED <<convo, steps, ran, allowed, declined, ended>>
      BY DEF Fit
    <2>2. sent' \in Seq(Messages) /\ Whole(sent') /\ OpensWithUser(sent') /\ HasUser(sent')
      BY <1>2, <1>4, FittedFits
    <2>3. RunTyped'
      <3>1. calls' \in Seq(AgentCalls) /\ Len(calls') = 0
        BY <1>4
      <3>2. streamed' \in BOOLEAN
        BY <1>4
      <3> QED
        BY <1>4, <2>1, <2>2, <3>1, <3>2 DEF RunTyped
    <2>4. AnswerFits' /\ SentFits'
      BY <1>4, <2>2 DEF AnswerFits, SentFits, AtTools, Whole, OpensWithUser, HasUser
    <2>5. ConvoFits'
      BY <1>2, <1>4, <2>1 DEF ConvoFits, AtTools
    <2>6. RanFits'
      BY <1>1, <1>4, <2>1, RanStays DEF RunTyped
    <2>7. AllowedFits'
      BY <1>4, <2>1 DEF AllowedFits, Fit
    <2> QED
      BY <2>3, <2>4, <2>5, <2>6, <2>7
  <1> QED
    BY <1>3, <1>4 DEF Fit

\* An attempt of the request.
LEMMA SendKeeps ==
  ASSUME RunInv, Send
  PROVE  RunInv'
  <1> USE AgentAssumption DEF RunInv
  <1>1. /\ UNCHANGED <<convo, sent, streamed, calls, nextCall, ran, allowed, declined, ended>>
        /\ runPc = "send" /\ tries' = tries + 1 /\ tries < MaxAttempts
        /\ \/ runPc' \in {"stream", "send"} /\ steps' = steps
           \/ runPc' = "returned" /\ steps' = steps + 1
    BY DEF Send, ChatFails
  <1>2. Grows
    BY <1>1, QuietGrows
  <1>3. RunTyped'
    BY <1>1 DEF RunTyped
  <1>4. AnswerFits'
    BY <1>1 DEF AnswerFits, AtTools
  <1>5. SentFits'
    BY <1>1 DEF SentFits
  <1>6. ConvoFits'
    BY <1>1 DEF ConvoFits, AtTools
  <1>7. RanFits'
    BY <1>1, <1>2, <1>3, RanStays DEF RunTyped
  <1>8. AllowedFits'
    BY <1>1 DEF AllowedFits
  <1> QED
    BY <1>3, <1>4, <1>5, <1>6, <1>7, <1>8

\* One more piece of the answer.
LEMMA FrameKeeps ==
  ASSUME RunInv, Frame
  PROVE  RunInv'
  <1> USE AgentAssumption DEF RunInv
  <1>1. /\ UNCHANGED <<runPc, convo, sent, steps, tries, nextCall, ran, allowed, declined, ended>>
        /\ runPc = "stream" /\ streamed' = TRUE
    BY DEF Frame
  <1>2. Grows
    BY <1>1, QuietGrows
  <1>3. /\ calls' \in Seq(AgentCalls) /\ Len(calls') <= MaxCalls /\ Len(calls) <= Len(calls')
        /\ \A k \in 1..Len(calls') : calls'[k].step = steps /\ calls'[k].n = k
    <2>1. CASE UNCHANGED calls
      BY <1>1, <2>1 DEF RunTyped, AnswerFits
    <2>2. ASSUME NEW kind \in Kinds, Len(calls) < MaxCalls,
                 calls' = Append(calls, AgentCall(steps, Len(calls) + 1, kind))
          PROVE  /\ calls' \in Seq(AgentCalls) /\ Len(calls') <= MaxCalls /\ Len(calls) <= Len(calls')
                 /\ \A k \in 1..Len(calls') : calls'[k].step = steps /\ calls'[k].n = k
      <3> DEFINE x == AgentCall(steps, Len(calls) + 1, kind)
      <3>1. calls \in Seq(AgentCalls) /\ Len(calls) \in Nat /\ steps \in Nat
        BY DEF RunTyped
      <3>2. x \in AgentCalls /\ x.step = steps /\ x.n = Len(calls) + 1
        BY <3>1 DEF AgentCall, AgentCalls
      <3>3. \A k \in 1..Len(calls) : calls[k].step = steps /\ calls[k].n = k
        BY <1>1 DEF AnswerFits
      <3> HIDE DEF x
      <3>4. calls' = Append(calls, x)
        BY <2>2 DEF x
      <3>5. /\ calls' \in Seq(AgentCalls) /\ Len(calls') = Len(calls) + 1
            /\ calls'[Len(calls) + 1] = x
            /\ \A k \in 1..Len(calls) : calls'[k] = calls[k]
        BY <3>1, <3>2, <3>4
      <3> QED
        BY <2>2, <3>1, <3>2, <3>3, <3>5
    <2> QED
      BY <2>1, <2>2 DEF Frame
  <1>4. RunTyped'
    <2>1. streamed' \in BOOLEAN
      BY <1>1
    <2> QED
      BY <1>1, <1>3, <2>1 DEF RunTyped
  <1>5. AnswerFits' /\ SentFits'
    BY <1>1, <1>3 DEF AnswerFits, AtTools, SentFits
  <1>6. ConvoFits' /\ AllowedFits'
    BY <1>1 DEF ConvoFits, AtTools, AllowedFits
  <1>7. RanFits'
    BY <1>1, <1>2, RanStays DEF RunTyped
  <1> QED
    BY <1>4, <1>5, <1>6, <1>7

\* An answer that is lost adds nothing.
LEMMA BreaksKeeps ==
  ASSUME RunInv, runPc = "stream", ChatFails,
         UNCHANGED <<convo, sent, tries, streamed, calls, nextCall, ran, allowed, declined, ended>>
  PROVE  RunInv'
  <1> USE AgentAssumption DEF RunInv
  <1>1. runPc' = "returned" /\ steps' = steps + 1
    BY DEF ChatFails
  <1>2. RunTyped'
    BY <1>1 DEF RunTyped
  <1>3. AnswerFits' /\ SentFits' /\ AllowedFits'
    BY <1>1 DEF AnswerFits, AtTools, SentFits, AllowedFits
  <1>4. ConvoFits'
    BY <1>1 DEF ConvoFits, AtTools
  <1>5. RanFits'
    BY <1>1, QuietGrows, RanStays DEF RunTyped
  <1> QED
    BY <1>2, <1>3, <1>4, <1>5

\* An answer adds its turn, with its calls numbered by step and place.
LEMMA AnsweredKeeps ==
  ASSUME RunInv, runPc = "stream", NEW cs \in Seq(AgentCalls), Len(cs) <= MaxCalls,
         \A k \in 1..Len(cs) : cs[k].step = steps /\ cs[k].n = k, Answered(cs),
         UNCHANGED <<sent, tries, streamed, nextCall, ran, allowed, declined, ended>>
  PROVE  RunInv'
  <1> USE AgentAssumption DEF RunInv
  <1>1. /\ convo' = Append(convo, Turn(cs)) /\ calls' = cs /\ steps' = steps + 1
        /\ runPc' = IF cs = <<>> THEN "returned" ELSE "call"
    BY DEF Answered
  <1>2. /\ convo \in Seq(Messages) /\ convo' \in Seq(Messages) /\ Len(convo') = Len(convo) + 1
        /\ Len(convo) \in Nat /\ \A k \in 1..Len(convo) : convo'[k] = convo[k]
    <2>1. convo \in Seq(Messages) /\ Turn(cs) \in Messages
      BY BuiltMessages DEF RunTyped
    <2> QED
      BY <1>1, <2>1, AddMessage
  <1>3. Grows
    BY <1>2 DEF Grows
  <1>4. nextCall = 0 /\ steps < MaxSteps /\ steps \in Nat /\ nextCall' = 0
    BY DEF RunTyped
  <1>5. Len(cs) \in Nat /\ (cs # <<>> => 0 < Len(cs)) /\ (cs = <<>> => Len(cs) = 0)
    OBVIOUS
  <1>6. RunTyped'
    BY <1>1, <1>2, <1>4, <1>5 DEF RunTyped
  <1>7. AnswerFits'
    BY <1>1, <1>4, <1>5 DEF AnswerFits, AtTools
  <1>8. ConvoFits'
    <2>1. Whole(convo) /\ OpensWithUser(convo) /\ HasUser(convo)
      BY DEF ConvoFits, AtTools
    <2>2. TurnOpen(convo', cs, 0)
      BY <1>1, <1>2, <2>1, AddTurn
    <2>3. OpensWithUser(convo') /\ HasUser(convo')
      BY <1>2, <2>1, StillOpens
    <2>4. CASE cs = <<>>
      <3>1. Whole(convo')
        BY <1>2, <1>5, <2>2, <2>4, AllAnswered
      <3> QED
        BY <1>1, <2>3, <2>4, <3>1 DEF ConvoFits, AtTools
    <2>5. CASE cs # <<>>
      <3>1. TurnOpen(convo', calls', nextCall')
        BY <1>1, <1>4, <2>2
      <3> QED
        BY <1>1, <2>3, <2>5, <3>1 DEF ConvoFits, AtTools
    <2> QED
      BY <2>4, <2>5
  <1>9. RanFits'
    <2>1. \A i \in 1..Len(ran) : ran[i].step + 1 # steps'
      <3>1. ASSUME NEW i \in 1..Len(ran) PROVE ran[i].step + 1 # steps'
        <4>1. ran[i] \in AgentCalls
          BY DEF RunTyped
        <4>3. ran[i].step < steps
          BY DEF RanFits
        <4>2. ran[i].step \in Nat
          BY <4>1 DEF AgentCalls
        <4> QED
          BY <1>1, <1>4, <4>2, <4>3
      <3> QED
        BY <3>1
    <2> QED
      BY <1>1, <1>3, <1>4, <2>1, RanStays
  <1>10. AllowedFits' /\ SentFits'
    BY <1>1 DEF AllowedFits, SentFits
  <1> QED
    BY <1>6, <1>7, <1>8, <1>9, <1>10

\* The driver has the whole answer.
LEMMA FinishKeeps ==
  ASSUME RunInv, Finish
  PROVE  RunInv'
  BY AnsweredKeeps DEF Finish, RunInv, RunTyped, AnswerFits

\* The body ends first, or holds the answer in one object.
LEMMA EndOfBodyKeeps ==
  ASSUME RunInv, EndOfBody
  PROVE  RunInv'
  <1>1. CASE ChatFails /\ UNCHANGED <<convo, calls>>
    BY <1>1, BreaksKeeps DEF EndOfBody
  <1>2. ASSUME NEW kind \in Kinds, Answered(<<AgentCall(steps, 1, kind)>>)
        PROVE  RunInv'
    <2> DEFINE x == AgentCall(steps, 1, kind)
               cs == <<x>>
    <2>1. steps \in Nat
      BY AgentAssumption DEF RunInv, RunTyped
    <2>2. x \in AgentCalls /\ x.step = steps /\ x.n = 1
      BY <2>1 DEF AgentCall, AgentCalls
    <2>3. Answered(cs)
      BY <1>2
    <2> HIDE DEF x
    <2>4. cs \in Seq(AgentCalls) /\ Len(cs) = 1 /\ cs[1] = x
      BY <2>2
    <2>5. Len(cs) <= MaxCalls
      BY <2>4, AgentAssumption
    <2> HIDE DEF cs
    <2>6. \A k \in 1..Len(cs) : cs[k].step = steps /\ cs[k].n = k
      BY <2>2, <2>4
    <2> QED
      BY <2>3, <2>4, <2>5, <2>6, AnsweredKeeps DEF EndOfBody
  <1> QED
    BY <1>1, <1>2 DEF EndOfBody

\* One more result, of the call whose turn it is.
LEMMA ResultKeeps ==
  ASSUME RunInv, runPc \in {"call", "confirm", "tool"}, NEW what \in {"output", "failed", "refused", "stopped"},
         convo' = Append(convo, Answer(Current, what)), nextCall' = nextCall + 1,
         calls' = calls
  PROVE  /\ convo' \in Seq(Messages) /\ Grows /\ nextCall' \in 0..Len(calls)
         /\ Current \in AgentCalls /\ TurnOpen(convo', calls', nextCall')
         /\ OpensWithUser(convo') /\ HasUser(convo')
         /\ nextCall + 1 = Len(calls) => Whole(convo')
  <1> USE DEF RunInv
  <1>1. /\ nextCall \in Nat /\ nextCall < Len(calls) /\ calls \in Seq(AgentCalls)
        /\ convo \in Seq(Messages) /\ TurnOpen(convo, calls, nextCall)
        /\ OpensWithUser(convo) /\ HasUser(convo)
    BY DEF RunTyped, AnswerFits, ConvoFits, AtTools
  <1>2. Current \in AgentCalls /\ Current = calls[nextCall + 1]
    BY <1>1 DEF Current
  <1>3. Answer(Current, what) \in Messages
    BY <1>2, BuiltMessages
  <1>4. /\ convo' \in Seq(Messages) /\ Len(convo') = Len(convo) + 1
        /\ Len(convo) \in Nat /\ \A k \in 1..Len(convo) : convo'[k] = convo[k]
    BY <1>1, <1>3, AddMessage
  <1>5. TurnOpen(convo', calls', nextCall')
    <2>1. ASSUME NEW m \in Seq(Messages), NEW cs \in Seq(AgentCalls), NEW d \in Nat,
                 d < Len(cs), TurnOpen(m, cs, d)
          PROVE  TurnOpen(Append(m, Answer(cs[d + 1], what)), cs, d + 1)
      BY <2>1, AddResult
    <2>2. TurnOpen(Append(convo, Answer(calls[nextCall + 1], what)), calls, nextCall + 1)
      BY <1>1, <2>1
    <2> QED
      BY <1>2, <2>2
  <1>6. OpensWithUser(convo') /\ HasUser(convo')
    <2>1. Len(convo) <= Len(convo')
      BY <1>4
    <2> QED
      BY <1>1, <1>4, <2>1, StillOpens
  <1>7. nextCall' \in 0..Len(calls) /\ Grows
    BY <1>1, <1>4 DEF Grows
  <1>8. ASSUME nextCall + 1 = Len(calls) PROVE Whole(convo')
    BY <1>1, <1>4, <1>5, <1>8, AllAnswered
  <1> QED
    BY <1>2, <1>4, <1>5, <1>6, <1>7, <1>8
\* The step after a result that was made without running the tool.
LEMMA RefusalKeeps ==
  ASSUME RunInv, runPc \in {"call", "confirm"}, Result("refused"), declined' \in BOOLEAN,
         UNCHANGED <<sent, steps, tries, streamed, calls, ran, allowed, ended>>
  PROVE  RunInv'
  <1> USE AgentAssumption DEF RunInv
  <1>1. /\ convo' = Append(convo, Answer(Current, "refused")) /\ nextCall' = nextCall + 1
        /\ runPc' = AfterCall
    BY DEF Result
  <1>2. /\ convo' \in Seq(Messages) /\ Grows /\ nextCall' \in 0..Len(calls)
        /\ TurnOpen(convo', calls', nextCall')
        /\ OpensWithUser(convo') /\ HasUser(convo')
        /\ nextCall + 1 = Len(calls) => Whole(convo')
    BY <1>1, ResultKeeps
  <1>3. /\ runPc' = IF nextCall + 1 = Len(calls) THEN "fit" ELSE "call"
        /\ nextCall \in Nat /\ Len(calls) \in Nat /\ nextCall < Len(calls)
    BY <1>1 DEF AfterCall, RunTyped, AnswerFits, AtTools
  <1>4. RunTyped'
    BY <1>1, <1>2, <1>3 DEF RunTyped
  <1>5. AnswerFits' /\ SentFits'
    BY <1>1, <1>3 DEF AnswerFits, AtTools, SentFits
  <1>6. ConvoFits'
    BY <1>1, <1>2, <1>3 DEF ConvoFits, AtTools
  <1>7. RanFits'
    <2>1. steps' \in Nat /\ steps <= steps' /\ allowed \subseteq allowed'
      BY DEF RunTyped
    <2>2. \A i \in 1..Len(ran) : ran[i].step + 1 = steps' => ran[i].n <= nextCall'
      <3>1. ASSUME NEW i \in 1..Len(ran), ran[i].step + 1 = steps' PROVE ran[i].n <= nextCall'
        <4>1. ran[i] \in AgentCalls
          BY DEF RunTyped
        <4>2. ran[i].n \in Nat
          BY <4>1 DEF AgentCalls
        <4>3. ran[i].n <= nextCall
          BY <3>1 DEF RanFits
        <4> QED
          BY <1>1, <1>3, <4>2, <4>3
      <3> QED
        BY <3>1
    <2> QED
      BY <1>2, <2>1, <2>2, RanStays
  <1>8. AllowedFits'
    BY <1>1, <1>3 DEF AllowedFits
  <1> QED
    BY <1>4, <1>5, <1>6, <1>7, <1>8

\* A step that goes on with the same call, or stops before it.
LEMMA SameCallKeeps ==
  ASSUME RunInv, runPc \in {"call", "confirm"}, runPc' \in {"confirm", "tool", "stop"},
         runPc' = "confirm" => ~declined, allowed \subseteq allowed',
         runPc' = "tool" /\ Current.kind = "destructive" => Current \in allowed',
         \A a \in allowed' : a \in allowed \/ (runPc' = "tool" /\ a = Current),
         UNCHANGED <<convo, sent, steps, tries, streamed, calls, nextCall, ran, declined, ended>>
  PROVE  RunInv'
  <1> USE AgentAssumption DEF RunInv
  <1>1. /\ nextCall \in Nat /\ nextCall < Len(calls) /\ calls \in Seq(AgentCalls)
    BY DEF RunTyped, AnswerFits, AtTools
  <1>2. Current \in AgentCalls /\ Current' = Current
    BY <1>1 DEF Current
  <1>3. allowed' \subseteq AgentCalls
    BY <1>2 DEF RunTyped
  <1>4. RunTyped'
    BY <1>3 DEF RunTyped
  <1>5. AnswerFits' /\ SentFits'
    BY DEF AnswerFits, AtTools, SentFits
  <1>6. ConvoFits'
    BY DEF ConvoFits, AtTools
  <1>7. RanFits'
    <2>1. steps' \in Nat /\ steps <= steps'
      BY DEF RunTyped
    <2>2. \A i \in 1..Len(ran) : ran[i].step + 1 = steps' => ran[i].n <= nextCall'
      BY DEF RanFits
    <2> QED
      BY <2>1, <2>2, QuietGrows, RanStays
  <1>8. AllowedFits'
    BY <1>2 DEF AllowedFits
  <1> QED
    BY <1>4, <1>5, <1>6, <1>7, <1>8

\* A call is refused by the loop, asked about, or run.
LEMMA InvokeKeeps ==
  ASSUME RunInv, Invoke
  PROVE  RunInv'
  <1>1. declined \in BOOLEAN
    BY DEF RunInv, RunTyped
  <1>2. CASE Result("refused")
    BY <1>1, <1>2, RefusalKeeps DEF Invoke
  <1>3. CASE /\ Current.kind = "destructive" /\ ~declined
             /\ runPc' = "confirm" /\ UNCHANGED <<convo, nextCall>>
    BY <1>3, SameCallKeeps DEF Invoke
  <1>4. CASE Current.kind = "plain" /\ runPc' = "tool" /\ UNCHANGED <<convo, nextCall>>
    BY <1>4, SameCallKeeps DEF Invoke
  <1> QED
    BY <1>2, <1>3, <1>4 DEF Invoke

\* The user says yes, or no, or the run stops.
LEMMA ConfirmKeeps ==
  ASSUME RunInv, Confirm
  PROVE  RunInv'
  <1>1. CASE /\ runPc' = "tool" /\ allowed' = allowed \cup {Current}
             /\ UNCHANGED <<convo, nextCall, declined>>
    BY <1>1, SameCallKeeps DEF Confirm
  <1>2. CASE Result("refused") /\ declined' = TRUE /\ UNCHANGED allowed
    <2>1. declined' \in BOOLEAN
      BY <1>2
    <2> QED
      BY <1>2, <2>1, RefusalKeeps DEF Confirm
  <1>3. CASE runPc' = "stop" /\ UNCHANGED <<convo, nextCall, allowed, declined>>
    BY <1>3, SameCallKeeps DEF Confirm
  <1> QED
    BY <1>1, <1>2, <1>3 DEF Confirm

\* The call whose tool runs is new, in the conversation, and allowed.
LEMMA RanAdds ==
  ASSUME RunInv, runPc = "tool", ran' = Append(ran, Current), Grows,
         UNCHANGED <<steps, allowed, calls>>,
         runPc' = "stop" \/ nextCall' = nextCall + 1, runPc' \in {"fit", "call", "stop"}
  PROVE  ran' \in Seq(AgentCalls) /\ RanFits' /\ \A a \in allowed : \E i \in 1..Len(ran') : ran'[i] = a
  <1> USE DEF RunInv
  <1>1. /\ nextCall \in Nat /\ nextCall < Len(calls) /\ calls \in Seq(AgentCalls)
        /\ ran \in Seq(AgentCalls) /\ steps \in Nat
    BY AgentAssumption DEF RunTyped, AnswerFits, AtTools
  <1>2. /\ Current \in AgentCalls /\ Current = calls[nextCall + 1]
        /\ Current.step + 1 = steps /\ Current.n = nextCall + 1
        /\ Current.step \in Nat
    <2>1. Current \in AgentCalls /\ Current = calls[nextCall + 1] /\ nextCall + 1 \in 1..Len(calls)
      BY <1>1 DEF Current
    <2>2. Current.step + 1 = steps /\ Current.n = nextCall + 1
      BY <2>1 DEF AnswerFits, AtTools
    <2>3. Current.step \in Nat
      BY <2>1 DEF AgentCalls
    <2> QED
      BY <2>1, <2>2, <2>3
  <1> DEFINE c == Current
  <1> HIDE DEF c
  <1>3. /\ ran' \in Seq(AgentCalls) /\ Len(ran) \in Nat /\ Len(ran') = Len(ran) + 1
        /\ ran'[Len(ran) + 1] = c /\ \A i \in 1..Len(ran) : ran'[i] = ran[i]
    BY <1>1, <1>2 DEF c
  <1>4. ASSUME NEW i \in 1..Len(ran)
        PROVE  /\ ran[i] # c /\ ran[i].step < steps
               /\ (ran[i].step + 1 = steps => ran[i].n <= nextCall) /\ ran[i].n \in Nat
               /\ \E j \in 1..Len(convo) : Contains(convo[j].calls, ran[i])
               /\ ran[i].kind = "destructive" => ran[i] \in allowed
    <2>1. ran[i] \in AgentCalls
      BY DEF RunTyped
    <2>2. ran[i].step \in Nat /\ ran[i].n \in Nat
      BY <2>1 DEF AgentCalls
    <2>3. ran[i].step < steps /\ (ran[i].step + 1 = steps => ran[i].n <= nextCall)
      BY DEF RanFits
    <2>4. ran[i] # c
      BY <1>1, <1>2, <2>2, <2>3 DEF c
    <2> QED
      BY <2>2, <2>3, <2>4 DEF RanFits
  <1>5. \E j \in 1..Len(convo) : Contains(convo[j].calls, c)
    <2>1. TurnOpen(convo, calls, nextCall) /\ convo \in Seq(Messages)
      BY DEF ConvoFits, AtTools, RunTyped
    <2>2. Len(convo) - nextCall \in 1..Len(convo) /\ convo[Len(convo) - nextCall].calls = calls
      BY <1>1, <2>1 DEF TurnOpen
    <2>3. Contains(calls, c)
      BY <1>1, <1>2 DEF Contains, c
    <2> QED
      BY <2>2, <2>3
  <1>6. c.kind = "destructive" => c \in allowed
    BY DEF AllowedFits, c
  <1>7. \A j \in 1..Len(convo) : j \in 1..Len(convo') /\ convo'[j] = convo[j]
    BY DEF Grows, RunTyped
  <1>8. ASSUME NEW i \in 1..Len(ran')
        PROVE  /\ ran'[i].step < steps
               /\ (ran'[i].step + 1 = steps => ran'[i].n <= nextCall + 1)
               /\ \E j \in 1..Len(convo) : Contains(convo[j].calls, ran'[i])
               /\ ran'[i].kind = "destructive" => ran'[i] \in allowed
    <2>1. CASE i = Len(ran) + 1
      BY <1>1, <1>2, <1>3, <1>5, <1>6, <2>1 DEF c
    <2>2. CASE i # Len(ran) + 1
      <3>1. i \in 1..Len(ran)
        BY <1>3, <2>2
      <3> QED
        BY <1>1, <1>3, <1>4, <3>1
    <2> QED
      BY <2>1, <2>2
  <1>9. IsInjective(ran')
    <2>1. IsInjective(ran) /\ DOMAIN ran = 1..Len(ran) /\ DOMAIN ran' = 1..Len(ran')
      BY <1>1, <1>3 DEF RanFits
    <2>2. ASSUME NEW a \in 1..Len(ran'), NEW b \in 1..Len(ran'), ran'[a] = ran'[b] PROVE a = b
      <3>1. a \in 1..Len(ran) \/ a = Len(ran) + 1
        BY <1>3
      <3>2. b \in 1..Len(ran) \/ b = Len(ran) + 1
        BY <1>3
      <3> QED
        BY <1>3, <1>4, <2>1, <2>2, <3>1, <3>2 DEF IsInjective
    <2> QED
      BY <2>1, <2>2 DEF IsInjective
  <1>10. RanFits'
    BY <1>7, <1>8, <1>9 DEF RanFits
  <1>11. ASSUME NEW a \in allowed PROVE \E i \in 1..Len(ran') : ran'[i] = a
    <2>1. CASE a = Current
      BY <1>3, <2>1 DEF c
    <2>2. CASE a # Current
      <3>1. PICK i \in 1..Len(ran) : ran[i] = a
        BY <2>2 DEF AllowedFits
      <3> QED
        BY <1>3, <3>1
    <2> QED
      BY <2>1, <2>2
  <1> QED
    BY <1>3, <1>10, <1>11

\* The tool runs and its result is recorded, or the run stops without it.
LEMMA ToolKeeps ==
  ASSUME RunInv, Tool
  PROVE  RunInv'
  <1> USE AgentAssumption DEF RunInv
  <1>1. /\ runPc = "tool" /\ ran' = Append(ran, Current)
        /\ UNCHANGED <<sent, steps, tries, streamed, calls, allowed, declined, ended>>
    BY DEF Tool
  <1>2. /\ nextCall \in Nat /\ nextCall < Len(calls) /\ Len(calls) \in Nat
        /\ TurnOpen(convo, calls, nextCall) /\ OpensWithUser(convo) /\ HasUser(convo)
    BY <1>1 DEF RunTyped, AnswerFits, ConvoFits, AtTools
  <1>3. ASSUME NEW what \in {"output", "failed"},
               convo' = Append(convo, Answer(Current, what)), nextCall' = nextCall + 1,
               runPc' = AfterCall \/ runPc' = "stop"
        PROVE  RunInv'
    <2>1. /\ convo' \in Seq(Messages) /\ Grows /\ nextCall' \in 0..Len(calls)
          /\ TurnOpen(convo', calls', nextCall')
          /\ OpensWithUser(convo') /\ HasUser(convo')
          /\ nextCall + 1 = Len(calls) => Whole(convo')
      BY <1>1, <1>3, ResultKeeps
    <2>2. runPc' = (IF nextCall + 1 = Len(calls) THEN "fit" ELSE "call") \/ runPc' = "stop"
      BY <1>3 DEF AfterCall
    <2>3. /\ ran' \in Seq(AgentCalls) /\ RanFits'
          /\ \A a \in allowed : \E i \in 1..Len(ran') : ran'[i] = a
      BY <1>1, <1>3, <2>1, <2>2, RanAdds
    <2>4. RunTyped'
      BY <1>1, <2>1, <2>2, <2>3 DEF RunTyped
    <2>5. AnswerFits' /\ SentFits'
      BY <1>1, <1>2, <1>3, <2>2 DEF AnswerFits, AtTools, SentFits
    <2>6. ConvoFits'
      BY <1>1, <2>1, <2>2 DEF ConvoFits, AtTools
    <2>7. AllowedFits'
      BY <1>1, <2>2, <2>3 DEF AllowedFits
    <2> QED
      BY <2>3, <2>4, <2>5, <2>6, <2>7
  <1>4. CASE runPc' = "stop" /\ UNCHANGED <<convo, nextCall>>
    <2>1. Grows
      BY <1>4, QuietGrows
    <2>2. /\ ran' \in Seq(AgentCalls) /\ RanFits'
          /\ \A a \in allowed : \E i \in 1..Len(ran') : ran'[i] = a
      BY <1>1, <1>4, <2>1, RanAdds
    <2>3. RunTyped'
      BY <1>1, <1>4, <2>2 DEF RunTyped
    <2>4. AnswerFits' /\ SentFits'
      BY <1>1, <1>4 DEF AnswerFits, AtTools, SentFits
    <2>5. ConvoFits'
      BY <1>1, <1>2, <1>4 DEF ConvoFits, AtTools
    <2>6. AllowedFits'
      BY <1>1, <1>4, <2>2 DEF AllowedFits
    <2> QED
      BY <2>2, <2>3, <2>4, <2>5, <2>6
  <1>5. CASE ~ended /\ \E what \in {"output", "failed"} : Result(what)
    BY <1>3, <1>5 DEF Result
  <1>6. CASE ended /\ runPc' = "stop" /\ convo' = Append(convo, Answer(Current, "output")) /\ nextCall' = nextCall + 1
    BY <1>3, <1>6
  <1> QED
    BY <1>4, <1>5, <1>6 DEF Tool

\* Every call that is left is answered.
LEMMA StopKeeps ==
  ASSUME RunInv, Stop
  PROVE  RunInv'
  <1> USE AgentAssumption DEF RunInv
  <1> DEFINE rest == [n \in 1 .. Len(calls) - nextCall |-> Answer(calls[nextCall + n], "stopped")]
  <1>1. /\ runPc = "stop" /\ runPc' = "returned" /\ nextCall' = Len(calls)
        /\ convo' = convo \o rest
        /\ UNCHANGED <<sent, steps, tries, streamed, calls, ran, allowed, declined, ended>>
    BY DEF Stop
  <1>2. /\ nextCall \in Nat /\ nextCall <= Len(calls) /\ calls \in Seq(AgentCalls)
        /\ TurnOpen(convo, calls, nextCall) /\ OpensWithUser(convo) /\ HasUser(convo)
        /\ convo \in Seq(Messages) /\ Len(calls) \in Nat
    BY <1>1 DEF RunTyped, ConvoFits, AtTools
  <1>3. rest \in Seq(Messages) /\ AnswersRest(rest, calls, nextCall)
    BY <1>2, RestParts
  <1> HIDE DEF rest
  <1>4. Whole(convo')
    BY <1>1, <1>2, <1>3, AnswerTheRest
  <1>5. /\ convo' \in Seq(Messages) /\ Len(convo) <= Len(convo')
        /\ \A k \in 1..Len(convo) : convo'[k] = convo[k]
    <2>1. /\ convo \o rest \in Seq(Messages) /\ Len(convo) \in Nat /\ Len(rest) \in Nat
          /\ Len(convo \o rest) = Len(convo) + Len(rest)
          /\ \A k \in 1..Len(convo) : (convo \o rest)[k] = convo[k]
      BY <1>2, <1>3, JoinParts
    <2> QED
      BY <1>1, <2>1
  <1>6. OpensWithUser(convo') /\ HasUser(convo')
    BY <1>2, <1>5, StillOpens
  <1>7. RunTyped'
    BY <1>1, <1>2, <1>5 DEF RunTyped
  <1>8. AnswerFits' /\ SentFits'
    BY <1>1 DEF AnswerFits, AtTools, SentFits
  <1>9. ConvoFits'
    BY <1>1, <1>4, <1>6 DEF ConvoFits, AtTools
  <1>10. RanFits'
    <2>1. Grows
      BY <1>5 DEF Grows
    <2> QED
      BY <1>1, <2>1, RanStays DEF RunTyped
  <1>11. AllowedFits'
    BY <1>1 DEF AllowedFits
  <1> QED
    BY <1>7, <1>8, <1>9, <1>10, <1>11

\* The context ends.
LEMMA ContextEndsKeeps ==
  ASSUME RunInv, ContextEnds
  PROVE  RunInv'
  <1> USE DEF RunInv, ContextEnds
  <1>1. RunTyped'
    <2>1. ended' \in BOOLEAN
      OBVIOUS
    <2> QED
      BY <2>1 DEF RunTyped
  <1>2. AnswerFits' /\ SentFits'
    BY DEF AnswerFits, AtTools, SentFits
  <1>3. ConvoFits'
    BY DEF ConvoFits, AtTools
  <1>4. RanFits'
    BY DEF RanFits
  <1>5. AllowedFits'
    BY DEF AllowedFits, Current
  <1> QED
    BY <1>1, <1>2, <1>3, <1>4, <1>5

\* Every step of a run keeps the invariant.
LEMMA StepRunInv == RunInv /\ [AgentNext]_agentVars => RunInv'
  <1> SUFFICES ASSUME RunInv, [AgentNext]_agentVars PROVE RunInv'
    OBVIOUS
  <1>1. CASE UNCHANGED agentVars
    <2> USE <1>1 DEF agentVars, RunInv
    <2>1. RunTyped'
      BY DEF RunTyped
    <2>2. AnswerFits' /\ SentFits'
      BY DEF AnswerFits, AtTools, SentFits
    <2>3. ConvoFits'
      BY DEF ConvoFits, AtTools
    <2>4. RanFits'
      BY DEF RanFits
    <2>5. AllowedFits'
      BY DEF AllowedFits, Current
    <2> QED
      BY <2>1, <2>2, <2>3, <2>4, <2>5
  <1>2. CASE Fit
    BY <1>2, FitKeeps
  <1>3. CASE Send
    BY <1>3, SendKeeps
  <1>4. CASE Frame
    BY <1>4, FrameKeeps
  <1>5. CASE Finish
    BY <1>5, FinishKeeps
  <1>6. CASE EndOfBody
    BY <1>6, EndOfBodyKeeps
  <1>7. CASE Breaks
    BY <1>7, BreaksKeeps DEF Breaks
  <1>8. CASE Invoke
    BY <1>8, InvokeKeeps
  <1>9. CASE Confirm
    BY <1>9, ConfirmKeeps
  <1>10. CASE Tool
    BY <1>10, ToolKeeps
  <1>11. CASE Stop
    BY <1>11, StopKeeps
  <1>12. CASE ContextEnds
    BY <1>12, ContextEndsKeeps
  <1> QED
    BY <1>1, <1>2, <1>3, <1>4, <1>5, <1>6, <1>7, <1>8, <1>9, <1>10, <1>11, <1>12 DEF AgentNext

\* The invariant holds of every run of the agent.
LEMMA RunInductive == AgentSpec => []RunInv
  BY InitRunInv, StepRunInv, PTL DEF AgentSpec

\* The state of a run keeps its type: no more steps than opt.MaxSteps, no more
\* attempts than the policy allows, no result without its call.
THEOREM RunTypes == AgentSpec => []AgentTypeOK
  <1>1. RunInv => AgentTypeOK
    <2> SUFFICES ASSUME RunInv PROVE AgentTypeOK
      OBVIOUS
    <2> USE AgentAssumption DEF RunInv
    <2>1. \A m \in {convo[i] : i \in DOMAIN convo} \cup {sent[i] : i \in DOMAIN sent} :
            m.role \in {"system", "user", "assistant", "result"}
      <3>1. \A i \in DOMAIN convo : convo[i] \in Messages
        BY DEF RunTyped
      <3>2. \A i \in DOMAIN sent : sent[i] \in Messages
        BY DEF RunTyped
      <3> QED
        BY <3>1, <3>2, MessageParts
    <2>2. \A i \in DOMAIN calls : calls[i].kind \in Kinds
      <3>1. \A i \in DOMAIN calls : calls[i] \in AgentCalls
        BY DEF RunTyped
      <3> QED
        BY <3>1 DEF AgentCalls
    <2>3. nextCall \in 0 .. Len(calls) /\ Len(calls) <= 2 * MaxCalls
      BY DEF RunTyped
    <2>4. allowed \subseteq {ran[i] : i \in DOMAIN ran} \cup {calls[i] : i \in DOMAIN calls}
      <3>1. ASSUME NEW a \in allowed
            PROVE  a \in {ran[i] : i \in DOMAIN ran} \cup {calls[i] : i \in DOMAIN calls}
        <4>1. CASE \E i \in 1..Len(ran) : ran[i] = a
          BY <4>1 DEF RunTyped
        <4>2. CASE runPc = "tool" /\ a = Current
          BY <4>2 DEF RunTyped, AnswerFits, AtTools, Current
        <4> QED
          BY <4>1, <4>2 DEF AllowedFits
      <3> QED
        BY <3>1
    <2>5. {streamed, declined, ended} \subseteq BOOLEAN
      BY DEF RunTyped
    <2>6. /\ runPc \in {"fit", "send", "stream", "call", "confirm", "tool", "stop", "returned"}
          /\ steps \in 0 .. MaxSteps /\ tries \in 0 .. MaxAttempts
      BY DEF RunTyped
    <2> QED
      BY <2>1, <2>2, <2>3, <2>4, <2>5, <2>6 DEF AgentTypeOK
  <1> QED
    BY <1>1, RunInductive, PTL

\* A tool runs at most once per call, for a call of an answer that the server
\* finished, and one that changes data only after a yes for that very call
\* (agent.go runTool, invoke).
THEOREM ToolsOnce == AgentSpec => []ToolsRunOnce
  <1>1. RunInv => ToolsRunOnce
    BY SMTT(20) DEF RunInv, RunTyped, RanFits, AllowedFits, ToolsRunOnce
  <1> QED
    BY <1>1, RunInductive, PTL

\* The conversation that Run returns, and each request, are ones that a server
\* accepts, whatever was refused, cut short or dropped to fit the context
\* (agent.go Run, budget.go Fit).
THEOREM ConversationsAreWhole == AgentSpec => []ConversationIsWhole
  <1>1. RunInv => ConversationIsWhole
    <2> SUFFICES ASSUME RunInv PROVE ConversationIsWhole
      OBVIOUS
    <2>1. runPc = "returned" => Whole(convo)
      BY DEF RunInv, ConvoFits, AtTools
    <2>2. ASSUME runPc = "send"
          PROVE  Whole(sent) /\ OpensWithUser(sent) /\ LastIndex(sent, "user") > 0
      <3>1. sent \in Seq(Messages) /\ Whole(sent) /\ OpensWithUser(sent) /\ HasUser(sent)
        BY <2>2 DEF RunInv, RunTyped, SentFits
      <3> QED
        BY <3>1, LastUser
    <2> QED
      BY <2>1, <2>2 DEF ConversationIsWhole
  <1> QED
    BY <1>1, RunInductive, PTL
================================================================================

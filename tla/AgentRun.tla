-------------------------------- MODULE AgentRun --------------------------------
(***************************************************************************)
(* One run of an agent: agent.Run and its tools (src/llm/agent/agent.go),  *)
(* the trimming to the context window (src/llm/budget.go), the resolution  *)
(* of the slot (src/llm/registry.go), the retries of a request             *)
(* (src/llm/retry.go), and the streams of the drivers                      *)
(* (src/llm/anthropic, src/llm/openai, src/llm/ollama).                    *)
(*                                                                         *)
(* A message is its role and what ties messages together: the calls of an  *)
(* assistant turn, the call that a tool result answers.  What a server     *)
(* sends, and when it or the connection stops, is nondeterministic.        *)
(***************************************************************************)
EXTENDS Naturals, FiniteSets, SequencesExt

CONSTANTS Histories,   \* conversations that Run may be given
          MaxSteps,    \* opt.MaxSteps
          MaxCalls,    \* bound on the tool calls of one answer
          MaxAttempts  \* RetryPolicy.Attempts

VARIABLES runPc,     \* where Run is
          convo,     \* res.Messages
          sent,      \* the messages of the latest request
          steps,     \* res.Steps
          tries,     \* attempts of the current request
          streamed,  \* the stream has delivered something
          calls,     \* tool calls of the answer being read, or being run
          nextCall,  \* how many of them have been answered
          ran,       \* calls whose tool was run, in order
          allowed,   \* calls that the user said yes to
          declined,  \* the destructive tool is in the map of declined tools
          ended      \* the context of Run has ended

agentVars == <<runPc, convo, sent, steps, tries, streamed, calls, nextCall,
               ran, allowed, declined, ended>>

\* A call of a tool that reads, of one that changes data, or one that the loop
\* refuses by itself: no such tool, or arguments that are no object.
Kinds == {"plain", "destructive", "bad"}
AgentCall(s, n, k) == [step |-> s, n |-> n, kind |-> k]
Text(role) == [role |-> role, calls |-> <<>>]
Turn(cs) == [role |-> "assistant", calls |-> cs]
Answer(c, what) == [role |-> "result", calls |-> <<c>>, what |-> what]

AgentCalls == [step : Nat, n : Nat, kind : Kinds]
Messages ==
  [role : {"system", "user", "assistant"}, calls : Seq(AgentCalls)]
    \cup [role : {"result"}, calls : Seq(AgentCalls),
          what : {"output", "failed", "refused", "stopped"}]

\* Every tool call is followed at once by its result, and no result lacks its
\* call: what an API refuses otherwise.
Whole(msgs) ==
  \A i \in DOMAIN msgs :
    /\ \A n \in DOMAIN msgs[i].calls :
         msgs[i].role = "assistant" =>
           /\ i + n \in DOMAIN msgs
           /\ msgs[i + n].role = "result" /\ msgs[i + n].calls = <<msgs[i].calls[n]>>
    /\ msgs[i].role = "result" =>
         \E j \in 1 .. i - 1 : /\ msgs[j].role = "assistant" /\ i - j \in DOMAIN msgs[j].calls
                               /\ msgs[j].calls[i - j] = msgs[i].calls[1]

\* But for system messages it begins with a user turn.
OpensWithUser(msgs) ==
  \A i \in DOMAIN msgs : msgs[i].role # "system" =>
    \E j \in 1 .. i : msgs[j].role = "user" /\ \A k \in 1 .. j - 1 : msgs[k].role = "system"

\* Run is given a conversation with a question in it that a server accepts: one
\* that an app began, or that an earlier run returned.
ASSUME AgentAssumption ==
  /\ MaxSteps \in Nat /\ MaxCalls \in Nat \ {0} /\ MaxAttempts \in Nat \ {0}
  /\ \A h \in Histories :
       /\ h \in Seq(Messages) /\ Whole(h) /\ OpensWithUser(h)
       /\ \E i \in DOMAIN h : h[i].role = "user"
-----------------------------------------------------------------------------
(* llm.Fit: which messages a request may keep. *)

LastIndex(msgs, role) ==
  LET is == {i \in DOMAIN msgs : msgs[i].role = role} IN IF is = {} THEN 0 ELSE Max(is)

\* The turn in progress: a final assistant turn with the results so far.
Final(msgs) ==
  LET others == {i \in DOMAIN msgs : msgs[i].role # "result"}
      last == IF others = {} THEN 0 ELSE Max(others)
  IN  IF last > 0 /\ msgs[last].role = "assistant" THEN last ELSE Len(msgs) + 1

\* turns(): the first messages of what may be dropped, oldest first.  Results
\* go with the assistant turn that they answer.
Droppable(msgs) ==
  {i \in 1 .. Final(msgs) - 1 :
     msgs[i].role \notin {"system", "result"} /\ i # LastIndex(msgs, "user")}

Group(msgs, i) ==
  {i} \cup {j \in i + 1 .. Final(msgs) - 1 : \A k \in i + 1 .. j : msgs[k].role = "result"}

\* Dropping stops before group i only when what is left opens with a user turn
\* or i comes after the question.  How much has to go is a matter of tokens.
MayKeepFrom_Anything(msgs, i) == TRUE
MayKeepFrom(msgs, i) == i > LastIndex(msgs, "user") \/ msgs[i].role = "user"

\* What is left of msgs when only the indices is stay, in order.
Rank(is, i) == Cardinality({j \in is : j <= i})
Nth(is, n) == CHOOSE i \in is : Rank(is, i) = n
Kept(msgs, is) == [n \in 1 .. Cardinality(is) |-> msgs[Nth(is, n)]]

Without(msgs, firsts) == Kept(msgs, DOMAIN msgs \ UNION {Group(msgs, i) : i \in firsts})

Fitted(msgs) ==
  {msgs, Without(msgs, Droppable(msgs))}
    \cup {Without(msgs, {j \in Droppable(msgs) : j < i}) :
            i \in {i \in Droppable(msgs) : MayKeepFrom(msgs, i)}}
-----------------------------------------------------------------------------
AgentInit ==
  /\ runPc = "fit" /\ convo \in Histories /\ sent = <<>>
  /\ steps = 0 /\ tries = 0 /\ streamed = FALSE /\ calls = <<>> /\ nextCall = 0
  /\ ran = <<>> /\ allowed = {} /\ declined = FALSE /\ ended = FALSE

AgentTypeOK ==
  /\ runPc \in {"fit", "send", "stream", "call", "confirm", "tool", "stop", "returned"}
  /\ \A m \in {convo[i] : i \in DOMAIN convo} \cup {sent[i] : i \in DOMAIN sent} :
       m.role \in {"system", "user", "assistant", "result"}
  /\ steps \in 0 .. MaxSteps /\ tries \in 0 .. MaxAttempts
  /\ \A i \in DOMAIN calls : calls[i].kind \in Kinds
  /\ nextCall \in 0 .. Len(calls) /\ Len(calls) <= 2 * MaxCalls
  /\ allowed \subseteq {ran[i] : i \in DOMAIN ran} \cup {calls[i] : i \in DOMAIN calls}
  /\ {streamed, declined, ended} \subseteq BOOLEAN

\* The step limit, a context that is full even so, or a request.
Fit ==
  /\ runPc = "fit"
  /\ \/ runPc' = "returned" /\ UNCHANGED <<sent, tries, streamed, calls, nextCall>>
     \/ /\ steps < MaxSteps /\ sent' \in Fitted(convo)
        /\ runPc' = "send" /\ tries' = 0
        /\ streamed' = FALSE /\ calls' = <<>> /\ nextCall' = 0
  /\ UNCHANGED <<convo, steps, ran, allowed, declined, ended>>

ChatFails == runPc' = "returned" /\ steps' = steps + 1

\* Retry: what is worth another try is sent again until the policy runs out or
\* the context ends; an unresolved slot and a refusal are answers.
Send ==
  /\ runPc = "send" /\ tries < MaxAttempts
  /\ tries' = tries + 1
  /\ \/ runPc' = "stream" /\ ~ended /\ UNCHANGED steps
     \/ tries' < MaxAttempts /\ ~ended /\ UNCHANGED <<runPc, steps>>
     \/ ChatFails
  /\ UNCHANGED <<convo, sent, streamed, calls, nextCall, ran, allowed, declined, ended>>

\* A frame with text, or with a tool call.
Frame ==
  /\ runPc = "stream" /\ streamed' = TRUE
  /\ \/ UNCHANGED calls
     \/ /\ Len(calls) < MaxCalls
        /\ \E k \in Kinds : calls' = Append(calls, AgentCall(steps, Len(calls) + 1, k))
  /\ UNCHANGED <<runPc, convo, sent, steps, tries, nextCall, ran, allowed, declined, ended>>

\* The driver has the whole answer; Run adds the assistant turn.
Answered(cs) ==
  /\ convo' = Append(convo, Turn(cs)) /\ calls' = cs
  /\ steps' = steps + 1
  /\ runPc' = IF cs = <<>> THEN "returned" ELSE "call"

\* message_stop, a finish reason or [DONE], done: only then is it an answer.
Finish ==
  /\ runPc = "stream" /\ Answered(calls)
  /\ UNCHANGED <<sent, tries, streamed, nextCall, ran, allowed, declined, ended>>

\* The body ends before the answer did.  openai.whole: a server that ignores
\* stream:true has sent one object, read only when nothing was streamed.
EndOfBody_ReadsTwice ==
  /\ runPc = "stream"
  /\ \/ ChatFails /\ UNCHANGED <<convo, calls>>
     \/ Answered(calls \o calls)
  /\ UNCHANGED <<sent, tries, streamed, nextCall, ran, allowed, declined, ended>>
EndOfBody ==
  /\ runPc = "stream"
  /\ \/ ChatFails /\ UNCHANGED <<convo, calls>>
     \/ ~streamed /\ \E k \in Kinds : Answered(<<AgentCall(steps, 1, k)>>)
  /\ UNCHANGED <<sent, tries, streamed, nextCall, ran, allowed, declined, ended>>

\* An error event, a read error, or an error of onChunk: what was read is lost.
Breaks ==
  /\ runPc = "stream" /\ ChatFails
  /\ UNCHANGED <<convo, sent, tries, streamed, calls, nextCall, ran, allowed, declined, ended>>
-----------------------------------------------------------------------------
(* runTool, one call after the other *)

Current == calls[nextCall + 1]
AfterCall == IF nextCall + 1 = Len(calls) THEN "fit" ELSE "call"

Result(what) ==
  /\ convo' = Append(convo, Answer(Current, what))
  /\ nextCall' = nextCall + 1
  /\ runPc' = AfterCall

\* invoke: refused by the loop, or asked about, or run.
Invoke ==
  /\ runPc = "call"
  /\ \/ Current.kind = "bad" /\ Result("refused")
     \/ Current.kind = "destructive" /\ declined /\ Result("refused")
     \/ /\ Current.kind = "destructive" /\ ~declined
        /\ runPc' = "confirm" /\ UNCHANGED <<convo, nextCall>>
     \/ Current.kind = "plain" /\ runPc' = "tool" /\ UNCHANGED <<convo, nextCall>>
  /\ UNCHANGED <<sent, steps, tries, streamed, calls, ran, allowed, declined, ended>>

\* opt.Confirm: yes, no, or an error that stops the run; no Confirm is a no
\* for every call.
Confirm ==
  /\ runPc = "confirm"
  /\ \/ runPc' = "tool" /\ allowed' = allowed \cup {Current} /\ UNCHANGED <<convo, nextCall, declined>>
     \/ Result("refused") /\ declined' = TRUE /\ UNCHANGED allowed
     \/ runPc' = "stop" /\ UNCHANGED <<convo, nextCall, allowed, declined>>
  /\ UNCHANGED <<sent, steps, tries, streamed, calls, ran, ended>>

\* The tool runs.  When the context has ended meanwhile, what it returned is
\* still recorded, unless that is nothing; then the run stops.
Tool ==
  /\ runPc = "tool"
  /\ ran' = Append(ran, Current)
  /\ \/ ~ended /\ \E what \in {"output", "failed"} : Result(what)
     \/ /\ ended /\ runPc' = "stop"
        /\ \/ convo' = Append(convo, Answer(Current, "output")) /\ nextCall' = nextCall + 1
           \/ UNCHANGED <<convo, nextCall>>
  /\ UNCHANGED <<sent, steps, tries, streamed, calls, allowed, declined, ended>>

\* Every call that is left gets a result that says the run stopped.
Stop ==
  /\ runPc = "stop" /\ runPc' = "returned"
  /\ nextCall' = Len(calls)
  /\ convo' = convo \o [n \in 1 .. Len(calls) - nextCall |->
                          Answer(calls[nextCall + n], "stopped")]
  /\ UNCHANGED <<sent, steps, tries, streamed, calls, ran, allowed, declined, ended>>

ContextEnds ==
  /\ runPc # "returned" /\ ~ended /\ ended' = TRUE
  /\ UNCHANGED <<runPc, convo, sent, steps, tries, streamed, calls, nextCall, ran, allowed, declined>>

AgentNext ==
  \/ Fit \/ Send \/ Frame \/ Finish \/ EndOfBody \/ Breaks
  \/ Invoke \/ Confirm \/ Tool \/ Stop \/ ContextEnds

AgentSpec == AgentInit /\ [][AgentNext]_agentVars
-----------------------------------------------------------------------------
\* Whatever was cut short, declined or dropped, the conversation that Run
\* returns and every request it sends are ones a server accepts: calls and
\* results go together, and it opens with a user turn (agent.go:122-124,
\* budget.go: "an API refuses either shape").
ConversationIsWhole ==
  /\ runPc = "returned" => Whole(convo)
  /\ runPc = "send" => Whole(sent) /\ OpensWithUser(sent) /\ LastIndex(sent, "user") > 0

\* A tool runs at most once per call, only for a call in an answer that the
\* server finished; one that changes data only when the user was asked about
\* that call and said yes, and never after a no.
ToolsRunOnce ==
  /\ IsInjective(ran)
  /\ \A i \in DOMAIN ran :
       /\ \E j \in DOMAIN convo : Contains(convo[j].calls, ran[i])
       /\ ran[i].kind = "destructive" => ran[i] \in allowed
  /\ declined => runPc # "confirm"
===============================================================================

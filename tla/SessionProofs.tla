---------------------------- MODULE SessionProofs ----------------------------
(***************************************************************************)
(* Theorems about Session, for any calls and ids: every call of the page   *)
(* that waits is one that the dispatcher will answer, a cancel reaches the *)
(* call it was meant for, and the dispatcher behind a page keeps the       *)
(* contract of CallContract without an assumption about ids.               *)
(*                                                                         *)
(* The argument: SInv follows a call through its three places, the channel *)
(* up, the dispatcher and the channel down.  The page numbers its calls,   *)
(* so two of them never share an id: what IdsUnique assumes of a caller in *)
(* DispatcherProofs is an invariant here, and each step of a session is a  *)
(* step of the dispatcher or leaves it alone.  The one hypothesis that is  *)
(* left is that no handler leaves a sender behind.  The last two theorems  *)
(* say what avoids a foreign frame and a nil return that ends in an error. *)
(***************************************************************************)
EXTENDS Session, DispatcherProofs

Ops == {"open", "data", "cancel"}
Posts == [op : Ops, call : Calls]
Replies == [by : Calls, state : Frames \union {"notice"}]

\* The page numbers its calls, so those it holds have ids of their own; only they
\* reach the dispatcher, one that waits behind an id has not settled, and one that
\* the read loop is about to cancel was withdrawn.
PageFits ==
  /\ ~closing
  /\ \A c \in here : IdOf[c] <= seq
  /\ \A c, d \in here : IdOf[c] = IdOf[d] => c = d
  /\ \A c \in Calls : pc[c] # "new" => c \in here
  /\ \A i \in Ids : consumer[i] # None =>
       /\ consumer[i] \in here /\ consumer[i] \in Requests
       /\ IdOf[consumer[i]] = i
       /\ settled[consumer[i]] = "none"
  /\ toCancel = None \/ (toCancel \in Calls /\ settled[toCancel] = "withdrawn")

\* What is on its way to the dispatcher: one open frame of each call that has not
\* arrived, and cancels of calls that were withdrawn.
UpFits ==
  /\ \A k \in 1..Len(up) :
       /\ up[k].call \in here
       /\ up[k].op = "open" => pc[up[k].call] = "new"
       /\ up[k].op = "cancel" => settled[up[k].call] = "withdrawn"
  /\ \A k, l \in 1..Len(up) :
       up[k].op = "open" /\ up[l].op = "open" /\ up[k].call = up[l].call => k = l
  /\ \A c \in here : pc[c] = "new" => Posted("open", c)

\* What is on its way back belongs to calls of the page.
DownFits == \A k \in 1..Len(down) : down[k].by \in here

SInv ==
  /\ IInv /\ SessionTypeOK
  /\ PageFits /\ UpFits /\ DownFits
  /\ WaitingIsServed /\ CancelHitsOwnCall

-----------------------------------------------------------------------------
(* The channels.                                                           *)

\* What is posted goes behind what is on the way.
LEMMA AppendParts ==
  ASSUME NEW S, NEW s \in Seq(S), NEW x \in S
  PROVE  /\ Append(s, x) \in Seq(S) /\ Len(s) \in Nat /\ Len(Append(s, x)) = Len(s) + 1
         /\ Append(s, x)[Len(s) + 1] = x
         /\ \A k \in 1..Len(s) : Append(s, x)[k] = s[k]
         /\ Append(s, x) # s
  OBVIOUS

\* What is taken is the oldest, and the others move up.
LEMMA TailParts ==
  ASSUME NEW S, NEW s \in Seq(S), s # <<>>
  PROVE  /\ Tail(s) \in Seq(S) /\ Len(s) \in Nat \ {0} /\ Len(Tail(s)) = Len(s) - 1
         /\ Head(s) = s[1] /\ s[1] \in S
         /\ \A k \in 1..Len(Tail(s)) : k + 1 \in 1..Len(s) /\ Tail(s)[k] = s[k + 1]
         /\ \A k \in 1..Len(s) : k = 1 \/ (k - 1 \in 1..Len(Tail(s)) /\ Tail(s)[k - 1] = s[k])
  OBVIOUS

LEMMA PostParts ==
  ASSUME up \in Seq(Posts), NEW op \in Ops, NEW c \in Calls, Post(op, c)
  PROVE  /\ up' \in Seq(Posts)
         /\ Posted(op, c)'
         /\ \A o \in Ops, d \in Calls : Posted(o, d) => Posted(o, d)'
         /\ \A k \in 1..Len(up') : \/ k \in 1..Len(up) /\ up'[k] = up[k]
                                   \/ k = Len(up) + 1 /\ up'[k] = [op |-> op, call |-> c]
  <1>1. [op |-> op, call |-> c] \in Posts
    BY DEF Posts
  <1>2. /\ up' \in Seq(Posts) /\ Len(up) \in Nat /\ Len(up') = Len(up) + 1
        /\ up'[Len(up) + 1] = [op |-> op, call |-> c]
        /\ \A k \in 1..Len(up) : up'[k] = up[k]
    BY <1>1, AppendParts DEF Post
  <1>3. Posted(op, c)'
    BY <1>2 DEF Posted
  <1>4. \A o \in Ops, d \in Calls : Posted(o, d) => Posted(o, d)'
    BY <1>2 DEF Posted
  <1> QED
    BY <1>2, <1>3, <1>4

\* The frame a step sends, if it sends one, goes behind those on the way back.
LEMMA RelayParts ==
  ASSUME down \in Seq(Replies), wire \in [Calls -> Seq(Frames)], NEW c \in Calls,
         wire' = wire \/ \E f \in Frames : Put(c, f), Relay(c)
  PROVE  /\ down' \in Seq(Replies)
         /\ \A d \in Calls, t \in Frames \union {"notice"} : Sent(d, t) => Sent(d, t)'
         /\ \A k \in 1..Len(down') : (k \in 1..Len(down) /\ down'[k] = down[k]) \/ down'[k].by = c
         /\ \A f \in Frames : Put(c, f) => Sent(c, f)'
  <1>1. CASE wire' = wire
    <2>1. down' = down
      BY <1>1 DEF Relay
    <2>2. \A f \in Frames : ~Put(c, f)
      BY <1>1, AppendParts DEF Put
    <2> QED
      BY <2>1, <2>2 DEF Sent
  <1>2. ASSUME NEW f \in Frames, Put(c, f)
        PROVE  /\ down' \in Seq(Replies)
               /\ \A d \in Calls, t \in Frames \union {"notice"} : Sent(d, t) => Sent(d, t)'
               /\ \A k \in 1..Len(down') : (k \in 1..Len(down) /\ down'[k] = down[k]) \/ down'[k].by = c
               /\ \A g \in Frames : Put(c, g) => Sent(c, g)'
    <2>1. wire'[c] = Append(wire[c], f) /\ wire[c] \in Seq(Frames)
      BY <1>2 DEF Put
    <2>2. wire'[c] # wire[c] /\ wire'[c][Len(wire'[c])] = f
      BY <2>1, AppendParts
    <2>3. down' = Append(down, [by |-> c, state |-> f]) /\ [by |-> c, state |-> f] \in Replies
      BY <2>2 DEF Relay, Replies
    <2>4. /\ down' \in Seq(Replies) /\ Len(down) \in Nat /\ Len(down') = Len(down) + 1
          /\ down'[Len(down) + 1] = [by |-> c, state |-> f]
          /\ \A k \in 1..Len(down) : down'[k] = down[k]
      BY <2>3, AppendParts
    <2>5. \A d \in Calls, t \in Frames \union {"notice"} : Sent(d, t) => Sent(d, t)'
      BY <2>4 DEF Sent
    <2>6. \A k \in 1..Len(down') : (k \in 1..Len(down) /\ down'[k] = down[k]) \/ down'[k].by = c
      BY <2>4
    <2>7. Sent(c, f)'
      BY <2>4 DEF Sent
    <2>8. ASSUME NEW g \in Frames, Put(c, g) PROVE g = f
      <3>1. wire'[c] = Append(wire[c], g)
        BY <2>8 DEF Put
      <3>2. Append(wire[c], f)[Len(wire[c]) + 1] = f
        BY <2>1, AppendParts
      <3>3. Append(wire[c], g)[Len(wire[c]) + 1] = g
        BY <2>1, AppendParts
      <3> QED
        BY <2>1, <3>1, <3>2, <3>3
    <2> QED
      BY <2>4, <2>5, <2>6, <2>7, <2>8
  <1> QED
    BY <1>1, <1>2

-----------------------------------------------------------------------------
(* The steps of the dispatcher that a session takes, as the page sees them. *)

LEMMA Arrivals == PageFits => Unshared
  BY DEF PageFits, Unshared

\* The read loop takes on a call.
LEMMA OpenStep ==
  ASSUME IInv, Unshared, Unshared', ~closing, NEW c \in Calls, ReadLoop(c)
  PROVE  /\ pc[c] = "new" /\ pc'[c] # "new"
         /\ UNCHANGED <<closing, ctxDone, toCancel>>
         /\ c \notin ctxDone \union {toCancel}
         /\ wire' = wire \/ \E f \in Frames : Put(c, f)
         /\ c \in Requests => Phase(c)' = "live" \/ Put(c, "error")
         /\ \A d \in Calls \ {c} : pc'[d] = pc[d] /\ Phase(d)' = Phase(d)
  <1> USE CallsAssumption
      DEF IInv, TypeOK, StagesFit, TablesFit, InHandler, Unshared, GoTo, Admits, Rpcs, Commands,
          Requests, Frames, Phase, AnswerDue, closeVars, entries, tables, finishVars
  <1>1. CASE RejectUnknown(c)
    BY <1>1 DEF RejectUnknown
  <1>2. CASE RefuseClosing(c)
    BY <1>2 DEF RefuseClosing
  <1>3. CASE OpenRPC(c)
    BY <1>3 DEF OpenRPC
  <1>4. CASE DispatchCommand(c)
    BY <1>4 DEF DispatchCommand
  <1>5. CASE DispatchEvent(c)
    BY <1>5 DEF DispatchEvent
  <1> QED
    BY <1>1, <1>2, <1>3, <1>4, <1>5 DEF ReadLoop

\* The goroutine of a call moves that call only.  It does not cancel a handler that
\* is at work, and it ends a call that owes an answer by sending it.
GoroutineEffect(c) ==
  /\ pc[c] # "new" /\ pc'[c] # "new"
  /\ UNCHANGED <<closing, toCancel>>
  /\ wire' = wire \/ \E f \in Frames : Put(c, f)
  /\ Phase(c) = "live" => Phase(c)' = "live" \/ \E f \in {"done", "error"} : Put(c, f)
  /\ \A d \in Calls \ {c} : pc'[d] = pc[d] /\ Phase(d)' = Phase(d)
  /\ \A d \in Rpcs \union Commands :
       d \in ctxDone' /\ pc'[d] \in {"waiting", "running"} =>
         d \in ctxDone /\ pc[d] \in {"waiting", "running"}

LEMMA GoroutineStep ==
  ASSUME IInv, Unshared, Leaky = {}, NEW c \in Calls, Goroutine(c)
  PROVE  GoroutineEffect(c)
  <1> USE CallsAssumption
      DEF IInv, TypeOK, StagesFit, TablesFit, LocalsFit, SendersFit, InHandler, GoTo, MaySend,
          StreamSlotFree, Canceled, DropEntry, WgDone, DropLocals, FindsCall, Found, Answers,
          Rpcs, Commands, Requests, SharedSlot, Frames, Phase, AnswerDue, GoroutineEffect,
          closeVars, entries, tables, finishVars, slots
  <1>1. CASE AcquireSlot(c)
    BY <1>1 DEF AcquireSlot
  <1>2. CASE GiveUpWaiting(c)
    BY <1>2 DEF GiveUpWaiting
  <1>3. CASE AbandonCommand(c)
    BY <1>3 DEF AbandonCommand
  <1>4. CASE RejectOverload(c)
    BY <1>4 DEF RejectOverload
  <1>5. CASE BeginSend(c)
    BY <1>5 DEF BeginSend
  <1>6. CASE EndSend(c)
    BY <1>6 DEF EndSend
  <1>7. CASE HandlerReturn(c)
    BY <1>7 DEF HandlerReturn
  <1>8. CASE FinishClaim(c)
    <2>1. \A d \in Calls \ {c} : pc[d] # "new" => IdOf[d] # IdOf[c]
      BY <1>8 DEF FinishClaim, Unshared
    <2>2. pending[IdOf[c]] \in {c, None} /\ calls[IdOf[c]] \in {c, None}
      BY <1>8, OwnEntry DEF FinishClaim
    <2> QED
      BY <1>8, <2>1, <2>2 DEF FinishClaim
  <1>9. CASE FinishFence(c)
    BY <1>9 DEF FinishFence
  <1>10. CASE FinishEmit(c)
    BY <1>10 DEF FinishEmit, Terminal
  <1>11. CASE CommandReply(c)
    BY <1>11 DEF CommandReply, Terminal
  <1>12. CASE ExitRPC(c)
    <2>1. pc[c] \in {"answered", "fenced"} /\ pc'[c] = "exited" /\ c \in Rpcs
      BY <1>12 DEF ExitRPC
    <2>2. pc[c] = "fenced" => c \notin live /\ calls[IdOf[c]] # c /\ c \notin Commands
      BY <1>12, NoEntry DEF ExitRPC
    <2>3. UNCHANGED <<closing, calls, ctxDone, toCancel, wire>>
      BY <1>12 DEF ExitRPC
    <2>4. Phase(c) # "live"
      BY <2>1, <2>2
    <2>5. \A d \in Calls \ {c} : pc'[d] = pc[d] /\ Phase(d)' = Phase(d)
      BY <1>12, <2>3 DEF ExitRPC, DropLocals
    <2> QED
      BY <2>1, <2>3, <2>4, <2>5
  <1>13. CASE ExitCommand(c)
    BY <1>13 DEF ExitCommand
  <1>14. CASE ExitEvent(c)
    BY <1>14 DEF ExitEvent
  <1> QED
    BY <1>1, <1>2, <1>3, <1>4, <1>5, <1>6, <1>7, <1>8, <1>9, <1>10, <1>11, <1>12, <1>13, <1>14
    DEF Goroutine, Leave, Finish, Exit

\* A cancel frame reaches the call it was sent for, and no other.
LEMMA CancelStep ==
  ASSUME IInv, Unshared, NEW c \in Calls, ServeCancel(c),
         \A d \in Calls \ {c} : pc[d] # "new" => IdOf[d] # IdOf[c]
  PROVE  /\ UNCHANGED <<closing, pc, ctxDone, wire, down>>
         /\ toCancel' \in {toCancel, c, None}
         /\ \A d \in Calls \ {c} : Phase(d)' = Phase(d)
  <1> DEFINE i == IdOf[c]
  <1>1. pending[i] \in {c, None} /\ calls[i] \in {c, None}
    <2>1. i \in Ids
      BY CallsAssumption
    <2>2. ASSUME NEW d \in Calls, IdOf[d] = i, pc[d] # "new" PROVE d = c
      BY <2>2
    <2>3. pending[i] \in Calls \union {None} /\ calls[i] \in Calls \union {None}
      BY <2>1 DEF IInv, TypeOK
    <2>4. /\ pending[i] # None => IdOf[pending[i]] = i /\ pc[pending[i]] # "new"
          /\ calls[i] # None => IdOf[calls[i]] = i /\ pc[calls[i]] # "new"
      BY <2>1 DEF IInv, TablesFit, InHandler
    <2> HIDE DEF i
    <2> QED
      BY <2>2, <2>3, <2>4
  <1>2. UNCHANGED <<closing, pc, ctxDone, wire, down, live>>
    BY DEF ServeCancel, CancelRPC, Cancel, vars, closeVars, finishVars
  <1>3. toCancel' \in {toCancel, c, None}
    BY <1>1 DEF ServeCancel, CancelRPC, Cancel, vars, entries
  <1>4. \A j \in Ids \ {i} : calls'[j] = calls[j]
    BY CallsAssumption DEF IInv, TypeOK, ServeCancel, CancelRPC, Cancel, vars, entries, tables
  <1>5. ASSUME NEW d \in Calls \ {c} PROVE Phase(d)' = Phase(d)
    <2>1. CASE pc[d] = "new"
      BY <1>2, <2>1 DEF Phase
    <2>2. CASE pc[d] # "new"
      <3>1. IdOf[d] \in Ids \ {i}
        BY <2>2, CallsAssumption
      <3>2. calls'[IdOf[d]] = calls[IdOf[d]] /\ pc'[d] = pc[d] /\ (d \in live' <=> d \in live)
        BY <1>2, <1>4, <3>1
      <3> QED
        BY <1>2, <3>2 DEF Phase, AnswerDue
    <2> QED
      BY <2>1, <2>2
  <1> QED
    BY <1>2, <1>3, <1>5

-----------------------------------------------------------------------------
(* The steps of a session keep the invariant.                              *)

\* A step of the page leaves the dispatcher's view of every call alone.
LEMMA PageStep ==
  ASSUME UNCHANGED vars
  PROVE  /\ UNCHANGED <<closing, pc, ctxDone, toCancel, wire>>
         /\ \A d \in Calls : Phase(d)' = Phase(d)
  BY DEF vars, closeVars, entries, tables, finishVars, Phase, AnswerDue

\* What the dispatcher keeps of its own accord while the page numbers its calls.
LEMMA StepKeeps ==
  ASSUME SInv, Leaky = {}, PageFits', [Next]_vars
  PROVE  IInv'
  <1>1. Unshared
    BY Arrivals DEF SInv
  <1>2. Unshared'
    BY DEF PageFits, Unshared
  <1> QED
    BY <1>1, <1>2, StepIInv DEF SInv

\* A frame the page posts fits what is on the way already.
LEMMA PostFits ==
  ASSUME up \in Seq(Posts), here \subseteq Calls, UpFits, NEW op \in Ops, NEW c \in Calls, Post(op, c),
         pc' = pc, here' = here \union {c},
         \A d \in here : settled[d] = "withdrawn" => settled'[d] = "withdrawn",
         op = "cancel" => settled'[c] = "withdrawn",
         IF op = "open" THEN c \notin here /\ pc[c] = "new" ELSE c \in here
  PROVE  UpFits'
  <1>1. /\ Posted(op, c)'
        /\ \A o \in Ops, d \in Calls : Posted(o, d) => Posted(o, d)'
        /\ \A k \in 1..Len(up') : \/ k \in 1..Len(up) /\ up'[k] = up[k]
                                  \/ k = Len(up) + 1 /\ up'[k] = [op |-> op, call |-> c]
    BY PostParts
  <1>2. ASSUME NEW k \in 1..Len(up')
        PROVE  /\ up'[k].call \in here'
               /\ up'[k].op = "open" => pc'[up'[k].call] = "new"
               /\ up'[k].op = "cancel" => settled'[up'[k].call] = "withdrawn"
    <2>1. CASE k \in 1..Len(up) /\ up'[k] = up[k]
      BY <2>1 DEF UpFits
    <2>2. CASE up'[k] = [op |-> op, call |-> c]
      BY <2>2
    <2> QED
      BY <1>1, <2>1, <2>2
  <1>3. ASSUME NEW k \in 1..Len(up'), NEW l \in 1..Len(up'),
               up'[k].op = "open", up'[l].op = "open", up'[k].call = up'[l].call
        PROVE  k = l
    <2>1. \A m \in 1..Len(up) : up[m].call \in here
      BY DEF UpFits
    <2>2. CASE op # "open" \/ (k \in 1..Len(up) /\ l \in 1..Len(up))
      BY <1>1, <1>3, <2>2 DEF UpFits
    <2>3. CASE op = "open" /\ (k \notin 1..Len(up) \/ l \notin 1..Len(up))
      BY <1>1, <1>3, <2>1, <2>3
    <2> QED
      BY <2>2, <2>3
  <1>4. \A d \in here' : pc'[d] = "new" => Posted("open", d)'
    <2>1. \A d \in here : pc'[d] = "new" => Posted("open", d)
      BY DEF UpFits
    <2>2. op = "open" => Posted("open", c)'
      BY <1>1 DEF Posted
    <2>3. \A d \in here : Posted("open", d) => Posted("open", d)'
      BY <1>1 DEF Ops
    <2> QED
      BY <2>1, <2>2, <2>3
  <1> QED
    BY <1>2, <1>3, <1>4 DEF UpFits

\* A call that the page waits for goes on being served when nothing that served it
\* goes away.
Served(c) ==
  \/ Posted("open", c)
  \/ Phase(c) = "live"
  \/ \E state \in {"done", "error", "notice"} : Sent(c, state)

LEMMA StaysServed ==
  ASSUME consumer' \in [Ids -> Calls \union {None}], WaitingIsServed,
         \A i \in Ids : \A d \in Calls : consumer'[i] = d =>
           Served(d)' \/ (consumer[i] = d /\ (Served(d) => Served(d)'))
  PROVE  WaitingIsServed'
  <1>1. ASSUME NEW i \in Ids, NEW d \in Calls, consumer'[i] = d PROVE Served(d)'
    BY <1>1, CallsAssumption DEF WaitingIsServed, Served
  <1> QED
    BY ZenonT(40), <1>1 DEF WaitingIsServed, Served, Posted, Sent, Phase, AnswerDue

LEMMA IssueKeeps ==
  ASSUME SInv, Leaky = {}, NEW c \in Calls, Issue(c)
  PROVE  SInv'
  <1> USE CallsAssumption, SessionAssumption DEF SInv, SessionTypeOK, PageFits
  <1>1. /\ UNCHANGED <<closing, pc, ctxDone, toCancel, wire>>
        /\ \A d \in Calls : Phase(d)' = Phase(d)
    BY PageStep DEF Issue
  <1>2. /\ pc[c] = "new" /\ c \notin here /\ settled[c] = "none"
        /\ IdOf[c] = seq + 1 /\ seq' = seq + 1 /\ here' = here \union {c}
        /\ UNCHANGED <<settled, fed, down>>
    BY DEF Issue, NextSeq
  <1>3. \A i \in Ids : \/ consumer'[i] = consumer[i]
                       \/ i = IdOf[c] /\ consumer'[i] = c /\ c \in Requests
    BY DEF Issue
  <1>4. consumer' \in [Ids -> Calls \union {None}]
    BY DEF Issue
  <1>5. /\ up' \in Seq(Posts)
        /\ Posted("open", c)'
        /\ \A o \in Ops, d \in Calls : Posted(o, d) => Posted(o, d)'
        /\ \A k \in 1..Len(up') : \/ k \in 1..Len(up) /\ up'[k] = up[k]
                                  \/ k = Len(up) + 1 /\ up'[k] = [op |-> "open", call |-> c]
    BY PostParts DEF Issue, Posts, Ops
  <1>6. SessionTypeOK'
    BY <1>2, <1>4, <1>5 DEF Posts, Ops
  <1>7. PageFits'
    <2>1. ~closing' /\ \A d \in here' : IdOf[d] <= seq'
      <3>1. seq \in Nat /\ \A d \in here : IdOf[d] \in Nat /\ IdOf[d] <= seq
        OBVIOUS
      <3> QED
        BY <1>1, <1>2, <3>1
    <2>2. \A d, e \in here' : IdOf[d] = IdOf[e] => d = e
      BY <1>2
    <2>3. \A d \in Calls : pc'[d] # "new" => d \in here'
      BY <1>1, <1>2
    <2>4. \A i \in Ids : consumer'[i] # None =>
            /\ consumer'[i] \in here' /\ consumer'[i] \in Requests
            /\ IdOf[consumer'[i]] = i
            /\ settled'[consumer'[i]] = "none"
      BY <1>2, <1>3
    <2>5. UNCHANGED <<toCancel, settled>>
      BY <1>1, <1>2
    <2> QED
      BY <2>1, <2>2, <2>3, <2>4, <2>5
  <1>8. IInv'
    BY <1>7, StepKeeps DEF Issue
  <1>9. UpFits'
    BY <1>1, <1>2, PostFits DEF Issue, Posts, Ops
  <1>10. DownFits'
    BY <1>2 DEF DownFits
  <1>11. WaitingIsServed'
    <2>1. \A d \in Calls : Served(d) => Served(d)'
      BY <1>1, <1>2, <1>5 DEF Served, Sent, Ops
    <2>2. Served(c)'
      BY <1>5 DEF Served
    <2> QED
      BY <1>3, <1>4, <2>1, <2>2, StaysServed
  <1>12. CancelHitsOwnCall'
    BY <1>1, <1>2 DEF CancelHitsOwnCall, Rpcs, Commands
  <1> QED
    BY <1>6, <1>7, <1>8, <1>9, <1>10, <1>11, <1>12

LEMMA FeedKeeps ==
  ASSUME SInv, Leaky = {}, NEW c \in Calls, Feed(c)
  PROVE  SInv'
  <1> USE CallsAssumption, SessionAssumption DEF SInv, SessionTypeOK, PageFits
  <1>1. /\ UNCHANGED <<closing, pc, ctxDone, toCancel, wire>>
        /\ \A d \in Calls : Phase(d)' = Phase(d)
    BY PageStep DEF Feed
  <1>2. c \in here /\ fed' = fed + 1 /\ UNCHANGED <<seq, consumer, here, settled, down>>
    BY DEF Feed
  <1>3. /\ up' \in Seq(Posts)
        /\ \A o \in Ops, d \in Calls : Posted(o, d) => Posted(o, d)'
        /\ \A k \in 1..Len(up') : \/ k \in 1..Len(up) /\ up'[k] = up[k]
                                  \/ k = Len(up) + 1 /\ up'[k] = [op |-> "data", call |-> c]
    BY PostParts DEF Feed, Posts, Ops
  <1>4. SessionTypeOK'
    BY <1>2, <1>3 DEF Posts, Ops
  <1>5. PageFits'
    BY <1>1, <1>2 DEF Requests
  <1>6. IInv'
    BY <1>5, StepKeeps DEF Feed
  <1>7. UpFits'
    BY SMTT(40), <1>1, <1>2, PostFits DEF Feed, Posts, Ops
  <1>8. DownFits' /\ CancelHitsOwnCall'
    BY <1>1, <1>2 DEF DownFits, CancelHitsOwnCall, Rpcs, Commands
  <1>9. WaitingIsServed'
    <2>1. \A d \in Calls : Served(d) => Served(d)'
      BY <1>1, <1>2, <1>3 DEF Served, Sent, Ops
    <2> QED
      BY <1>2, <2>1, StaysServed
  <1> QED
    BY <1>4, <1>5, <1>6, <1>7, <1>8, <1>9

LEMMA WithdrawalKeeps ==
  ASSUME SInv, Leaky = {}, NEW c \in Calls, Withdrawal(c)
  PROVE  SInv'
  <1> USE CallsAssumption, SessionAssumption DEF SInv, SessionTypeOK, PageFits
  <1>1. /\ UNCHANGED <<closing, pc, ctxDone, toCancel, wire>>
        /\ \A d \in Calls : Phase(d)' = Phase(d)
    BY PageStep DEF Withdrawal
  <1>2. c \in here /\ UNCHANGED <<seq, here, fed, down>>
    BY DEF Withdrawal
  <1>3. /\ settled' \in [Calls -> Outcomes] /\ settled'[c] = "withdrawn"
        /\ \A d \in Calls \ {c} : settled'[d] = settled[d]
    BY DEF Withdrawal, Settle, Outcomes
  <1>4. /\ consumer' \in [Ids -> Calls \union {None}]
        /\ \A i \in Ids : consumer'[i] # None => consumer'[i] = consumer[i] /\ consumer[i] # c
    BY DEF Withdrawal, Forget
  <1>5. /\ up' \in Seq(Posts)
        /\ \A o \in Ops, d \in Calls : Posted(o, d) => Posted(o, d)'
        /\ \A k \in 1..Len(up') : \/ k \in 1..Len(up) /\ up'[k] = up[k]
                                  \/ k = Len(up) + 1 /\ up'[k] = [op |-> "cancel", call |-> c]
    BY PostParts DEF Withdrawal, Posts, Ops
  <1>6. SessionTypeOK'
    BY <1>2, <1>3, <1>4, <1>5 DEF Posts, Ops
  <1>7. PageFits'
    BY <1>1, <1>2, <1>3, <1>4 DEF Requests
  <1>8. IInv'
    BY <1>7, StepKeeps DEF Withdrawal
  <1>9. UpFits'
    <2>1. here' = here \union {c} /\ pc' = pc
      BY <1>1, <1>2
    <2>2. \A d \in here : settled[d] = "withdrawn" => settled'[d] = "withdrawn"
      BY <1>3
    <2> QED
      BY <1>2, <1>3, <2>1, <2>2, PostFits DEF Withdrawal, Posts, Ops
  <1>10. DownFits' /\ CancelHitsOwnCall'
    BY <1>1, <1>2, <1>3 DEF DownFits, CancelHitsOwnCall, Rpcs, Commands
  <1>11. WaitingIsServed'
    <2>1. \A d \in Calls : Served(d) => Served(d)'
      BY <1>1, <1>2, <1>5 DEF Served, Sent, Ops
    <2> QED
      BY <1>4, <2>1, StaysServed
  <1> QED
    BY <1>6, <1>7, <1>8, <1>9, <1>10, <1>11

\* What reaches the page ends the call it was sent for, or nothing.
LEMMA DeliverKeeps ==
  ASSUME SInv, Leaky = {}, Deliver
  PROVE  SInv'
  <1> USE CallsAssumption, SessionAssumption DEF SInv, SessionTypeOK, PageFits
  <1> DEFINE b == down[1].by
             c == consumer[IdOf[b]]
             ended == Ends(down[1], c)
  <1>1. /\ UNCHANGED <<closing, pc, ctxDone, toCancel, wire>>
        /\ \A d \in Calls : Phase(d)' = Phase(d)
    BY PageStep DEF Deliver
  <1>2. /\ down' \in Seq(Replies) /\ down[1] \in Replies
        /\ \A k \in 1..Len(down') : k + 1 \in 1..Len(down) /\ down'[k] = down[k + 1]
        /\ \A k \in 1..Len(down) :
             k = 1 \/ (k - 1 \in 1..Len(down') /\ down'[k - 1] = down[k])
        /\ Head(down) = down[1] /\ 1 \in 1..Len(down)
    <2>1. down \in Seq(Replies) /\ down # <<>> /\ down' = Tail(down)
      BY DEF Deliver, Replies
    <2> QED
      BY <2>1, TailParts
  <1>3. b \in here /\ IdOf[b] \in Ids
    BY <1>2 DEF DownFits
  <1>4. c = None \/ c = b
    BY <1>3
  <1>5. \/ /\ ended
           /\ settled' = [settled EXCEPT ![c] = IF b = c THEN down[1].state ELSE "foreign"]
           /\ consumer' = [consumer EXCEPT ![IdOf[b]] = None]
        \/ ~ended /\ UNCHANGED <<consumer, settled>>
    BY <1>2 DEF Deliver, Settle, Forget
  <1>6. UNCHANGED <<seq, here, fed, up>>
    BY DEF Deliver
  <1>7. ended => c = b
    BY <1>4 DEF Ends
  <1>8. /\ settled' \in [Calls -> Outcomes]
        /\ \A d \in Calls : settled'[d] = settled[d] \/ (ended /\ d = b /\ settled[d] = "none")
    <2>1. ended => c \in here /\ settled[c] = "none"
      BY <1>3, <1>7 DEF Ends
    <2>2. down[1].state \in Outcomes \/ down[1].state = "msg"
      BY <1>2 DEF Replies, Frames, Outcomes
    <2>3. ended => down[1].state # "msg"
      BY <1>3, <1>7 DEF Ends
    <2> HIDE DEF ended, c
    <2> QED
      BY <1>5, <1>7, <2>1, <2>2, <2>3
  <1>9. /\ consumer' \in [Ids -> Calls \union {None}]
        /\ \A i \in Ids : consumer'[i] # None => consumer'[i] = consumer[i] /\ ~(ended /\ consumer[i] = b)
    BY <1>3, <1>5
  <1>10. SessionTypeOK'
    BY <1>2, <1>6, <1>8, <1>9 DEF Replies
  <1>11. PageFits'
    BY <1>1, <1>6, <1>8, <1>9 DEF Requests
  <1>12. IInv'
    BY <1>11, StepKeeps DEF Deliver
  <1>13. UpFits'
    BY <1>1, <1>6, <1>8 DEF UpFits, Posted
  <1>14. DownFits'
    BY <1>2, <1>6 DEF DownFits
  <1>15. CancelHitsOwnCall'
    BY <1>1, <1>8 DEF CancelHitsOwnCall, Rpcs, Commands
  <1>16. WaitingIsServed'
    <2>1. ASSUME NEW i \in Ids, NEW d \in Calls, consumer'[i] = d,
                 NEW state \in {"done", "error", "notice"}, Sent(d, state)
          PROVE  Sent(d, state)'
      <3>1. PICK k \in 1..Len(down) : down[k] = [by |-> d, state |-> state]
        BY <2>1 DEF Sent
      <3>2. consumer[i] = d /\ ~(ended /\ d = b) /\ IdOf[d] = i
        BY <1>9, <2>1
      <3>3. k # 1
        <4>1. ASSUME k = 1 PROVE FALSE
          <5>1. b = d /\ down[1].state = state /\ c = d
            BY <3>1, <3>2, <4>1
          <5>2. ended
            BY <5>1 DEF Ends
          <5> QED
            BY <3>2, <5>1, <5>2
        <4> QED
          BY <4>1
      <3>4. k - 1 \in 1..Len(down') /\ down'[k - 1] = [by |-> d, state |-> state]
        BY <1>2, <3>1, <3>3
      <3> QED
        BY <3>4 DEF Sent
    <2>2. \A d \in Calls : Posted("open", d)' = Posted("open", d)
      BY <1>6 DEF Posted
    <2>3. \A i \in Ids : \A d \in Calls :
            consumer'[i] = d => consumer[i] = d /\ (Served(d) => Served(d)')
      BY <1>1, <1>9, <2>1, <2>2 DEF Served
    <2> QED
      BY <1>9, <2>3, StaysServed
  <1> QED
    BY <1>10, <1>11, <1>12, <1>13, <1>14, <1>15, <1>16

\* The dispatcher takes the oldest frame.
LEMMA TakesOldest ==
  ASSUME up \in Seq(Posts), UpFits, Serve
  PROVE  /\ up' \in Seq(Posts) /\ Head(up) = up[1] /\ up[1] \in Posts /\ 1 \in 1..Len(up)
         /\ \A k \in 1..Len(up') : k + 1 \in 1..Len(up) /\ k + 1 # 1 /\ up'[k] = up[k + 1]
         /\ \A d \in Calls : Posted("open", d) =>
              Posted("open", d)' \/ (up[1].op = "open" /\ up[1].call = d)
  <1>1. /\ up' \in Seq(Posts) /\ Head(up) = up[1] /\ up[1] \in Posts /\ 1 \in 1..Len(up)
        /\ \A k \in 1..Len(up') : k + 1 \in 1..Len(up) /\ k + 1 # 1 /\ up'[k] = up[k + 1]
        /\ \A k \in 1..Len(up) : k = 1 \/ (k - 1 \in 1..Len(up') /\ up'[k - 1] = up[k])
    BY TailParts DEF Serve
  <1>2. ASSUME NEW d \in Calls, Posted("open", d), ~(up[1].op = "open" /\ up[1].call = d)
        PROVE  Posted("open", d)'
    <2>1. PICK k \in 1..Len(up) : up[k] = [op |-> "open", call |-> d]
      BY <1>2 DEF Posted
    <2>2. k - 1 \in 1..Len(up') /\ up'[k - 1] = [op |-> "open", call |-> d]
      BY <1>1, <1>2, <2>1
    <2> QED
      BY <2>2 DEF Posted
  <1> QED
    BY <1>1, <1>2

\* What the dispatcher has not taken yet stays fit, when only the call whose open
\* frame it took gets under way.
LEMMA TakeFits ==
  ASSUME up \in Seq(Posts), here \subseteq Calls, UpFits, Serve, UNCHANGED <<here, settled>>,
         \A d \in here : IF up[1].op = "open" /\ up[1].call = d THEN pc'[d] # "new"
                         ELSE pc'[d] = pc[d]
  PROVE  UpFits'
  <1>1. /\ 1 \in 1..Len(up)
        /\ \A k \in 1..Len(up') : k + 1 \in 1..Len(up) /\ k + 1 # 1 /\ up'[k] = up[k + 1]
        /\ \A d \in Calls : Posted("open", d) =>
              Posted("open", d)' \/ (up[1].op = "open" /\ up[1].call = d)
    BY TakesOldest
  <1>2. ASSUME NEW k \in 1..Len(up')
        PROVE  /\ up'[k].call \in here'
               /\ up'[k].op = "open" => pc'[up'[k].call] = "new"
               /\ up'[k].op = "cancel" => settled'[up'[k].call] = "withdrawn"
    <2>1. up'[k].call \in here /\ (up'[k].op = "cancel" => settled[up'[k].call] = "withdrawn")
      BY <1>1 DEF UpFits
    <2>2. ASSUME up'[k].op = "open" PROVE pc'[up'[k].call] = "new"
      <3>1. pc[up[k + 1].call] = "new"
        BY <1>1, <2>2 DEF UpFits
      <3>2. ~(up[1].op = "open" /\ up[1].call = up[k + 1].call)
        BY <1>1, <2>2 DEF UpFits
      <3> QED
        BY <1>1, <2>1, <3>1, <3>2
    <2> QED
      BY <2>1, <2>2
  <1>3. \A k, l \in 1..Len(up') :
          up'[k].op = "open" /\ up'[l].op = "open" /\ up'[k].call = up'[l].call => k = l
    <2> SUFFICES ASSUME NEW k \in 1..Len(up'), NEW l \in 1..Len(up'),
                        up'[k].op = "open", up'[l].op = "open", up'[k].call = up'[l].call
                 PROVE  k = l
      OBVIOUS
    <2>1. k + 1 = l + 1
      BY <1>1 DEF UpFits
    <2> QED
      BY <2>1
  <1>4. \A d \in here' : pc'[d] = "new" => Posted("open", d)'
    BY <1>1 DEF UpFits
  <1> QED
    BY <1>2, <1>3, <1>4 DEF UpFits

LEMMA ServeOpenKeeps ==
  ASSUME SInv, Leaky = {}, NEW c \in Calls, Serve, up[1] = [op |-> "open", call |-> c],
         ReadLoop(c), Relay(c)
  PROVE  SInv'
  <1> USE CallsAssumption, SessionAssumption DEF SInv, SessionTypeOK, PageFits
  <1>1. /\ UNCHANGED <<seq, consumer, here, settled, fed>>
        /\ up \in Seq(Posts) /\ down \in Seq(Replies) /\ wire \in [Calls -> Seq(Frames)]
    BY DEF Serve, pageVars, Posts, Ops, Replies, IInv, TypeOK
  <1>2. /\ up' \in Seq(Posts)
        /\ \A d \in Calls : Posted("open", d) => Posted("open", d)' \/ d = c
    BY <1>1, TakesOldest
  <1>3. c \in here
    <2>1. 1 \in 1..Len(up)
      BY <1>1, TakesOldest
    <2> QED
      BY <2>1 DEF UpFits
  <1>4. Unshared
    BY Arrivals
  <1>5. pc' = [pc EXCEPT ![c] = pc'[c]] /\ closing' = closing
    <2>1. PICK stage : pc' = [pc EXCEPT ![c] = stage]
      BY DEF ReadLoop, RejectUnknown, RefuseClosing, OpenRPC, DispatchCommand, DispatchEvent, GoTo
    <2>2. closing' = closing
      BY DEF ReadLoop, RejectUnknown, RefuseClosing, OpenRPC, DispatchCommand, DispatchEvent,
             closeVars
    <2> QED
      BY <2>1, <2>2 DEF IInv, TypeOK
  <1>6. Unshared'
    <2>1. \A d \in Calls : pc'[d] # "new" => d \in here
      BY <1>3, <1>5 DEF IInv, TypeOK
    <2> QED
      BY <2>1 DEF Unshared
  <1>7. /\ pc[c] = "new" /\ pc'[c] # "new"
        /\ UNCHANGED <<closing, ctxDone, toCancel>>
        /\ c \notin ctxDone \union {toCancel}
        /\ wire' = wire \/ \E f \in Frames : Put(c, f)
        /\ c \in Requests => Phase(c)' = "live" \/ Put(c, "error")
        /\ \A d \in Calls \ {c} : pc'[d] = pc[d] /\ Phase(d)' = Phase(d)
    BY <1>4, <1>6, OpenStep
  <1>8. /\ down' \in Seq(Replies)
        /\ \A d \in Calls, t \in Frames \union {"notice"} : Sent(d, t) => Sent(d, t)'
        /\ \A k \in 1..Len(down') : (k \in 1..Len(down) /\ down'[k] = down[k]) \/ down'[k].by = c
        /\ Put(c, "error") => Sent(c, "error")'
    BY <1>1, <1>7, RelayParts DEF Frames
  <1>9. SessionTypeOK'
    BY <1>1, <1>2, <1>8 DEF Posts, Ops, Replies
  <1>10. PageFits'
    BY <1>1, <1>3, <1>7 DEF Requests
  <1>11. IInv'
    BY <1>10, StepKeeps DEF Next
  <1>12. UpFits'
    BY <1>1, <1>7, TakeFits
  <1>13. DownFits'
    BY <1>1, <1>3, <1>8 DEF DownFits
  <1>14. WaitingIsServed'
    <2>1. \A d \in Calls \ {c} : Served(d) => Served(d)'
      BY <1>2, <1>7, <1>8 DEF Served, Frames
    <2>2. c \in Requests => Served(c)'
      BY <1>7, <1>8 DEF Served
    <2>3. \A i \in Ids : \A d \in Calls : consumer'[i] = d =>
            Served(d)' \/ (consumer[i] = d /\ (Served(d) => Served(d)'))
      BY <1>1, <2>1, <2>2
    <2>4. consumer' \in [Ids -> Calls \union {None}]
      BY <1>1
    <2> QED
      BY <2>3, <2>4, StaysServed
  <1>15. CancelHitsOwnCall'
    <2>1. \A d \in Calls : d \in ctxDone' \union {toCancel'} =>
            d \in ctxDone \union {toCancel} /\ pc'[d] = pc[d]
      BY <1>7
    <2> QED
      BY <1>1, <2>1 DEF CancelHitsOwnCall, Rpcs, Commands
  <1> QED
    BY <1>9, <1>10, <1>11, <1>12, <1>13, <1>14, <1>15

LEMMA ServeDataKeeps ==
  ASSUME SInv, Leaky = {}, NEW c \in Calls, Serve, up[1] = [op |-> "data", call |-> c],
         ServeData(c)
  PROVE  SInv'
  <1> USE CallsAssumption, SessionAssumption DEF SInv, SessionTypeOK, PageFits
  <1>1. /\ UNCHANGED <<seq, consumer, here, settled, fed>>
        /\ up \in Seq(Posts) /\ down \in Seq(Replies)
    BY DEF Serve, pageVars, Posts, Ops, Replies
  <1>2. /\ up' \in Seq(Posts)
        /\ \A d \in Calls : Posted("open", d) => Posted("open", d)'
    BY <1>1, TakesOldest
  <1>3. c \in here
    <2>1. 1 \in 1..Len(up)
      BY <1>1, TakesOldest
    <2> QED
      BY Z3T(40), <2>1 DEF UpFits
  <1>4. /\ UNCHANGED <<closing, pc, ctxDone, toCancel, wire>>
        /\ \A d \in Calls : Phase(d)' = Phase(d)
    BY PageStep DEF ServeData
  <1>5. /\ down' \in Seq(Replies)
        /\ \A d \in Calls, t \in Frames \union {"notice"} : Sent(d, t) => Sent(d, t)'
        /\ \A k \in 1..Len(down') : (k \in 1..Len(down) /\ down'[k] = down[k]) \/ down'[k].by = c
    <2>1. CASE down' = down
      BY <1>1, <2>1 DEF Sent
    <2>2. CASE down' = Append(down, [by |-> c, state |-> "notice"])
      <3>1. [by |-> c, state |-> "notice"] \in Replies
        BY DEF Replies
      <3>2. /\ down' \in Seq(Replies) /\ Len(down) \in Nat /\ Len(down') = Len(down) + 1
            /\ down'[Len(down) + 1] = [by |-> c, state |-> "notice"]
            /\ \A k \in 1..Len(down) : down'[k] = down[k]
        BY <1>1, <2>2, <3>1, AppendParts
      <3>3. ASSUME NEW d \in Calls, NEW t \in Frames \union {"notice"}, Sent(d, t)
            PROVE  Sent(d, t)'
        <4>1. PICK k \in 1..Len(down) : down[k] = [by |-> d, state |-> t]
          BY <3>3 DEF Sent
        <4>2. k \in 1..Len(down') /\ down'[k] = [by |-> d, state |-> t]
          BY <3>2, <4>1
        <4> QED
          BY <4>2 DEF Sent
      <3>4. ASSUME NEW k \in 1..Len(down')
            PROVE  (k \in 1..Len(down) /\ down'[k] = down[k]) \/ down'[k].by = c
        <4>1. k \in 1..Len(down) \/ k = Len(down) + 1
          BY <3>2
        <4> QED
          BY <3>2, <4>1
      <3> QED
        BY <3>2, <3>3, <3>4
    <2> QED
      BY <2>1, <2>2 DEF ServeData
  <1>6. SessionTypeOK'
    BY <1>1, <1>2, <1>5 DEF Posts, Ops, Replies
  <1>7. PageFits'
    BY <1>1, <1>4 DEF Requests
  <1>8. IInv'
    BY <1>7, StepKeeps DEF ServeData
  <1>9. UpFits'
    BY <1>1, <1>4, TakeFits
  <1>10. DownFits'
    BY <1>1, <1>3, <1>5 DEF DownFits
  <1>12. CancelHitsOwnCall'
    BY <1>1, <1>4 DEF CancelHitsOwnCall, Rpcs, Commands
  <1>11. WaitingIsServed'
    <2>1. \A d \in Calls : Served(d) => Served(d)'
      BY <1>2, <1>4, <1>5 DEF Served, Frames
    <2> QED
      BY <1>1, <2>1, StaysServed
  <1> QED
    BY <1>6, <1>7, <1>8, <1>9, <1>10, <1>11, <1>12

LEMMA ServeCancelKeeps ==
  ASSUME SInv, Leaky = {}, NEW c \in Calls, Serve, up[1] = [op |-> "cancel", call |-> c],
         ServeCancel(c)
  PROVE  SInv'
  <1> USE CallsAssumption, SessionAssumption DEF SInv, SessionTypeOK, PageFits
  <1>1. /\ UNCHANGED <<seq, consumer, here, settled, fed>>
        /\ up \in Seq(Posts) /\ down \in Seq(Replies)
    BY DEF Serve, pageVars, Posts, Ops, Replies
  <1>2. /\ up' \in Seq(Posts)
        /\ \A d \in Calls : Posted("open", d) => Posted("open", d)'
    BY <1>1, TakesOldest
  <1>3. c \in here /\ settled[c] = "withdrawn"
    BY <1>1, TakesOldest DEF UpFits
  <1>4. /\ UNCHANGED <<closing, pc, ctxDone, wire, down>>
        /\ toCancel' \in {toCancel, c, None}
        /\ \A d \in Calls \ {c} : Phase(d)' = Phase(d)
    BY <1>3, Arrivals, CancelStep
  <1>5. SessionTypeOK'
    BY <1>1, <1>2, <1>4 DEF Posts, Ops
  <1>6. PageFits'
    <2>1. toCancel' = None \/ (toCancel' \in Calls /\ settled'[toCancel'] = "withdrawn")
      BY <1>1, <1>3, <1>4
    <2> QED
      BY <1>1, <1>4, <2>1
  <1>7. IInv'
    <2>1. [Next]_vars
      BY DEF Serve, ServeCancel, Next, Withdraw
    <2> QED
      BY <1>6, <2>1, StepKeeps
  <1>8. UpFits'
    BY <1>1, <1>4, TakeFits
  <1>9. DownFits'
    BY <1>1, <1>4 DEF DownFits
  <1>10. CancelHitsOwnCall'
    BY <1>1, <1>3, <1>4 DEF CancelHitsOwnCall, Rpcs, Commands
  <1>11. WaitingIsServed'
    <2>1. \A d \in Calls \ {c} : Served(d) => Served(d)'
      BY <1>2, <1>4 DEF Served, Sent
    <2>2. \A i \in Ids : consumer[i] # c
      BY <1>3
    <2> QED
      BY <1>1, <2>1, <2>2, StaysServed
  <1> QED
    BY <1>5, <1>6, <1>7, <1>8, <1>9, <1>10, <1>11

\* A context is canceled under the handler of the call that was withdrawn.
LEMMA ServeCallCancelKeeps ==
  ASSUME SInv, Leaky = {}, ServeCallCancel
  PROVE  SInv'
  <1> USE CallsAssumption DEF SInv, SessionTypeOK, PageFits
  <1>1. /\ UNCHANGED <<seq, consumer, here, settled, fed, up, down>>
        /\ UNCHANGED <<closing, calls, pc, live, wire>>
        /\ toCancel \in Calls /\ ctxDone' = ctxDone \union {toCancel} /\ toCancel' = None
    BY DEF ServeCallCancel, CallCancel, pageVars, closeVars, tables, finishVars, IInv, TypeOK
  <1>2. SessionTypeOK' /\ PageFits'
    BY <1>1 DEF Requests
  <1>3. IInv'
    BY <1>2, StepKeeps DEF ServeCallCancel, Next
  <1>4. UpFits' /\ DownFits'
    BY <1>1 DEF UpFits, Posted, DownFits
  <1>5. CancelHitsOwnCall'
    BY <1>1 DEF CancelHitsOwnCall, Rpcs, Commands
  <1>6. WaitingIsServed'
    <2>1. ASSUME NEW d \in Calls, Served(d), d \notin Commands \/ d # toCancel
          PROVE  Served(d)'
      <3>1. Phase(d) = "live" => Phase(d)' = "live"
        BY <1>1, <2>1 DEF Phase, AnswerDue
      <3>2. (Posted("open", d)' = Posted("open", d)) /\ \A t \in {"done", "error", "notice"} : Sent(d, t)' = Sent(d, t)
        BY <1>1 DEF Posted, Sent
      <3> QED
        BY <2>1, <3>1, <3>2 DEF Served
    <2>2. \A i \in Ids : consumer[i] # None => settled[consumer[i]] = "none"
      OBVIOUS
    <2>3. settled[toCancel] = "withdrawn"
      BY <1>1
    <2> QED
      BY <1>1, <2>1, <2>2, <2>3, StaysServed
  <1> QED
    BY <1>2, <1>3, <1>4, <1>5, <1>6

\* The read loop's turn, whichever frame is the oldest.
LEMMA ServeKeeps ==
  ASSUME SInv, Leaky = {}, Serve
  PROVE  SInv'
  <1>1. Head(up) = up[1] /\ up[1] \in Posts
    BY TakesOldest DEF SInv, SessionTypeOK, Posts, Ops
  <1>2. PICK c \in Calls, op \in Ops : up[1] = [op |-> op, call |-> c]
    BY <1>1 DEF Posts
  <1>3. \/ op = "open" /\ ReadLoop(c) /\ Relay(c)
        \/ op = "data" /\ ServeData(c)
        \/ op = "cancel" /\ ServeCancel(c)
    BY <1>1, <1>2 DEF Serve
  <1> QED
    BY <1>2, <1>3, ServeOpenKeeps, ServeDataKeeps, ServeCancelKeeps

LEMMA GoroutineKeeps ==
  ASSUME SInv, Leaky = {}, NEW c \in Calls, Serving(Goroutine(c), c)
  PROVE  SInv'
  <1> USE CallsAssumption, SessionAssumption DEF SInv, SessionTypeOK, PageFits
  <1>1. /\ UNCHANGED <<seq, consumer, here, settled, fed, up>>
        /\ up \in Seq(Posts) /\ down \in Seq(Replies) /\ wire \in [Calls -> Seq(Frames)]
    BY DEF Serving, pageVars, Posts, Ops, Replies, IInv, TypeOK
  <1>2. GoroutineEffect(c)
    BY Arrivals, GoroutineStep DEF Serving
  <1>3. /\ down' \in Seq(Replies)
        /\ \A d \in Calls, t \in Frames \union {"notice"} : Sent(d, t) => Sent(d, t)'
        /\ \A k \in 1..Len(down') : (k \in 1..Len(down) /\ down'[k] = down[k]) \/ down'[k].by = c
        /\ \A f \in Frames : Put(c, f) => Sent(c, f)'
    BY <1>1, <1>2, RelayParts DEF Serving, GoroutineEffect
  <1>4. c \in here
    BY <1>2 DEF GoroutineEffect
  <1>5. SessionTypeOK'
    BY <1>1, <1>3 DEF Posts, Ops, Replies
  <1>6. PageFits'
    BY ZenonT(40), <1>1, <1>2 DEF Requests, GoroutineEffect
  <1>7. IInv'
    BY <1>6, StepKeeps DEF Next, Serving
  <1>8. UpFits'
    <2>1. \A d \in Calls : pc'[d] = "new" <=> pc[d] = "new"
      BY <1>2 DEF GoroutineEffect
    <2> QED
      BY ZenonT(90), <1>1, <2>1 DEF UpFits, Posted, Posts
  <1>9. DownFits'
    BY <1>1, <1>3, <1>4 DEF DownFits
  <1>10. CancelHitsOwnCall'
    <2> SUFFICES ASSUME NEW d \in Rpcs \union Commands, d \in ctxDone' \union {toCancel'},
                        pc'[d] \in {"waiting", "running"}
                 PROVE  settled[d] = "withdrawn"
      BY <1>1 DEF CancelHitsOwnCall, Rpcs, Commands
    <2>1. CASE d = toCancel
      BY <2>1, CallsAssumption DEF Rpcs, Commands
    <2>2. CASE d # toCancel
      BY <1>2, <2>2 DEF CancelHitsOwnCall, GoroutineEffect
    <2> QED
      BY <2>1, <2>2
  <1>11. WaitingIsServed'
    <2>1. \A d \in Calls : Posted("open", d)' = Posted("open", d)
      BY <1>1 DEF Posted
    <2>2. \A d \in Calls \ {c} : Served(d) => Served(d)'
      BY <1>2, <1>3, <2>1 DEF Served, GoroutineEffect, Frames
    <2>3. Served(c) => Served(c)'
      BY <1>2, <1>3, <2>1 DEF Served, GoroutineEffect, Frames
    <2> QED
      BY <1>1, <2>2, <2>3, StaysServed
  <1> QED
    BY <1>5, <1>6, <1>7, <1>8, <1>9, <1>10, <1>11

-----------------------------------------------------------------------------
LEMMA InitSInv == SessionInit => SInv
  <1> SUFFICES ASSUME SessionInit PROVE SInv
    OBVIOUS
  <1> USE CallsAssumption, SessionAssumption DEF SessionInit
  <1>1. IInv
    BY InitIInv
  <1>2. SessionTypeOK
    <2>1. up \in Seq([op : {"open", "data", "cancel"}, call : Calls])
      OBVIOUS
    <2>2. down \in Seq([by : Calls, state : Frames \union {"notice"}])
      OBVIOUS
    <2> QED
      BY <2>1, <2>2 DEF SessionTypeOK, Outcomes
  <1>3. PageFits
    BY DEF PageFits, Init
  <1>4. UpFits /\ DownFits
    BY DEF UpFits, DownFits
  <1>5. WaitingIsServed /\ CancelHitsOwnCall
    BY DEF WaitingIsServed, CancelHitsOwnCall, Init, Rpcs, Commands
  <1> QED
    BY <1>1, <1>2, <1>3, <1>4, <1>5 DEF SInv

LEMMA StepSInv ==
  ASSUME SInv, Leaky = {}, [SessionNext]_sessionVars
  PROVE  SInv'
  <1>1. CASE UNCHANGED sessionVars
    <2>1. UNCHANGED <<seq, consumer, here, settled, fed, up, down>> /\ UNCHANGED vars
      BY <1>1 DEF sessionVars, pageVars
    <2>2. /\ UNCHANGED <<closing, pc, ctxDone, toCancel, wire>>
          /\ \A d \in Calls : Phase(d)' = Phase(d)
      BY <2>1, PageStep
    <2>3. PageFits'
      BY <2>1, <2>2 DEF SInv, PageFits, Requests
    <2>4. IInv'
      BY <2>1, <2>3, StepKeeps
    <2>5. SessionTypeOK' /\ UpFits' /\ DownFits' /\ CancelHitsOwnCall'
      BY <2>1, <2>2
      DEF SInv, SessionTypeOK, UpFits, Posted, DownFits, CancelHitsOwnCall, Rpcs, Commands
    <2>6. \A d \in Calls : Served(d) => Served(d)'
      BY <2>1, <2>2 DEF Served, Sent, Posted
    <2>7. WaitingIsServed'
      BY <2>1, <2>6, StaysServed DEF SInv, SessionTypeOK
    <2> QED
      BY <2>3, <2>4, <2>5, <2>7 DEF SInv
  <1> QED
    BY <1>1, IssueKeeps, FeedKeeps, WithdrawalKeeps, GoroutineKeeps, DeliverKeeps, ServeKeeps,
       ServeCallCancelKeeps
    DEF SessionNext

LEMMA SessionInvariant ==
  ASSUME Leaky = {}
  PROVE  SessionSpec => []SInv
  <1>1. SInv /\ [SessionNext]_sessionVars => SInv'
    BY StepSInv
  <1> QED
    BY InitSInv, <1>1, PTL DEF SessionSpec

\* What the page keeps, and what the channels carry, keeps to its range.
THEOREM SessionTyped ==
  ASSUME Leaky = {}
  PROVE  SessionSpec => []SessionTypeOK
  <1>1. SInv => SessionTypeOK
    BY DEF SInv
  <1> QED
    BY SessionInvariant, <1>1, PTL

\* No promise or stream of the page waits for an answer that nobody owes it any
\* more (scorix.js: pending, streams; native.go: openRPC, finishRPC, cancelRPC).
THEOREM WaitersAreAnswered ==
  ASSUME Leaky = {}
  PROVE  SessionSpec => []WaitingIsServed
  <1>1. SInv => WaitingIsServed
    BY DEF SInv
  <1> QED
    BY SessionInvariant, <1>1, PTL

\* A cancel that crossed the end of its call never cancels another one's handler.
THEOREM CancelsReachTheirOwn ==
  ASSUME Leaky = {}
  PROVE  SessionSpec => []CancelHitsOwnCall
  <1>1. SInv => CancelHitsOwnCall
    BY DEF SInv
  <1> QED
    BY SessionInvariant, <1>1, PTL

\* Behind its page the dispatcher does what Dispatcher says it does.
LEMMA DispatcherStep ==
  ASSUME SInv, [SessionNext]_sessionVars
  PROVE  [Next]_vars
  <1>1. ASSUME Serve PROVE [Next]_vars
    <2>1. Head(up) = up[1] /\ up[1] \in Posts
      BY <1>1, TakesOldest DEF SInv, SessionTypeOK, Posts, Ops
    <2>2. PICK c \in Calls : ReadLoop(c) \/ ServeData(c) \/ ServeCancel(c)
      BY <1>1, <2>1 DEF Serve, Posts
    <2> QED
      BY <1>1, <2>2, CallsAssumption DEF Serve, ServeData, ServeCancel, Next, Withdraw
  <1> QED
    BY <1>1
    DEF SessionNext, sessionVars, Issue, Feed, Withdrawal, Deliver, Serving, ServeCallCancel, Next

\* Behind a page that numbers its calls, and with no other assumption on their ids,
\* the dispatcher keeps its contract with each of them: messages, then at most one
\* terminal frame, and silence once a cancel came in time.
THEOREM SessionKeepsContract ==
  ASSUME Leaky = {}
  PROVE  SessionSpec => KeepsContract
  <1>1. ASSUME SInv, SInv', [SessionNext]_sessionVars PROVE [Contract!Next]_cvars
    <2>1. Unshared /\ Unshared'
      BY <1>1 DEF SInv, PageFits, Unshared
    <2> QED
      BY <1>1, <2>1, DispatcherStep, StepContract DEF SInv
  <1>2. SessionInit => Contract!Init
    BY InitContract DEF SessionInit
  <1> QED
    BY SessionInvariant, <1>1, <1>2, PTL DEF SessionSpec, KeepsContract, Contract!Spec, cvars

\* The session implements the dispatcher that Dispatcher specifies alone.
THEOREM SessionRefinesDispatcher ==
  ASSUME Leaky = {}
  PROVE  SessionSpec => Spec
  <1>1. SessionInit => Init
    BY DEF SessionInit
  <1>2. SInv /\ [SessionNext]_sessionVars => [Next]_vars
    BY DispatcherStep
  <1> QED
    BY SessionInvariant, <1>1, <1>2, PTL DEF SessionSpec, Spec

-----------------------------------------------------------------------------
(* Why two promises of the comments fail: the first is kept by a page that *)
(* is never reloaded, the second by data that does not come late.          *)

\* What a frame settles is the call that it is of.
LEMMA DeliverSettles ==
  ASSUME SInv, Deliver
  PROVE  /\ 1 \in 1..Len(down) /\ down[1] \in Replies
         /\ \A k \in 1..Len(down') : k + 1 \in 1..Len(down) /\ down'[k] = down[k + 1]
         /\ \/ UNCHANGED settled
            \/ /\ settled' = [settled EXCEPT ![down[1].by] = down[1].state]
               /\ down[1].by \in Rpcs => down[1].state # "msg"
  <1> USE CallsAssumption, SessionAssumption DEF SInv, SessionTypeOK, PageFits
  <1> DEFINE b == down[1].by
             c == consumer[IdOf[b]]
  <1>1. /\ Head(down) = down[1] /\ 1 \in 1..Len(down) /\ down[1] \in Replies
        /\ \A k \in 1..Len(down') : k + 1 \in 1..Len(down) /\ down'[k] = down[k + 1]
    <2>1. down \in Seq(Replies) /\ down # <<>> /\ down' = Tail(down)
      BY DEF Deliver, Replies
    <2> QED
      BY <2>1, TailParts
  <1>2. b \in here /\ IdOf[b] \in Ids
    BY <1>1 DEF DownFits
  <1>3. c = None \/ c = b
    BY <1>2
  <1>4. \/ /\ Ends(down[1], c)
           /\ settled' = [settled EXCEPT ![c] = IF b = c THEN down[1].state ELSE "foreign"]
        \/ UNCHANGED settled
    BY <1>1 DEF Deliver, Settle
  <1>5. Ends(down[1], c) => c = b /\ (b \in Rpcs => down[1].state # "msg")
    BY <1>3 DEF Ends
  <1> QED
    BY <1>1, <1>4, <1>5

\* scorix.js on frames of unknown or closed calls, "drop (never resolve a foreign
\* frame)": kept for as long as the dispatcher serves one page load, however calls
\* end, are withdrawn and cross.
THEOREM NeverForeignOnOnePage ==
  ASSUME Leaky = {}
  PROVE  SessionSpec => []NeverForeign
  <1>1. SessionInit => NeverForeign
    BY DEF SessionInit, NeverForeign
  <1>2. ASSUME SInv, NeverForeign, [SessionNext]_sessionVars PROVE NeverForeign'
    <2>1. CASE Deliver
      <3>1. down[1].state # "foreign" /\ down[1].by \in Calls
        BY <1>2, <2>1, DeliverSettles DEF Replies, Frames
      <3> QED
        BY <1>2, <2>1, <3>1, DeliverSettles DEF SInv, SessionTypeOK, NeverForeign
    <2>2. ASSUME NEW c \in Calls, Withdrawal(c) PROVE NeverForeign'
      BY <1>2, <2>2 DEF Withdrawal, Settle, SInv, SessionTypeOK, NeverForeign
    <2>3. CASE UNCHANGED settled
      BY <1>2, <2>3 DEF NeverForeign
    <2> QED
      BY <1>2, <2>1, <2>2, <2>3
      DEF SessionNext, sessionVars, pageVars, Issue, Feed, Serve, ServeCallCancel, Serving
  <1> QED
    BY SessionInvariant, <1>1, <1>2, PTL DEF SessionSpec

\* The next frame is data for a stream whose entry is gone.
LateData == up # <<>> /\ Head(up).op = "data" /\ FeedFindsNothing(IdOf[Head(up).call])

\* Data that arrives finds its stream.
NoLateData == [][Serve => ~LateData]_sessionVars

\* A call has not answered an error.
Unfailing(c) == \A k \in 1..Len(wire[c]) : wire[c][k] # "error"

\* Until it does, no error is on its way to the page, and the page has seen none.
NoErrorYet ==
  /\ \A k \in 1..Len(down) : down[k].state # "notice"
  /\ \A c \in Rpcs : Unfailing(c) =>
       /\ ~Sent(c, "error")
       /\ settled[c] \in {"none", "done", "withdrawn", "gone"}

\* A call that is unfailing after a frame was sent was so before, and did not send
\* an error.
LEMMA StaysUnfailing ==
  ASSUME wire \in [Calls -> Seq(Frames)], NEW c \in Calls, NEW f \in Frames,
         wire' = wire \/ Put(c, f), NEW d \in Calls, Unfailing(d)'
  PROVE  Unfailing(d) /\ (d = c => f # "error" \/ wire' = wire)
  <1>1. CASE wire' = wire
    BY <1>1 DEF Unfailing
  <1>2. CASE Put(c, f) /\ d # c
    <2>1. wire'[d] = wire[d]
      BY <1>2 DEF Put
    <2> QED
      BY <1>2, <2>1 DEF Unfailing
  <1>3. CASE Put(c, f) /\ d = c
    <2>1. wire'[c] = Append(wire[c], f) /\ wire[c] \in Seq(Frames)
      BY <1>3 DEF Put
    <2>2. /\ Len(wire[c]) \in Nat /\ Len(wire'[c]) = Len(wire[c]) + 1
          /\ wire'[c][Len(wire[c]) + 1] = f
          /\ \A k \in 1..Len(wire[c]) : wire'[c][k] = wire[c][k]
      BY <2>1, AppendParts
    <2> QED
      BY <1>3, <2>2 DEF Unfailing
  <1> QED
    BY <1>1, <1>2, <1>3

\* What the goroutine of a call puts on the way to the page is no notice.
LEMMA RelayKinds ==
  ASSUME down \in Seq(Replies), wire \in [Calls -> Seq(Frames)], NEW c \in Calls, Relay(c),
         wire' = wire \/ \E f \in Frames : Put(c, f),
         \A k \in 1..Len(down) : down[k].state # "notice"
  PROVE  \A k \in 1..Len(down') : down'[k].state # "notice"
  <1>1. CASE wire' = wire
    BY <1>1 DEF Relay
  <1>2. ASSUME NEW f \in Frames, Put(c, f)
        PROVE  \A k \in 1..Len(down') : down'[k].state # "notice"
    <2>1. wire'[c] = Append(wire[c], f) /\ wire[c] \in Seq(Frames)
      BY <1>2 DEF Put
    <2>2. wire'[c] # wire[c] /\ wire'[c][Len(wire'[c])] = f
      BY <2>1, AppendParts
    <2>3. down' = Append(down, [by |-> c, state |-> f]) /\ [by |-> c, state |-> f] \in Replies
      BY <2>2 DEF Relay, Replies
    <2>4. /\ Len(down) \in Nat /\ Len(down') = Len(down) + 1
          /\ down'[Len(down) + 1] = [by |-> c, state |-> f]
          /\ \A k \in 1..Len(down) : down'[k] = down[k]
      BY <2>3, AppendParts
    <2> QED
      BY SMTT(40), <2>4 DEF Frames
  <1> QED
    BY <1>1, <1>2

\* And an error only if it is one.
LEMMA RelayNoError ==
  ASSUME down \in Seq(Replies), wire \in [Calls -> Seq(Frames)], NEW c \in Calls, Relay(c),
         NEW f \in Frames, wire' = wire \/ Put(c, f), NEW d \in Calls, ~Sent(d, "error"),
         d = c => f # "error" \/ wire' = wire
  PROVE  ~Sent(d, "error")'
  <1>1. CASE wire' = wire
    <2>1. down' = down
      BY <1>1 DEF Relay
    <2> QED
      BY <2>1 DEF Sent
  <1>2. CASE Put(c, f)
    <2>1. wire'[c] = Append(wire[c], f) /\ wire[c] \in Seq(Frames)
      BY <1>2 DEF Put
    <2>2. wire'[c] # wire[c] /\ wire'[c][Len(wire'[c])] = f
      BY <2>1, AppendParts
    <2>3. down' = Append(down, [by |-> c, state |-> f]) /\ [by |-> c, state |-> f] \in Replies
      BY <2>2 DEF Relay, Replies
    <2>4. /\ Len(down) \in Nat /\ Len(down') = Len(down) + 1
          /\ down'[Len(down) + 1] = [by |-> c, state |-> f]
          /\ \A k \in 1..Len(down) : down'[k] = down[k]
      BY <2>3, AppendParts
    <2>5. d = c => f # "error"
      BY <2>2
    <2>6. \A k \in 1..Len(down') : k \in 1..Len(down) \/ k = Len(down) + 1
      BY <2>4
    <2>7. ASSUME NEW k \in 1..Len(down')
          PROVE  down'[k] # [by |-> d, state |-> "error"]
      <3>1. CASE k \in 1..Len(down)
        BY <2>4, <3>1 DEF Sent
      <3>2. CASE k = Len(down) + 1
        BY <2>4, <2>5, <3>2 DEF Frames
      <3> QED
        BY <2>6, <3>1, <3>2
    <2> QED
      BY <2>7 DEF Sent
  <1> QED
    BY <1>1, <1>2

LEMMA NoErrorKeeps ==
  ASSUME SInv, Leaky = {}, NoErrorYet, [SessionNext]_sessionVars, Serve => ~LateData
  PROVE  NoErrorYet'
  <1>0. /\ down \in Seq(Replies) /\ up \in Seq(Posts) /\ wire \in [Calls -> Seq(Frames)]
        /\ settled \in [Calls -> Outcomes] /\ IInv /\ Unshared
    BY Arrivals DEF SInv, SessionTypeOK, Replies, Posts, Ops, IInv, TypeOK
  <1> DEFINE Good(c) == settled[c] \in {"none", "done", "withdrawn", "gone"}
  <1>1. ASSUME UNCHANGED <<wire, down>>,
               \A c \in Rpcs : Good(c) => Good(c)'
        PROVE  NoErrorYet'
    BY <1>1 DEF NoErrorYet, Unfailing, Sent
  <1>2. ASSUME NEW c \in Calls, Issue(c) \/ Feed(c) PROVE NoErrorYet'
    BY <1>1, <1>2 DEF Issue, Feed, vars
  <1>3. ASSUME NEW c \in Calls, Withdrawal(c) PROVE NoErrorYet'
    <2>1. UNCHANGED <<wire, down>> /\ settled' = [settled EXCEPT ![c] = "withdrawn"]
      BY <1>3 DEF Withdrawal, Settle, vars
    <2>2. \A d \in Rpcs : settled'[d] = settled[d] \/ settled'[d] = "withdrawn"
      BY <1>0, <2>1 DEF Rpcs
    <2> QED
      BY <1>1, <2>1, <2>2
  <1>4. CASE Deliver
    <2>1. /\ 1 \in 1..Len(down) /\ down[1] \in Replies
          /\ \A k \in 1..Len(down') : k + 1 \in 1..Len(down) /\ down'[k] = down[k + 1]
          /\ \/ UNCHANGED settled
             \/ /\ settled' = [settled EXCEPT ![down[1].by] = down[1].state]
                /\ down[1].by \in Rpcs => down[1].state # "msg"
      BY <1>4, DeliverSettles
    <2>2. UNCHANGED wire
      BY <1>4 DEF Deliver, vars
    <2>3. \A k \in 1..Len(down') : down'[k].state # "notice"
      BY <2>1 DEF NoErrorYet
    <2>4. ASSUME NEW d \in Rpcs, Unfailing(d)' PROVE ~Sent(d, "error")' /\ Good(d)'
      <3>1. ~Sent(d, "error") /\ Good(d)
        BY <2>2, <2>4 DEF NoErrorYet, Unfailing
      <3>2. ~Sent(d, "error")'
        BY <2>1, <3>1 DEF Sent
      <3>3. down[1].by = d => down[1].state # "error"
        BY <2>1, <3>1 DEF Sent, Replies
      <3>4. down[1].state # "notice"
        BY <2>1 DEF NoErrorYet
      <3>5. settled'[d] = settled[d] \/ (down[1].by = d /\ settled'[d] = down[1].state /\ down[1].state # "msg")
        BY <1>0, <2>1 DEF Rpcs
      <3>6. down[1].state \in Frames \union {"notice"}
        BY <2>1 DEF Replies
      <3> QED
        BY <3>1, <3>2, <3>3, <3>4, <3>5, <3>6 DEF Frames
    <2> QED
      BY <2>3, <2>4 DEF NoErrorYet
  <1>5. ASSUME NEW c \in Calls, Serving(Goroutine(c), c) PROVE NoErrorYet'
    <2>1. /\ Goroutine(c) /\ Relay(c) /\ UNCHANGED settled
      BY <1>5 DEF Serving, pageVars
    <2>2. wire' = wire \/ \E f \in Frames : Put(c, f)
      BY <1>0, <2>1, GoroutineStep DEF GoroutineEffect
    <2>3. ASSUME NEW d \in Calls, NEW f \in Frames, wire' = wire \/ Put(c, f), ~Sent(d, "error"),
                 d = c => f # "error" \/ wire' = wire
          PROVE  ~Sent(d, "error")'
      BY <1>0, <2>1, <2>3, RelayNoError DEF NoErrorYet
    <2>4. \A k \in 1..Len(down') : down'[k].state # "notice"
      BY <1>0, <2>1, <2>2, RelayKinds DEF NoErrorYet
    <2>5. ASSUME NEW d \in Rpcs, Unfailing(d)' PROVE ~Sent(d, "error")' /\ Good(d)'
      <3>1. PICK f \in Frames : wire' = wire \/ Put(c, f)
        BY <2>2 DEF Frames
      <3>2. Unfailing(d) /\ (d = c => f # "error" \/ wire' = wire)
        BY <1>0, <2>5, <3>1, StaysUnfailing DEF Rpcs
      <3>3. ~Sent(d, "error") /\ Good(d)
        BY <3>2 DEF NoErrorYet
      <3>4. ~Sent(d, "error")'
        BY <2>3, <3>1, <3>2, <3>3 DEF Rpcs
      <3> QED
        BY <2>1, <3>3, <3>4
    <2> QED
      BY <2>4, <2>5 DEF NoErrorYet
  <1>6. CASE Serve
    <2>1. /\ Head(up) = up[1] /\ up[1] \in Posts /\ UNCHANGED settled /\ up # <<>>
      BY <1>0, <1>6, TakesOldest DEF Serve, pageVars, SInv
    <2>2. PICK c \in Calls, op \in Ops : up[1] = [op |-> op, call |-> c]
      BY <2>1 DEF Posts
    <2>3. CASE op = "data"
      <3>1. ServeData(c)
        BY <1>6, <2>1, <2>2, <2>3 DEF Serve
      <3>2. ~FeedFindsNothing(IdOf[c])
        BY <1>6, <2>1, <2>2, <2>3 DEF LateData
      <3>3. UNCHANGED <<vars, down>>
        BY <3>1, <3>2 DEF ServeData
      <3> QED
        BY <1>1, <2>1, <3>3 DEF vars
    <2>4. CASE op = "cancel"
      <3>1. ServeCancel(c)
        BY <1>6, <2>1, <2>2, <2>4 DEF Serve
      <3>2. UNCHANGED <<wire, down>>
        BY <3>1 DEF ServeCancel, CancelRPC, Cancel, vars
      <3> QED
        BY <1>1, <2>1, <3>2
    <2>5. CASE op = "open"
      <3>1. ReadLoop(c) /\ Relay(c)
        BY <1>6, <2>1, <2>2, <2>5 DEF Serve
      <3>2. wire' = wire \/ (Put(c, "error") /\ c \notin Rpcs)
        BY <3>1 DEF ReadLoop, RejectUnknown, RefuseClosing, OpenRPC, DispatchCommand, DispatchEvent, Rpcs
      <3>4. \A k \in 1..Len(down') : down'[k].state # "notice"
        BY <1>0, <3>1, <3>2, RelayKinds DEF NoErrorYet, Frames
      <3>5. ASSUME NEW d \in Rpcs, Unfailing(d)' PROVE ~Sent(d, "error")' /\ Good(d)'
        <4>1. Unfailing(d)
          BY <1>0, <3>2, <3>5, StaysUnfailing DEF Rpcs, Frames
        <4>2. ~Sent(d, "error") /\ Good(d)
          BY <4>1 DEF NoErrorYet
        <4>3. ~Sent(d, "error")'
          BY <1>0, <3>1, <3>2, <4>2, RelayNoError DEF NoErrorYet, Rpcs, Frames
        <4> QED
          BY <2>1, <4>2, <4>3
      <3> QED
        BY <3>4, <3>5 DEF NoErrorYet
    <2> QED
      BY <2>3, <2>4, <2>5 DEF Ops
  <1>7. CASE ServeCallCancel
    BY <1>1, <1>7 DEF ServeCallCancel, CallCancel, pageVars
  <1>8. CASE UNCHANGED sessionVars
    BY <1>1, <1>8 DEF sessionVars, pageVars, vars
  <1> QED
    BY <1>2, <1>3, <1>4, <1>5, <1>6, <1>7, <1>8 DEF SessionNext

\* stream.go on Handler, "terminates the call with done (nil return)": a call whose
\* done was sent ends so on the page, before or after its goroutine exits, wherever no
\* data frame reaches a stream whose entry finishRPC already removed.
THEOREM NilIsDoneWithoutLateData ==
  ASSUME Leaky = {}
  PROVE  SessionSpec /\ NoLateData => []NilReturnIsDone
  <1>1. SessionInit => NoErrorYet
    BY DEF SessionInit, Init, NoErrorYet, Sent, Rpcs
  <1>2. SInv /\ NoErrorYet /\ [SessionNext]_sessionVars /\ [Serve => ~LateData]_sessionVars
          => NoErrorYet'
    <2> SUFFICES ASSUME SInv, NoErrorYet, [SessionNext]_sessionVars,
                        [Serve => ~LateData]_sessionVars
                 PROVE  NoErrorYet'
      OBVIOUS
    <2>1. up \in Seq(Posts)
      BY DEF SInv, SessionTypeOK, Posts, Ops
    <2>2. UNCHANGED sessionVars => ~Serve
      BY <2>1, TailParts DEF Serve, sessionVars
    <2> QED
      BY <2>2, NoErrorKeeps
  <1>3. ASSUME SInv, NoErrorYet, TerminalIsLast PROVE NilReturnIsDone
    <2> SUFFICES ASSUME NEW c \in Rpcs, NEW k \in 1..Len(wire[c]), wire[c][k] = "done"
                 PROVE  Unfailing(c)
      BY <1>3 DEF NilReturnIsDone, NoErrorYet
    <2>1. c \in Requests /\ [d \in Requests |-> wire[d]][c] = wire[c]
      BY DEF Rpcs, Requests
    <2>2. ASSUME NEW l \in 1..Len(wire[c]), wire[c][l] = "error" PROVE FALSE
      <3>1. k = Len(wire[c]) /\ l = Len(wire[c])
        BY <1>3, <2>1, <2>2 DEF TerminalIsLast, Contract!TerminalIsLast, Contract!Terminals
      <3> QED
        BY <2>2, <3>1
    <2> QED
      BY <2>2 DEF Unfailing
  <1>4. SessionSpec => []TerminalIsLast
    BY SessionKeepsContract, ContractEntails, PTL
  <1> QED
    BY SessionInvariant, <1>1, <1>2, <1>3, <1>4, PTL DEF SessionSpec, NoLateData
===========================================================================

-------------------------- MODULE DispatcherProofs --------------------------
(***************************************************************************)
(* Theorems about Dispatcher, for any set of calls, any number of slots    *)
(* and any message bound, as long as no two calls share an id and no       *)
(* handler leaves a sender behind: the two hypotheses without which TLC    *)
(* refutes them (runs session_reload and late_message).                    *)
(***************************************************************************)
EXTENDS Dispatcher, FiniteSetTheorems, TLAPS

Working(c) == pc[c] \in {"waiting", "running", "returned", "claimed", "fenced", "answered"}

\* Each stage belongs to the kinds of call that can reach it.
StagesFit ==
  \A c \in Calls :
    /\ pc[c] \in {"waiting", "returned", "answered"} => c \in Rpcs \union Commands
    /\ pc[c] \in {"claimed", "fenced"} => c \in Rpcs
    /\ pc[c] = "running" => KindOf[c] # "unknown"
    /\ pc[c] = "new" => c \notin ctxDone \union snapshot \union {toCancel}

\* The wait group counts exactly the goroutines that have not ended.
FlightFits == \A c \in Calls : c \in inflight <=> Working(c)

\* An entry belongs to the one call of its id, and that call still needs it.
TablesFit ==
  \A i \in Ids :
    /\ pending[i] # None =>
         /\ IdOf[pending[i]] = i
         /\ \/ pending[i] \in Rpcs /\ InHandler(pending[i])
            \/ pending[i] \in Commands /\ (InHandler(pending[i]) \/ pc[pending[i]] = "answered")
    /\ calls[i] # None =>
         /\ IdOf[calls[i]] = i
         /\ calls[i] \in Rpcs
         /\ InHandler(calls[i])

\* A context that can still be canceled is within reach of its id, or the read loop
\* has it in hand.
Reachable ==
  \A c \in Rpcs \union Commands :
    InHandler(c) => c \in ctxDone \/ toCancel = c \/ pending[IdOf[c]] = c

\* finishRPC's locals speak of the call itself.
LocalsFit ==
  \A c \in Calls :
    /\ c \in live => pc[c] \in {"claimed", "fenced", "answered"}
    /\ victim[c] \in {c, None}

\* A slot is held by a call of its budget, from its admission to its exit.
SlotsFit ==
  /\ IsFiniteSet(sem) /\ Cardinality(sem) <= MaxUnary
  /\ IsFiniteSet(streamSem) /\ Cardinality(streamSem) <= MaxStreams
  /\ \A c \in Calls :
       /\ c \in SharedSlot /\ pc[c] = "running" => c \in sem
       /\ KindOf[c] = "stream" /\ pc[c] = "running" => c \in streamSem

\* A Send under way belongs to a handler at work.
SendersFit == \A c \in armed : c \in Rpcs \union Commands /\ pc[c] = "running"

\* What Close has not canceled yet it still holds in its snapshot, unless the read
\* loop took it first.
CloseFits ==
  /\ closer # "idle" => closing
  /\ closer \in {"draining", "drained", "expired"} => snapshot = {}
  /\ closer = "drained" => inflight = {}
  /\ closing => /\ closer # "idle"
                /\ \A c \in Rpcs \union Commands :
                     pc[c] \in {"waiting", "running"} => c \in ctxDone \union snapshot \union {toCancel}

\* No two calls that have arrived carry one id.
Unshared ==
  \A c, d \in Calls : pc[c] # "new" /\ pc[d] # "new" /\ IdOf[c] = IdOf[d] => c = d

IInv ==
  /\ TypeOK
  /\ StagesFit
  /\ FlightFits
  /\ TablesFit
  /\ Reachable
  /\ LocalsFit
  /\ SlotsFit
  /\ SendersFit
  /\ CloseFits

-----------------------------------------------------------------------------
\* Taking a slot only when fewer than n are taken keeps the budget.
LEMMA TakeSlot ==
  ASSUME NEW S, IsFiniteSet(S), NEW n \in Nat, Cardinality(S) < n, NEW x
  PROVE  IsFiniteSet(S \union {x}) /\ Cardinality(S \union {x}) <= n
  <1>1. Cardinality(S) \in Nat
    BY FS_CardinalityType
  <1>2. /\ IsFiniteSet(S \union {x})
        /\ Cardinality(S \union {x}) \in {Cardinality(S), Cardinality(S) + 1}
    BY FS_AddElement
  <1>3. QED
    BY <1>1, <1>2

\* Giving one back keeps it.
LEMMA GiveSlot ==
  ASSUME NEW S, IsFiniteSet(S), NEW n \in Nat, Cardinality(S) <= n, NEW x
  PROVE  IsFiniteSet(S \ {x}) /\ Cardinality(S \ {x}) <= n
  <1>1. Cardinality(S) \in Nat
    BY FS_CardinalityType
  <1>2. /\ IsFiniteSet(S \ {x})
        /\ Cardinality(S \ {x}) \in {Cardinality(S), Cardinality(S) - 1}
    BY FS_RemoveElement
  <1>3. QED
    BY <1>1, <1>2

LEMMA InitIInv == Init => IInv
  <1> SUFFICES ASSUME Init PROVE IInv
    OBVIOUS
  <1> USE CallsAssumption, SlotsAssumption DEF Init
  <1>1. TypeOK
    <2>1. wire \in [Calls -> Seq(Frames)]
      OBVIOUS
    <2>2. QED
      BY <2>1 DEF TypeOK, Stages
  <1>2. StagesFit /\ FlightFits /\ LocalsFit /\ SendersFit /\ Reachable
    BY DEF StagesFit, FlightFits, LocalsFit, SendersFit, Reachable, Working, InHandler,
           Rpcs, Commands
  <1>3. TablesFit
    BY DEF TablesFit
  <1>4. SlotsFit
    BY FS_EmptySet DEF SlotsFit
  <1>5. CloseFits
    BY DEF CloseFits
  <1>6. QED
    BY <1>1, <1>2, <1>3, <1>4, <1>5 DEF IInv

\* A frame appended to a call's output leaves the outputs well typed.
LEMMA PutType ==
  ASSUME wire \in [Calls -> Seq(Frames)], NEW c \in Calls, NEW f \in Frames, Put(c, f)
  PROVE  wire' \in [Calls -> Seq(Frames)]
  <1>1. Append(wire[c], f) \in Seq(Frames)
    OBVIOUS
  <1>2. QED
    BY <1>1 DEF Put

\* Among the calls that have arrived, an entry of an id is its one call's or none.
LEMMA OwnEntry ==
  ASSUME IInv, Unshared, NEW c \in Calls, pc[c] # "new"
  PROVE  /\ pending[IdOf[c]] \in {c, None}
         /\ calls[IdOf[c]] \in {c, None}
  <1> DEFINE i == IdOf[c]
  <1>1. i \in Ids
    BY CallsAssumption
  <1>2. ASSUME NEW d \in Calls, IdOf[d] = i, pc[d] # "new" PROVE d = c
    BY <1>2 DEF Unshared
  <1>3. pending[i] \in Calls \union {None} /\ calls[i] \in Calls \union {None}
    BY <1>1 DEF IInv, TypeOK
  <1>4. /\ pending[i] # None => IdOf[pending[i]] = i /\ pc[pending[i]] # "new"
        /\ calls[i] # None => IdOf[calls[i]] = i /\ pc[calls[i]] # "new"
    BY <1>1 DEF IInv, TablesFit, InHandler
  <1> HIDE DEF i
  <1>5. pending[i] \in {c, None} /\ calls[i] \in {c, None}
    BY <1>2, <1>3, <1>4
  <1>6. QED
    BY <1>5 DEF i

\* Every step keeps the inductive invariant.
LEMMA StepIInv ==
  ASSUME Unshared, Unshared', Leaky = {}, IInv, [Next]_vars
  PROVE  IInv'
  <1> USE CallsAssumption, SlotsAssumption
         DEF IInv, TypeOK, StagesFit, FlightFits, TablesFit, Reachable, LocalsFit,
        SendersFit, CloseFits, Working, InHandler, Unshared, GoTo, MaySend, Admits,
        StreamSlotFree, Canceled, DropEntry, WgDone, FindsCall, Found, Answers,
        Rpcs, Commands, SharedSlot, Stages, closeVars, entries, tables, slots, finishVars
  <1>1. ASSUME NEW c \in Calls, RejectUnknown(c) PROVE IInv'
    <2>1. wire' \in [Calls -> Seq(Frames)]
      BY <1>1, PutType DEF RejectUnknown, Frames
    <2>2. TypeOK'
      BY <1>1, <2>1 DEF RejectUnknown
    <2>3. StagesFit' /\ FlightFits' /\ TablesFit' /\ Reachable'
      BY <1>1 DEF RejectUnknown
    <2>4. LocalsFit' /\ SlotsFit' /\ SendersFit' /\ CloseFits'
      BY <1>1 DEF RejectUnknown, SlotsFit
    <2>5. QED
      BY <2>2, <2>3, <2>4 DEF IInv
  <1>2. ASSUME NEW c \in Calls, RefuseClosing(c) PROVE IInv'
    BY <1>2 DEF RefuseClosing, SlotsFit
  <1>3. ASSUME NEW c \in Calls, OpenRPC(c) PROVE IInv'
    BY <1>3 DEF OpenRPC, SlotsFit
  <1>4. ASSUME NEW c \in Calls, DispatchCommand(c) PROVE IInv'
    BY <1>4 DEF DispatchCommand, SlotsFit
  <1>5. ASSUME NEW c \in Calls, DispatchEvent(c) PROVE IInv'
    BY <1>5 DEF DispatchEvent, SlotsFit
  <1>6. ASSUME NEW i \in Ids, AtNextFrame, CancelRPC(i) PROVE IInv'
    BY <1>6 DEF AtNextFrame, CancelRPC, SlotsFit
  <1>7. ASSUME NEW i \in Ids, AtNextFrame, Cancel(i) PROVE IInv'
    BY <1>7 DEF AtNextFrame, Cancel, SlotsFit
  <1>8. ASSUME NEW c \in Calls, AcquireSlot(c) PROVE IInv'
    <2>1. SlotsFit'
      <3>1. CASE GrantShared(c)
        <4>1. IsFiniteSet(sem') /\ Cardinality(sem') <= MaxUnary
          BY <3>1, TakeSlot DEF GrantShared, SlotsFit
        <4>2. QED
          BY <1>8, <3>1, <4>1 DEF AcquireSlot, GrantShared, SlotsFit, Kinds
      <3>2. CASE GrantStream(c)
        <4>1. IsFiniteSet(streamSem') /\ Cardinality(streamSem') <= MaxStreams
          BY <3>2, TakeSlot DEF GrantStream, SlotsFit
        <4>2. QED
          BY <1>8, <3>2, <4>1 DEF AcquireSlot, GrantStream, SlotsFit, Kinds
      <3>3. QED
        BY <1>8, <3>1, <3>2 DEF AcquireSlot
    <2>2. QED
      BY <1>8, <2>1 DEF AcquireSlot, GrantShared, GrantStream, Kinds
  <1>9. ASSUME NEW c \in Calls, GiveUpWaiting(c) PROVE IInv'
    BY <1>9 DEF GiveUpWaiting, SlotsFit
  <1>10. ASSUME NEW c \in Calls, RejectOverload(c) PROVE IInv'
    BY <1>10 DEF RejectOverload, SlotsFit
  <1>11. ASSUME NEW c \in Calls, AbandonCommand(c) PROVE IInv'
    BY <1>11 DEF AbandonCommand, SlotsFit
  <1>12. ASSUME NEW c \in Calls, BeginSend(c) PROVE IInv'
    BY <1>12 DEF BeginSend, SlotsFit
  <1>13. ASSUME NEW c \in Calls, EndSend(c) PROVE IInv'
    <2>1. wire' \in [Calls -> Seq(Frames)]
      BY <1>13, PutType DEF EndSend, Frames
    <2>2. TypeOK'
      BY <1>13, <2>1 DEF EndSend
    <2>3. StagesFit' /\ FlightFits' /\ TablesFit' /\ Reachable'
      BY <1>13 DEF EndSend
    <2>4. LocalsFit' /\ SlotsFit' /\ SendersFit' /\ CloseFits'
      BY <1>13 DEF EndSend, SlotsFit
    <2>5. QED
      BY <2>2, <2>3, <2>4 DEF IInv
  <1>14. ASSUME NEW c \in Calls, HandlerReturn(c) PROVE IInv'
    BY <1>14 DEF HandlerReturn, SlotsFit
  <1>15. ASSUME NEW c \in Calls, FinishClaim(c) PROVE IInv'
    <2>1. \A d \in Calls \ {c} : pc[d] # "new" => IdOf[d] # IdOf[c]
      BY <1>15 DEF FinishClaim
    <2>2. TypeOK' /\ StagesFit' /\ FlightFits' /\ SlotsFit' /\ SendersFit' /\ CloseFits'
      BY <1>15 DEF FinishClaim, SlotsFit
    <2>3. TablesFit' /\ Reachable'
      BY <1>15, <2>1 DEF FinishClaim
    <2>4. LocalsFit'
      <3>1. victim'[c] \in {c, None}
        BY <1>15, OwnEntry DEF FinishClaim
      <3>2. QED
        BY <1>15, <3>1 DEF FinishClaim
    <2>5. QED
      BY <2>2, <2>3, <2>4 DEF IInv
  <1>16. ASSUME NEW c \in Calls, FinishFence(c) PROVE IInv'
    BY <1>16 DEF FinishFence, SlotsFit
  <1>17. ASSUME NEW c \in Calls, FinishEmit(c) PROVE IInv'
    <2>1. wire' \in [Calls -> Seq(Frames)]
      BY <1>17, PutType DEF FinishEmit, Frames, Terminal
    <2>2. TypeOK'
      BY <1>17, <2>1 DEF FinishEmit
    <2>3. StagesFit' /\ FlightFits' /\ TablesFit' /\ Reachable'
      BY <1>17 DEF FinishEmit
    <2>4. LocalsFit' /\ SlotsFit' /\ SendersFit' /\ CloseFits'
      BY <1>17 DEF FinishEmit, SlotsFit
    <2>5. QED
      BY <2>2, <2>3, <2>4 DEF IInv
  <1>18. ASSUME NEW c \in Calls, CommandReply(c) PROVE IInv'
    <2>1. wire' \in [Calls -> Seq(Frames)]
      BY <1>18, PutType DEF CommandReply, Frames, Terminal
    <2>2. TypeOK'
      BY <1>18, <2>1 DEF CommandReply
    <2>3. StagesFit' /\ FlightFits' /\ TablesFit' /\ Reachable'
      BY <1>18 DEF CommandReply
    <2>4. LocalsFit' /\ SlotsFit' /\ SendersFit' /\ CloseFits'
      BY <1>18 DEF CommandReply, SlotsFit
    <2>5. QED
      BY <2>2, <2>3, <2>4 DEF IInv
  <1>19. ASSUME NEW c \in Calls, ExitRPC(c) PROVE IInv'
    <2>1. IsFiniteSet(sem') /\ Cardinality(sem') <= MaxUnary
      BY <1>19, GiveSlot DEF ExitRPC, SlotsFit
    <2>2. IsFiniteSet(streamSem') /\ Cardinality(streamSem') <= MaxStreams
      BY <1>19, GiveSlot DEF ExitRPC, SlotsFit
    <2>3. QED
      BY <1>19, <2>1, <2>2 DEF ExitRPC, DropLocals, SlotsFit
  <1>20. ASSUME NEW c \in Calls, ExitCommand(c) PROVE IInv'
    <2>1. IsFiniteSet(sem') /\ Cardinality(sem') <= MaxUnary
      BY <1>20, GiveSlot DEF ExitCommand, SlotsFit
    <2>2. QED
      BY <1>20, <2>1 DEF ExitCommand, DropLocals, SlotsFit
  <1>21. ASSUME NEW c \in Calls, ExitEvent(c) PROVE IInv'
    BY <1>21 DEF ExitEvent, SlotsFit
  <1>22. ASSUME NEW c \in Calls, CloseCancel(c) PROVE IInv'
    BY <1>22 DEF CloseCancel, SlotsFit
  <1>23. ASSUME CloseBegin PROVE IInv'
    BY <1>23 DEF CloseBegin, SlotsFit
  <1>24. ASSUME CloseWait PROVE IInv'
    BY <1>24 DEF CloseWait, SlotsFit
  <1>25. ASSUME CloseDrained PROVE IInv'
    BY <1>25 DEF CloseDrained, SlotsFit
  <1>26. ASSUME CloseDeadline PROVE IInv'
    BY <1>26 DEF CloseDeadline, SlotsFit
  <1>27. ASSUME CallCancel PROVE IInv'
    BY <1>27 DEF CallCancel, SlotsFit
  <1>28. CASE UNCHANGED vars
    BY <1>28 DEF vars, SlotsFit
  <1>29. QED
    BY <1>1, <1>2, <1>3, <1>4, <1>5, <1>6, <1>7, <1>8, <1>9, <1>10, <1>11, <1>12,
       <1>13, <1>14, <1>15, <1>16, <1>17, <1>18, <1>19, <1>20, <1>21, <1>22, <1>23, <1>24,
       <1>25, <1>26, <1>27, <1>28
    DEF Next, ReadLoop, Withdraw, Goroutine, Leave, Finish, Exit, Close

-----------------------------------------------------------------------------
\* The invariant holds in every reachable state.
LEMMA Invariant ==
  ASSUME IdsUnique, Leaky = {}
  PROVE  Spec => []IInv
  <1>1. Unshared /\ Unshared'
    BY DEF IdsUnique, Unshared
  <1>2. IInv /\ [Next]_vars => IInv'
    BY <1>1, StepIInv
  <1>3. QED
    BY InitIInv, <1>2, PTL DEF Spec

\* Each table, slot set and goroutine keeps to its range.
THEOREM DispatcherTyped ==
  ASSUME IdsUnique, Leaky = {}
  PROVE  Spec => []TypeOK
  <1>1. IInv => TypeOK
    BY DEF IInv
  <1>2. QED
    BY Invariant, <1>1, PTL

\* Close leaves no handler at work, or waiting for a slot, under a context that was
\* not canceled, however cancels and returns race with its snapshot of pending: the
\* one exception is the call whose cancel function the read loop has in hand.
THEOREM CloseReaches ==
  ASSUME IdsUnique, Leaky = {}
  PROVE  Spec => []CloseReachesEveryHandler
  <1>1. IInv => CloseReachesEveryHandler
    BY DEF IInv, CloseFits, CloseReachesEveryHandler
  <1>2. QED
    BY Invariant, <1>1, PTL

\* After a Close that reports success no goroutine of the dispatcher is left.
THEOREM Drained ==
  ASSUME IdsUnique, Leaky = {}
  PROVE  Spec => []DrainedIsQuiet
  <1>1. ASSUME IInv PROVE DrainedIsQuiet
    <2> SUFFICES ASSUME closer = "drained"
                 PROVE  (\A c \in Calls : pc[c] \in {"new", "refused", "exited"}) /\ armed = {}
      BY DEF DrainedIsQuiet
    <2>1. \A c \in Calls : ~Working(c)
      BY <1>1 DEF IInv, CloseFits, FlightFits
    <2>2. \A c \in Calls : pc[c] \in {"new", "refused", "exited"}
      BY <1>1, <2>1 DEF IInv, TypeOK, Stages, Working
    <2>3. armed = {}
      BY <1>1, <2>1 DEF IInv, TypeOK, SendersFit, Working
    <2>4. QED
      BY <2>2, <2>3
  <1>2. QED
    BY Invariant, <1>1, PTL

\* An entry of either table never outlives the goroutine it stands for.
THEOREM EntriesEnd ==
  ASSUME IdsUnique, Leaky = {}
  PROVE  Spec => []NoStaleEntry
  <1>1. ASSUME IInv PROVE NoStaleEntry
    BY <1>1, CallsAssumption
    DEF IInv, TypeOK, TablesFit, FlightFits, Working, InHandler, NoStaleEntry, IdsUnique,
        Rpcs, Commands
  <1>2. QED
    BY Invariant, <1>1, PTL

\* At no time are more handlers of a budget at work than it has slots.
THEOREM SlotsHold ==
  ASSUME IdsUnique, Leaky = {}
  PROVE  Spec => []SlotsBounded
  <1>1. ASSUME IInv PROVE SlotsBounded
    <2> DEFINE R == {c \in SharedSlot : pc[c] = "running"}
               S == {c \in Calls : KindOf[c] = "stream" /\ pc[c] = "running"}
    <2>1. R \subseteq sem /\ S \subseteq streamSem
      BY <1>1 DEF IInv, SlotsFit, SharedSlot
    <2>2. Cardinality(R) <= Cardinality(sem) /\ Cardinality(S) <= Cardinality(streamSem)
      BY <1>1, <2>1, FS_Subset DEF IInv, SlotsFit
    <2>3. /\ Cardinality(R) \in Nat /\ Cardinality(sem) \in Nat
          /\ Cardinality(S) \in Nat /\ Cardinality(streamSem) \in Nat
      BY <1>1, <2>1, FS_Subset, FS_CardinalityType DEF IInv, SlotsFit
    <2>4. QED
      BY <1>1, <2>2, <2>3, SlotsAssumption DEF IInv, SlotsFit, SlotsBounded
  <1>2. QED
    BY Invariant, <1>1, PTL

-----------------------------------------------------------------------------
(* The dispatcher implements CallContract: every step moves at most one     *)
(* request through its contract.                                            *)

cvars == <<[c \in Requests |-> Phase(c)], [c \in Requests |-> wire[c]]>>

\* The contract's view of a step that changes the phase of one request.
LEMMA MoveOne ==
  ASSUME NEW c \in Requests, NEW to, Phase(c)' = to,
         \A d \in Requests \ {c} : Phase(d)' = Phase(d)
  PROVE  Contract!Move(c, to)
  BY DEF Contract!Move

LEMMA PutOne ==
  ASSUME NEW c \in Requests, NEW f, wire \in [Calls -> Seq(Frames)], Put(c, f)
  PROVE  Contract!Put(c, f)
  BY DEF Put, Contract!Put, Requests

LEMMA SamePhase ==
  ASSUME \A d \in Requests : Phase(d)' = Phase(d)
  PROVE  [c \in Requests |-> Phase(c)]' = [c \in Requests |-> Phase(c)]
  OBVIOUS

LEMMA SameWire ==
  ASSUME wire' = wire
  PROVE  [c \in Requests |-> wire[c]]' = [c \in Requests |-> wire[c]]
  OBVIOUS

LEMMA StutterStep ==
  ASSUME \A d \in Requests : Phase(d)' = Phase(d), wire' = wire
  PROVE  [Contract!Next]_cvars
  BY SamePhase, SameWire DEF cvars

\* The steps of the contract that send nothing.
LEMMA SilentStep ==
  ASSUME NEW c \in Requests, wire' = wire,
         \A d \in Requests \ {c} : Phase(d)' = Phase(d),
         \/ Phase(c) = "new" /\ Phase(c)' \in {"live", "ended"}
         \/ Phase(c) = "live" /\ Phase(c)' = "withdrawn"
         \/ Phase(c) = "withdrawn" /\ Phase(c)' = "ended"
  PROVE  [Contract!Next]_cvars
  <1>1. UNCHANGED [d \in Requests |-> wire[d]] /\ Contract!Move(c, Phase(c)')
    BY MoveOne, SameWire
  <1>2. Contract!Begin(c) \/ Contract!Ignore(c) \/ Contract!Withdraw(c) \/ Contract!Leave(c)
    BY <1>1 DEF Contract!Begin, Contract!Ignore, Contract!Withdraw, Contract!Leave
  <1>3. QED
    BY <1>2 DEF Contract!Next

LEMMA SilentOrStutter ==
  ASSUME NEW c \in Requests, wire' = wire,
         \A d \in Requests \ {c} : Phase(d)' = Phase(d),
         \/ Phase(c)' = Phase(c)
         \/ Phase(c) = "new" /\ Phase(c)' \in {"live", "ended"}
         \/ Phase(c) = "live" /\ Phase(c)' = "withdrawn"
         \/ Phase(c) = "withdrawn" /\ Phase(c)' = "ended"
  PROVE  [Contract!Next]_cvars
  <1>1. CASE Phase(c)' = Phase(c)
    <2>1. \A d \in Requests : Phase(d)' = Phase(d)
      BY <1>1
    <2> QED
      BY <2>1, StutterStep
  <1>2. CASE Phase(c)' # Phase(c)
    BY <1>2, SilentStep
  <1> QED
    BY <1>1, <1>2

\* A context canceled withdraws a command that was still owed its answer, and no more.
LEMMA CanceledPhase ==
  ASSUME NEW x \in Calls, ctxDone' = ctxDone \union {x}, UNCHANGED <<calls, pc, live>>
  PROVE  /\ \A d \in Requests \ {x} : Phase(d)' = Phase(d)
         /\ Phase(x)' = Phase(x) \/ (Phase(x) = "live" /\ Phase(x)' = "withdrawn")
  BY DEF Phase, AnswerDue

\* The steps that send a frame.
LEMMA RejectStep ==
  ASSUME NEW c \in Requests, wire \in [Calls -> Seq(Frames)], Put(c, "error"),
         Phase(c) = "new", Phase(c)' = "ended",
         \A d \in Requests \ {c} : Phase(d)' = Phase(d)
  PROVE  [Contract!Next]_cvars
  <1>1. Contract!Reject(c)
    BY MoveOne, PutOne DEF Contract!Reject
  <1>2. QED
    BY <1>1 DEF Contract!Next

LEMMA MessageStep ==
  ASSUME NEW c \in Requests, wire \in [Calls -> Seq(Frames)], Put(c, "msg"),
         Phase(c) \in {"live", "withdrawn"},
         \A d \in Requests : Phase(d)' = Phase(d)
  PROVE  [Contract!Next]_cvars
  <1>1. Contract!Message(c)
    BY SamePhase, PutOne DEF Contract!Message
  <1>2. QED
    BY <1>1 DEF Contract!Next

LEMMA AnswerStep ==
  ASSUME NEW c \in Requests, wire \in [Calls -> Seq(Frames)],
         NEW f \in {"done", "error"}, Put(c, f),
         Phase(c) = "live" \/ (Phase(c) = "withdrawn" /\ c \in Commands),
         Phase(c)' = "ended",
         \A d \in Requests \ {c} : Phase(d)' = Phase(d)
  PROVE  [Contract!Next]_cvars
  <1>1. Contract!Put(c, f) /\ Contract!Move(c, "ended")
    BY MoveOne, PutOne
  <1>2. Contract!Answer(c)
    BY <1>1 DEF Contract!Answer, Contract!Terminals
  <1>3. QED
    BY <1>2 DEF Contract!Next

\* A call that is past its handler has no entry in calls.
LEMMA NoEntry ==
  ASSUME IInv, NEW c \in Calls, ~InHandler(c)
  PROVE  calls[IdOf[c]] # c
  BY CallsAssumption DEF IInv, TablesFit

\* What an id leads to is a call that carries it and has arrived.
LEMMA EntryOwner ==
  ASSUME IInv, NEW i \in Ids, NEW c \in Calls, c \in {calls[i], pending[i]}
  PROVE  IdOf[c] = i /\ pc[c] # "new"
  BY CallsAssumption DEF IInv, TablesFit, InHandler

LEMMA InitContract == Init => Contract!Init
  BY CallsAssumption DEF Init, Contract!Init, Phase, Requests

LEMMA StepContract ==
  ASSUME Unshared, Unshared', Leaky = {}, IInv, [Next]_vars
  PROVE  [Contract!Next]_cvars
  <1> USE CallsAssumption
      DEF IInv, TypeOK, StagesFit, TablesFit, LocalsFit, SendersFit, Unshared, Phase, AnswerDue,
          GoTo, MaySend, Admits, StreamSlotFree, Canceled, DropEntry, WgDone, FindsCall, Found,
          Answers, InHandler, Rpcs, Commands, Requests, SharedSlot, Stages,
          closeVars, entries, tables, slots, finishVars
  <1>1. ASSUME NEW c \in Calls, RejectUnknown(c) PROVE [Contract!Next]_cvars
    <2>1. c \in Requests /\ Phase(c) = "new" /\ Phase(c)' = "ended"
      BY <1>1 DEF RejectUnknown
    <2>2. Put(c, "error") /\ \A d \in Requests \ {c} : Phase(d)' = Phase(d)
      BY <1>1 DEF RejectUnknown
    <2>3. QED
      BY <2>1, <2>2, RejectStep
  <1>2. ASSUME NEW c \in Calls, RefuseClosing(c) PROVE [Contract!Next]_cvars
    <2>1. wire' = wire /\ \A d \in Requests \ {c} : Phase(d)' = Phase(d)
      BY <1>2 DEF RefuseClosing
    <2>2. Phase(c) = "new" /\ Phase(c)' = "ended"
      BY <1>2 DEF RefuseClosing
    <2>3. CASE c \in Requests
      BY <2>1, <2>2, <2>3, SilentStep
    <2>4. CASE c \notin Requests
      BY <2>1, <2>4, StutterStep
    <2>5. QED
      BY <2>3, <2>4
  <1>3. ASSUME NEW c \in Calls, OpenRPC(c) PROVE [Contract!Next]_cvars
    <2>1. wire' = wire /\ \A d \in Requests \ {c} : Phase(d)' = Phase(d)
      BY <1>3 DEF OpenRPC
    <2>2. c \in Requests /\ Phase(c) = "new" /\ Phase(c)' = "live"
      BY <1>3 DEF OpenRPC
    <2>3. QED
      BY <2>1, <2>2, SilentStep
  <1>4. ASSUME NEW c \in Calls, DispatchCommand(c) PROVE [Contract!Next]_cvars
    <2>1. wire' = wire /\ \A d \in Requests \ {c} : Phase(d)' = Phase(d)
      BY <1>4 DEF DispatchCommand
    <2>2. c \in Requests /\ Phase(c) = "new" /\ Phase(c)' = "live"
      BY <1>4 DEF DispatchCommand
    <2>3. QED
      BY <2>1, <2>2, SilentStep
  <1>5. ASSUME NEW c \in Calls, DispatchEvent(c) PROVE [Contract!Next]_cvars
    BY <1>5, StutterStep DEF DispatchEvent
  <1>6. ASSUME NEW c \in Calls, AcquireSlot(c) PROVE [Contract!Next]_cvars
    BY <1>6, StutterStep DEF AcquireSlot
  <1>7. ASSUME NEW c \in Calls, GiveUpWaiting(c) PROVE [Contract!Next]_cvars
    BY <1>7, StutterStep DEF GiveUpWaiting
  <1>8. ASSUME NEW c \in Calls, RejectOverload(c) PROVE [Contract!Next]_cvars
    BY <1>8, StutterStep DEF RejectOverload
  <1>9. ASSUME NEW c \in Calls, AbandonCommand(c) PROVE [Contract!Next]_cvars
    <2>1. wire' = wire /\ \A d \in Requests \ {c} : Phase(d)' = Phase(d)
      BY <1>9 DEF AbandonCommand
    <2>2. c \in Requests /\ Phase(c) = "withdrawn" /\ Phase(c)' = "ended"
      BY <1>9 DEF AbandonCommand
    <2>3. QED
      BY <2>1, <2>2, SilentStep
  <1>10. ASSUME NEW c \in Calls, BeginSend(c) PROVE [Contract!Next]_cvars
    BY <1>10, StutterStep DEF BeginSend
  <1>11. ASSUME NEW c \in Calls, EndSend(c) PROVE [Contract!Next]_cvars
    <2>1. c \in Requests /\ Phase(c) \in {"live", "withdrawn"}
      BY <1>11 DEF EndSend
    <2>2. Put(c, "msg") /\ \A d \in Requests : Phase(d)' = Phase(d)
      BY <1>11 DEF EndSend
    <2>3. QED
      BY <2>1, <2>2, MessageStep
  <1>12. ASSUME NEW c \in Calls, HandlerReturn(c) PROVE [Contract!Next]_cvars
    BY <1>12, StutterStep DEF HandlerReturn
  <1>13. ASSUME NEW c \in Calls, FinishClaim(c) PROVE [Contract!Next]_cvars
    <2>1. \A d \in Calls \ {c} : pc[d] # "new" => IdOf[d] # IdOf[c]
      BY <1>13 DEF FinishClaim
    <2>0. pending[IdOf[c]] \in {c, None} /\ calls[IdOf[c]] \in {c, None}
      BY <1>13, OwnEntry DEF FinishClaim
    <2>2. wire' = wire /\ \A d \in Requests : Phase(d)' = Phase(d)
      BY <1>13, <2>0, <2>1 DEF FinishClaim
    <2>3. QED
      BY <2>2, StutterStep
  <1>14. ASSUME NEW c \in Calls, FinishFence(c) PROVE [Contract!Next]_cvars
    BY <1>14, StutterStep DEF FinishFence
  <1>15. ASSUME NEW c \in Calls, FinishEmit(c) PROVE [Contract!Next]_cvars
    <2>1. c \in Requests /\ Phase(c)' = "ended" /\ Phase(c) = "live"
      BY <1>15 DEF FinishEmit
    <2>2. /\ Put(c, Terminal(c)) /\ Terminal(c) \in {"done", "error"}
          /\ \A d \in Requests \ {c} : Phase(d)' = Phase(d)
      BY <1>15 DEF FinishEmit, Terminal
    <2>w. wire \in [Calls -> Seq(Frames)]
      OBVIOUS
    <2> HIDE DEF IInv, Unshared, Phase, Requests, Commands, Rpcs
    <2>3. QED
      BY <2>1, <2>2, <2>w, AnswerStep
  <1>16. ASSUME NEW c \in Calls, CommandReply(c) PROVE [Contract!Next]_cvars
    <2>1. c \in Requests /\ Phase(c)' = "ended" /\ Phase(c) \in {"live", "withdrawn"} /\ c \in Commands
      BY <1>16 DEF CommandReply
    <2>2. /\ Put(c, Terminal(c)) /\ Terminal(c) \in {"done", "error"}
          /\ \A d \in Requests \ {c} : Phase(d)' = Phase(d)
      BY <1>16 DEF CommandReply, Terminal
    <2>w. wire \in [Calls -> Seq(Frames)]
      OBVIOUS
    <2> HIDE DEF IInv, Unshared, Phase, Requests, Commands, Rpcs
    <2>3. QED
      BY <2>1, <2>2, <2>w, AnswerStep
  <1>17. ASSUME NEW c \in Calls, ExitRPC(c) PROVE [Contract!Next]_cvars
    <2>1. wire' = wire /\ \A d \in Requests \ {c} : Phase(d)' = Phase(d)
      BY <1>17 DEF ExitRPC, DropLocals
    <2>2. c \in Requests /\ Phase(c) \in {"withdrawn", "ended"} /\ Phase(c)' = "ended"
      <3>1. c \in Requests /\ pc[c] \in {"answered", "fenced"} /\ pc'[c] = "exited"
        BY <1>17 DEF ExitRPC
      <3>2. pc[c] = "fenced" => c \notin live /\ calls[IdOf[c]] # c /\ c \notin Commands
        BY <1>17, NoEntry DEF ExitRPC
      <3>3. QED
        BY <3>1, <3>2
    <2> HIDE DEF IInv, Unshared, Phase, Requests, Commands, Rpcs
    <2>3. QED
      BY <2>1, <2>2, SilentOrStutter
  <1>18. ASSUME NEW c \in Calls, ExitCommand(c) PROVE [Contract!Next]_cvars
    BY <1>18, StutterStep DEF ExitCommand, DropLocals
  <1>19. ASSUME NEW c \in Calls, ExitEvent(c) PROVE [Contract!Next]_cvars
    BY <1>19, StutterStep DEF ExitEvent
  <1>20. ASSUME NEW i \in Ids, CancelRPC(i) PROVE [Contract!Next]_cvars
    <2>1. PICK c \in Requests : c \in {calls[i], pending[i]}
      BY <1>20 DEF CancelRPC
    <2>0. IdOf[c] = i /\ pc[c] # "new"
      BY <2>1, EntryOwner
    <2>5. pending[i] \in {c, None} /\ calls[i] \in {c, None}
      BY <2>0, OwnEntry
    <2>2. wire' = wire /\ \A d \in Requests \ {c} : Phase(d)' = Phase(d)
      BY <1>20, <2>5 DEF CancelRPC
    <2>3. Phase(c)' = Phase(c) \/ (Phase(c) = "live" /\ Phase(c)' = "withdrawn")
      <3>1. IdOf[c] = i /\ pc' = pc /\ live' = live /\ calls'[i] # c
        BY <1>20, <2>1 DEF CancelRPC
      <3>2. ctxDone' = ctxDone
        BY <1>20 DEF CancelRPC
      <3>3. AnswerDue(c)' => AnswerDue(c)
        BY <3>1, <3>2, <2>1
      <3>4. QED
        BY <3>1, <3>3, <2>1
    <2> HIDE DEF IInv, Unshared, Phase, Requests, Commands, Rpcs
    <2>4. QED
      BY <2>1, <2>2, <2>3, SilentOrStutter
  <1>21. ASSUME NEW i \in Ids, Cancel(i) PROVE [Contract!Next]_cvars
    <2>1. PICK c \in Requests : c \in {calls[i], pending[i]}
      BY <1>21 DEF Cancel
    <2>0. IdOf[c] = i /\ pc[c] # "new"
      BY <2>1, EntryOwner
    <2>5. pending[i] \in {c, None} /\ calls[i] \in {c, None}
      BY <2>0, OwnEntry
    <2>2. wire' = wire /\ \A d \in Requests \ {c} : Phase(d)' = Phase(d)
      BY <1>21, <2>5 DEF Cancel
    <2>3. Phase(c)' = Phase(c) \/ (Phase(c) = "live" /\ Phase(c)' = "withdrawn")
      <3>1. IdOf[c] = i /\ pc' = pc /\ live' = live /\ calls'[i] # c
        BY <1>21, <2>1 DEF Cancel
      <3>2. ctxDone' = ctxDone
        BY <1>21 DEF Cancel
      <3>3. AnswerDue(c)' => AnswerDue(c)
        BY <3>1, <3>2, <2>1
      <3>4. QED
        BY <3>1, <3>3, <2>1
    <2> HIDE DEF IInv, Unshared, Phase, Requests, Commands, Rpcs
    <2>4. QED
      BY <2>1, <2>2, <2>3, SilentOrStutter
  <1>22. ASSUME CloseBegin PROVE [Contract!Next]_cvars
    BY <1>22, StutterStep DEF CloseBegin
  <1>23. ASSUME CloseWait PROVE [Contract!Next]_cvars
    BY <1>23, StutterStep DEF CloseWait
  <1>24. ASSUME CloseDrained PROVE [Contract!Next]_cvars
    BY <1>24, StutterStep DEF CloseDrained
  <1>25. ASSUME CloseDeadline PROVE [Contract!Next]_cvars
    BY <1>25, StutterStep DEF CloseDeadline
  <1>26. ASSUME NEW c \in Calls, CloseCancel(c) PROVE [Contract!Next]_cvars
    <2>1. /\ wire' = wire
          /\ ctxDone' = ctxDone \union {c} /\ UNCHANGED <<calls, pc, live>>
      BY <1>26 DEF CloseCancel
    <2> HIDE DEF IInv, Unshared, Phase, Requests, Commands, Rpcs
    <2>2. CASE c \in Requests
      BY <2>1, <2>2, CanceledPhase, SilentOrStutter
    <2>3. CASE c \notin Requests
      BY <2>1, <2>3, CanceledPhase, StutterStep
    <2> QED
      BY <2>2, <2>3
  <1>27. ASSUME CallCancel PROVE [Contract!Next]_cvars
    <2>1. /\ toCancel \in Calls /\ wire' = wire
          /\ ctxDone' = ctxDone \union {toCancel} /\ UNCHANGED <<calls, pc, live>>
      BY <1>27 DEF CallCancel
    <2> HIDE DEF IInv, Unshared, Phase, Requests, Commands, Rpcs
    <2>2. CASE toCancel \in Requests
      BY <2>1, <2>2, CanceledPhase, SilentOrStutter
    <2>3. CASE toCancel \notin Requests
      BY <2>1, <2>3, CanceledPhase, StutterStep
    <2> QED
      BY <2>2, <2>3
  <1>28. ASSUME UNCHANGED vars PROVE [Contract!Next]_cvars
    BY <1>28, StutterStep DEF vars
  <1> QED
    BY <1>1, <1>2, <1>3, <1>4, <1>5, <1>6, <1>7, <1>8, <1>9, <1>10, <1>11, <1>12,
       <1>13, <1>14, <1>15, <1>16, <1>17, <1>18, <1>19, <1>20, <1>21, <1>22, <1>23,
       <1>24, <1>25, <1>26, <1>27, <1>28
    DEF Next, ReadLoop, Goroutine, Leave, Finish, Exit, Withdraw, Close

\* The dispatcher keeps its contract with the frontend: messages, then at most
\* one terminal frame, and silence once a cancel came in time (native.go,
\* finishRPC), for any number of calls of any kind.
THEOREM ContractKept ==
  ASSUME IdsUnique, Leaky = {}
  PROVE  Spec => KeepsContract
  <1>1. Unshared /\ Unshared'
    BY DEF IdsUnique, Unshared
  <1>2. IInv /\ [Next]_vars => [Contract!Next]_cvars
    BY <1>1, StepContract
  <1>3. QED
    BY Invariant, InitContract, <1>2, PTL DEF Spec, KeepsContract, Contract!Spec, cvars

\* So no call, however its handler, a cancel and Close interleave, gets a second
\* terminal frame or a message after its terminal frame: what the contract entails.
Entailed == INSTANCE CallContractProofs WITH
  Calls <- Requests,
  Insistent <- Commands,
  phase <- [c \in Requests |-> Phase(c)],
  wire <- [c \in Requests |-> wire[c]]

LEMMA ContractEntails == KeepsContract => []TerminalIsLast
  <1>1. Contract!Init => Entailed!Init
    BY DEF Contract!Init, Entailed!Init
  <1>2. [Contract!Next]_cvars => [Entailed!Next]_cvars
    BY
        DEF Contract!Next, Entailed!Next, Contract!Begin, Entailed!Begin,
            Contract!Ignore, Entailed!Ignore, Contract!Reject, Entailed!Reject,
            Contract!Message, Entailed!Message, Contract!Withdraw,
            Entailed!Withdraw, Contract!Answer, Entailed!Answer, Contract!Leave,
            Entailed!Leave, Contract!Move, Entailed!Move, Contract!Put,
            Entailed!Put, Contract!Terminals, Entailed!Terminals
  <1>3. Entailed!TerminalIsLast => TerminalIsLast
    BY DEF TerminalIsLast, Contract!TerminalIsLast, Entailed!TerminalIsLast,
           Contract!Terminals, Entailed!Terminals
  <1>4. KeepsContract => Entailed!Spec
    BY <1>1, <1>2, PTL DEF KeepsContract, Contract!Spec, Entailed!Spec, cvars
  <1>5. KeepsContract => []Entailed!TerminalIsLast
    BY <1>4, Entailed!TerminalFrameIsLast, PTL
  <1>6. QED
    BY <1>3, <1>5, PTL

\* No request gets a frame after its terminal frame, however its handler, a cancel
\* and Close interleave (native.go, finishRPC; stream.go, Send).
THEOREM NoFrameAfterTerminal ==
  ASSUME IdsUnique, Leaky = {}
  PROVE  Spec => []TerminalIsLast
  BY ContractKept, ContractEntails, PTL

\* stream.go on Send, "can't emit a msg frame after done": kept by handlers that leave
\* no goroutine behind, whatever cancels and Close do to them.
THEOREM NoLateMessageWithoutLeaks ==
  ASSUME IdsUnique, Leaky = {}
  PROVE  Spec => []NoMessageAfterTerminal
  <1>1. ASSUME IInv, TerminalIsLast PROVE NoMessageAfterTerminal
    <2> SUFFICES ASSUME NEW c \in Rpcs, NEW k \in 1..Len(wire[c]), wire[c][k] # "msg"
                 PROVE  k = Len(wire[c])
      BY DEF NoMessageAfterTerminal
    <2>1. c \in Requests /\ wire[c] \in Seq(Frames)
      BY <1>1 DEF IInv, TypeOK, Rpcs, Requests
    <2>2. wire[c][k] \in Frames
      BY <2>1
    <2>3. wire[c][k] \in Contract!Terminals
      BY <2>2 DEF Frames, Contract!Terminals
    <2> QED
      BY <1>1, <2>1, <2>3 DEF TerminalIsLast, Contract!TerminalIsLast
  <1> QED
    BY Invariant, NoFrameAfterTerminal, <1>1, PTL

-----------------------------------------------------------------------------
(* The dispatcher as Lifecycle sees it.  No hypothesis is needed here: the *)
(* wait group counts goroutines, whatever ids they share or leave behind.  *)

\* What Close knows of the goroutines.
CountInv ==
  /\ pc \in [Calls -> Stages]
  /\ inflight \subseteq Calls /\ IsFiniteSet(inflight)
  /\ FlightFits
  /\ closer \in {"idle", "cancelling", "draining", "drained", "expired"}
  /\ closer # "idle" => closing
  /\ closer = "drained" => inflight = {}

LEMMA InitCount == Init => CountInv
  BY FS_EmptySet DEF Init, CountInv, Stages, FlightFits, Working

\* The three things a step does with the wait group.
LEMMA CountUp ==
  ASSUME CountInv, NEW c \in Calls, pc[c] = "new", ~closing,
         inflight' = inflight \union {c}, pc' \in [Calls -> Stages], Working(c)',
         \A d \in Calls \ {c} : pc'[d] = pc[d], UNCHANGED closeVars
  PROVE  CountInv' /\ [AsSurface!Next]_<<SurfaceGate, Cardinality(inflight)>>
  <1>1. c \notin inflight
    BY DEF CountInv, FlightFits, Working
  <1>2. IsFiniteSet(inflight') /\ Cardinality(inflight') = Cardinality(inflight) + 1
    BY <1>1, FS_AddElement DEF CountInv
  <1>3. CountInv'
    BY <1>2 DEF CountInv, FlightFits, Working, closeVars
  <1>4. SurfaceGate = "open" /\ UNCHANGED SurfaceGate
    BY DEF CountInv, SurfaceGate, closeVars
  <1> QED
    BY <1>2, <1>3, <1>4 DEF AsSurface!Next, AsSurface!Accept

LEMMA CountDown ==
  ASSUME CountInv, NEW c \in Calls, Working(c),
         inflight' = inflight \ {c}, pc' \in [Calls -> Stages], ~Working(c)',
         \A d \in Calls \ {c} : pc'[d] = pc[d], UNCHANGED closeVars
  PROVE  CountInv' /\ [AsSurface!Next]_<<SurfaceGate, Cardinality(inflight)>>
  <1>1. c \in inflight
    BY DEF CountInv, FlightFits
  <1>2. /\ IsFiniteSet(inflight') /\ Cardinality(inflight') = Cardinality(inflight) - 1
        /\ Cardinality(inflight) \in Nat /\ Cardinality(inflight) # 0
    BY <1>1, FS_RemoveElement, FS_CardinalityType, FS_EmptySet DEF CountInv
  <1>3. CountInv'
    BY <1>1, <1>2 DEF CountInv, FlightFits, Working, closeVars
  <1>4. UNCHANGED SurfaceGate
    BY DEF SurfaceGate, closeVars
  <1> QED
    BY <1>2, <1>3, <1>4 DEF AsSurface!Next, AsSurface!Finish

LEMMA CountSame ==
  ASSUME CountInv, UNCHANGED inflight, pc' \in [Calls -> Stages],
         \A d \in Calls : Working(d)' <=> Working(d), UNCHANGED closeVars
  PROVE  CountInv' /\ [AsSurface!Next]_<<SurfaceGate, Cardinality(inflight)>>
  <1>1. CountInv'
    BY DEF CountInv, FlightFits, closeVars
  <1>2. UNCHANGED SurfaceGate
    BY DEF SurfaceGate, closeVars
  <1> QED
    BY <1>1, <1>2

LEMMA StepCount ==
  ASSUME CountInv, [Next]_vars
  PROVE  CountInv' /\ [AsSurface!Next]_<<SurfaceGate, Cardinality(inflight)>>
  <1> DEFINE Kept == CountInv' /\ [AsSurface!Next]_<<SurfaceGate, Cardinality(inflight)>>
  <1>0. pc \in [Calls -> Stages]
    BY DEF CountInv
  <1>1. ASSUME NEW c \in Calls, OpenRPC(c) \/ DispatchCommand(c) \/ DispatchEvent(c)
        PROVE  Kept
    <2>1. /\ pc[c] = "new" /\ ~closing /\ inflight' = inflight \union {c}
          /\ pc' \in [Calls -> Stages] /\ Working(c)' /\ \A d \in Calls \ {c} : pc'[d] = pc[d]
          /\ UNCHANGED closeVars
      BY <1>0, <1>1 DEF OpenRPC, DispatchCommand, DispatchEvent, Admits, GoTo, Stages, Working
    <2> QED
      BY <2>1, CountUp
  <1>2. ASSUME NEW c \in Calls, AbandonCommand(c) \/ Exit(c) PROVE Kept
    <2>1. /\ Working(c) /\ inflight' = inflight \ {c}
          /\ pc' \in [Calls -> Stages] /\ ~Working(c)' /\ \A d \in Calls \ {c} : pc'[d] = pc[d]
          /\ UNCHANGED closeVars
      BY <1>0, <1>2
      DEF AbandonCommand, Exit, ExitRPC, ExitCommand, ExitEvent, WgDone, GoTo, Stages, Working
    <2> QED
      BY <2>1, CountDown
  <1>3. ASSUME NEW c \in Calls, RejectUnknown(c) \/ RefuseClosing(c) PROVE Kept
    <2>1. /\ UNCHANGED <<inflight, closeVars>> /\ pc' \in [Calls -> Stages]
          /\ \A d \in Calls : Working(d)' <=> Working(d)
      BY <1>0, <1>3 DEF RejectUnknown, RefuseClosing, GoTo, Stages, Working
    <2> QED
      BY <2>1, CountSame
  <1>4. ASSUME NEW c \in Calls,
               AcquireSlot(c) \/ GiveUpWaiting(c) \/ RejectOverload(c) \/ HandlerReturn(c) \/ Finish(c)
        PROVE  Kept
    <2>1. /\ UNCHANGED <<inflight, closeVars>> /\ pc' \in [Calls -> Stages]
          /\ \A d \in Calls : Working(d)' <=> Working(d)
      BY <1>0, <1>4
      DEF AcquireSlot, GiveUpWaiting, RejectOverload, HandlerReturn, Finish, FinishClaim,
          FinishFence, FinishEmit, CommandReply, GoTo, Stages, Working
    <2> QED
      BY <2>1, CountSame
  <1>5. ASSUME UNCHANGED <<inflight, closeVars, pc>> PROVE Kept
    BY <1>0, <1>5, CountSame DEF Working
  <1>6. ASSUME CloseBegin \/ CloseWait \/ CloseDrained \/ CloseDeadline \/ \E c \in Calls : CloseCancel(c)
        PROVE  Kept
    <2>1. UNCHANGED <<inflight, pc>>
      BY <1>6 DEF CloseBegin, CloseWait, CloseDrained, CloseDeadline, CloseCancel
    <2>2. CountInv'
      BY <1>6, <2>1
      DEF CountInv, FlightFits, Working, CloseBegin, CloseWait, CloseDrained, CloseDeadline,
          CloseCancel
    <2>3. CASE CloseBegin
      BY <2>1, <2>2, <2>3
      DEF CountInv, CloseBegin, SurfaceGate, AsSurface!Next, AsSurface!Close
    <2>4. CASE CloseDrained
      <3>1. Cardinality(inflight) = 0
        BY <2>4, FS_EmptySet DEF CloseDrained
      <3> QED
        BY <2>1, <2>2, <2>4, <3>1
        DEF CountInv, CloseDrained, SurfaceGate, AsSurface!Next, AsSurface!Drained
    <2>5. CASE CloseWait \/ CloseDeadline \/ \E c \in Calls : CloseCancel(c)
      BY <2>1, <2>2, <2>5 DEF CountInv, CloseWait, CloseDeadline, CloseCancel, SurfaceGate
    <2> QED
      BY <1>6, <2>3, <2>4, <2>5
  <1>7. ASSUME NEW c \in Calls, BeginSend(c) \/ EndSend(c) PROVE Kept
    BY <1>5, <1>7 DEF BeginSend, EndSend
  <1>8. ASSUME CallCancel \/ \E i \in Ids : Withdraw(i) PROVE Kept
    BY <1>5, <1>8 DEF Withdraw, CancelRPC, Cancel, CallCancel
  <1>9. CASE UNCHANGED vars
    BY <1>5, <1>9 DEF vars
  <1> QED
    BY <1>1, <1>2, <1>3, <1>4, <1>6, <1>7, <1>8, <1>9 DEF Next, ReadLoop, Goroutine, Leave, Close

\* To the app the dispatcher is what Surface says: nothing is taken on behind a Close,
\* and a Close that reports success (native.go, wg.Wait) finds nothing at work.
THEOREM SurfaceKept == Spec => KeepsSurface
  <1>1. Init => AsSurface!Init
    BY FS_EmptySet DEF Init, AsSurface!Init, SurfaceGate
  <1>2. CountInv /\ [Next]_vars =>
          CountInv' /\ [AsSurface!Next]_<<SurfaceGate, Cardinality(inflight)>>
    BY StepCount
  <1> QED
    BY InitCount, <1>1, <1>2, PTL DEF Spec, KeepsSurface, AsSurface!Spec
=============================================================================

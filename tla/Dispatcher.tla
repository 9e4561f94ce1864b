----------------------------- MODULE Dispatcher -----------------------------
(***************************************************************************)
(* internal/ipc: one Dispatcher, which serves the frames of one frontend   *)
(* connection.  The read loop hands it one frame at a time (Handle); every *)
(* accepted call runs in a goroutine of its own, in two slot budgets; a    *)
(* Close may come at any moment.  A critical section of d.mu is one step,  *)
(* and whatever the code does between two of them is a step of its own.    *)
(*                                                                         *)
(* A call is one open, start or event frame, and IdOf[c] the message id it *)
(* carries.  The frontend numbers its calls from 1 on every page load, so  *)
(* one Dispatcher that outlives a page sees the same ids again: Session    *)
(* composes this module with the page.                                     *)
(***************************************************************************)
EXTENDS Naturals, Sequences, FiniteSets

CONSTANTS
  Calls,       \* the open, start and event frames the frontend sends
  Ids,         \* message ids
  IdOf,        \* the id each call carries
  KindOf,      \* what each call asks for
  None,        \* no call
  Leaky,       \* calls whose handler leaves a goroutine behind that goes on sending
  MaxUnary,    \* DefaultMaxConcurrent: slots of unary calls and commands
  MaxStreams,  \* DefaultMaxStreams: slots of streaming calls
  MaxMsgs      \* bound of the model: messages one call sends

Frames == {"msg", "done", "error"}
Kinds == {"unary", "stream", "command", "event", "unknown"}

ASSUME CallsAssumption ==
  /\ None \notin Calls
  /\ IdOf \in [Calls -> Ids]
  /\ KindOf \in [Calls -> Kinds]
  /\ Leaky \subseteq Calls
ASSUME SlotsAssumption ==
  /\ MaxUnary \in Nat \ {0}
  /\ MaxStreams \in Nat \ {0}
  /\ MaxMsgs \in Nat

VARIABLES
  closing,    \* Dispatcher.closing
  closer,     \* how far Close is
  snapshot,   \* Close's local cancels that it has not called yet
  pending,    \* Dispatcher.pending: whose cancel function an id holds
  calls,      \* Dispatcher.calls: whose stream an id holds
  toCancel,   \* the read loop's local "cancel": whose context it is about to cancel
  inflight,   \* Dispatcher.wg: the goroutines it counts
  sem,        \* holders of a unary slot
  streamSem,  \* holders of a stream slot
  ctxDone,    \* calls whose context is canceled
  pc,         \* where each call's goroutine is
  failed,     \* calls whose handler returned, or was given, an error
  live,       \* finishRPC's local "live"
  victim,     \* finishRPC's local "cancel": whose context it is about to cancel
  armed,      \* senders past the fence of Send, the frame not yet written
  wire        \* per call: the frames its own goroutines sent

tables == <<pending, calls>>
entries == <<tables, toCancel>>
slots == <<sem, streamSem>>
closeVars == <<closing, closer, snapshot>>
finishVars == <<failed, live, victim>>
vars == <<closeVars, entries, inflight, slots, ctxDone, pc, finishVars, armed, wire>>

Stages == {"new", "refused", "waiting", "running", "returned", "claimed",
           "fenced", "answered", "exited"}

Rpcs == {c \in Calls : KindOf[c] \in {"unary", "stream"}}
Commands == {c \in Calls : KindOf[c] = "command"}
Requests == {c \in Calls : KindOf[c] # "event"}
SharedSlot == {c \in Calls : KindOf[c] \in {"unary", "command"}}
InHandler(c) == pc[c] \in {"waiting", "running", "returned"}

TypeOK ==
  /\ closing \in BOOLEAN
  /\ closer \in {"idle", "cancelling", "draining", "drained", "expired"}
  /\ snapshot \subseteq Calls /\ inflight \subseteq Calls
  /\ sem \subseteq Calls /\ streamSem \subseteq Calls
  /\ pending \in [Ids -> Calls \union {None}]
  /\ calls \in [Ids -> Calls \union {None}]
  /\ toCancel \in Calls \union {None}
  /\ ctxDone \subseteq Calls /\ failed \subseteq Calls
  /\ live \subseteq Calls /\ armed \subseteq Calls
  /\ pc \in [Calls -> Stages]
  /\ victim \in [Calls -> Calls \union {None}]
  /\ wire \in [Calls -> Seq(Frames)]

Init ==
  /\ closing = FALSE /\ closer = "idle" /\ snapshot = {}
  /\ pending = [i \in Ids |-> None]
  /\ calls = [i \in Ids |-> None]
  /\ toCancel = None
  /\ inflight = {} /\ sem = {} /\ streamSem = {} /\ ctxDone = {}
  /\ pc = [c \in Calls |-> "new"]
  /\ failed = {} /\ live = {} /\ armed = {}
  /\ victim = [c \in Calls |-> None]
  /\ wire = [c \in Calls |-> <<>>]

-----------------------------------------------------------------------------
(* Handle: what the read loop does with one frame.                         *)

GoTo(c, stage) == pc' = [pc EXCEPT ![c] = stage]
Put(c, frame) == wire' = [wire EXCEPT ![c] = Append(@, frame)]

\* The gate on new work, under d.mu; and what forgetting it would be.
Admits_Always == TRUE
Admits == ~closing

\* The frame names nothing registered: answered on the spot.
RejectUnknown(c) ==
  /\ pc[c] = "new"
  /\ KindOf[c] = "unknown"
  /\ GoTo(c, "exited")
  /\ Put(c, "error")
  /\ UNCHANGED <<closeVars, entries, inflight, slots, ctxDone, finishVars, armed>>

\* No work is taken on once Close has begun, and nothing is said about it.
RefuseClosing(c) ==
  /\ pc[c] = "new"
  /\ closing
  /\ KindOf[c] # "unknown"
  /\ GoTo(c, "refused")
  /\ UNCHANGED <<closeVars, entries, inflight, slots, ctxDone, finishVars, armed, wire>>

\* openRPC's critical section; the goroutine starts in its wake.
OpenRPC(c) ==
  /\ pc[c] = "new"
  /\ Admits
  /\ c \in Rpcs
  /\ pending' = [pending EXCEPT ![IdOf[c]] = c]
  /\ calls' = [calls EXCEPT ![IdOf[c]] = c]
  /\ inflight' = inflight \union {c}
  /\ GoTo(c, "waiting")
  /\ UNCHANGED <<closeVars, toCancel, slots, ctxDone, finishVars, armed, wire>>

DispatchCommand(c) ==
  /\ pc[c] = "new"
  /\ Admits
  /\ c \in Commands
  /\ pending' = [pending EXCEPT ![IdOf[c]] = c]
  /\ inflight' = inflight \union {c}
  /\ GoTo(c, "waiting")
  /\ UNCHANGED <<closeVars, calls, toCancel, slots, ctxDone, finishVars, armed, wire>>

\* begin, then the event's goroutine: no slot, no context to cancel.
DispatchEvent(c) ==
  /\ pc[c] = "new"
  /\ Admits
  /\ KindOf[c] = "event"
  /\ inflight' = inflight \union {c}
  /\ GoTo(c, "running")
  /\ UNCHANGED <<closeVars, entries, slots, ctxDone, finishVars, armed, wire>>

\* feedRPC for a stream that is gone: the client is told that the stream is
\* closed, and nothing changes here.  For one that is not, it feeds the stream's
\* queue, which RawStream models.
FeedFindsNothing(i) == calls[i] = None

\* A cancel frame of kind rpc, under d.mu.  One that finds nothing changes nothing.
CancelRPC(i) ==
  /\ calls[i] # None \/ pending[i] # None
  /\ calls' = [calls EXCEPT ![i] = None]
  /\ pending' = [pending EXCEPT ![i] = None]
  /\ toCancel' = pending[i]
  /\ UNCHANGED <<closeVars, inflight, slots, ctxDone, pc, finishVars, armed, wire>>

\* A cancel frame without a kind (invoke's timeout): pending keeps its entry.
Cancel(i) ==
  /\ calls[i] # None \/ pending[i] # None
  /\ calls' = [calls EXCEPT ![i] = None]
  /\ toCancel' = pending[i]
  /\ UNCHANGED <<closeVars, pending, inflight, slots, ctxDone, pc, finishVars, armed, wire>>

\* The rest of either, after the unlock: the context found is canceled.
CallCancel ==
  /\ toCancel # None
  /\ ctxDone' = ctxDone \union {toCancel}
  /\ toCancel' = None
  /\ UNCHANGED <<closeVars, tables, inflight, slots, pc, finishVars, armed, wire>>

-----------------------------------------------------------------------------
(* The goroutine of a call.  Its deferred calls (slot, cleanup, wg.Done) are *)
(* one step: each only gives back what the others do not look at.            *)

\* A stream slot is free; and the same, off by one.
StreamSlotFree_OffByOne == Cardinality(streamSem) <= MaxStreams
StreamSlotFree == Cardinality(streamSem) < MaxStreams

GrantShared(c) ==
  /\ c \in SharedSlot
  /\ Cardinality(sem) < MaxUnary
  /\ sem' = sem \union {c}
  /\ UNCHANGED streamSem

GrantStream(c) ==
  /\ KindOf[c] = "stream"
  /\ StreamSlotFree
  /\ streamSem' = streamSem \union {c}
  /\ UNCHANGED sem

\* The handler starts once the call holds a slot.
AcquireSlot(c) ==
  /\ pc[c] = "waiting"
  /\ GrantShared(c) \/ GrantStream(c)
  /\ GoTo(c, "running")
  /\ UNCHANGED <<closeVars, entries, inflight, ctxDone, finishVars, armed, wire>>

\* The context of a waiting call is canceled; and what a wait would see of it
\* that looks only when a slot comes free.
Canceled_OnlyWithSlot(c) == c \in ctxDone /\ Cardinality(sem) < MaxUnary
Canceled(c) == c \in ctxDone

\* The other arm of the unary select: canceled while every slot is taken.
GiveUpWaiting(c) ==
  /\ pc[c] = "waiting"
  /\ KindOf[c] = "unary"
  /\ Canceled(c)
  /\ GoTo(c, "returned")
  /\ failed' = failed \union {c}
  /\ UNCHANGED <<closeVars, entries, inflight, slots, ctxDone, live, victim, armed, wire>>

\* The default arm of the stream select.
RejectOverload(c) ==
  /\ pc[c] = "waiting"
  /\ KindOf[c] = "stream"
  /\ ~StreamSlotFree
  /\ GoTo(c, "returned")
  /\ failed' = failed \union {c}
  /\ UNCHANGED <<closeVars, entries, inflight, slots, ctxDone, live, victim, armed, wire>>

\* cleanup's critical section, and wg.Done; and a goroutine that omits them.
DropEntry_Never(c) == UNCHANGED pending
DropEntry(c) == pending' = [pending EXCEPT ![IdOf[c]] = None]
WgDone_Never(c) == UNCHANGED inflight
WgDone(c) == inflight' = inflight \ {c}

\* A command canceled while it waits: cleanup, and no reply at all.
AbandonCommand(c) ==
  /\ pc[c] = "waiting"
  /\ c \in Commands
  /\ Canceled(c)
  /\ DropEntry(c)
  /\ WgDone(c)
  /\ GoTo(c, "exited")
  /\ UNCHANGED <<closeVars, calls, toCancel, slots, ctxDone, finishVars, armed, wire>>

\* The handler is at work, or has returned and left a goroutine behind.
MaySend(c) ==
  \/ pc[c] = "running"
  \/ c \in Leaky /\ pc[c] \in {"returned", "claimed", "fenced", "answered", "exited"}

\* RawStream.Send up to its fence; Stream.Chunk has none.
BeginSend(c) ==
  /\ c \in Rpcs \union Commands
  /\ c \notin armed
  /\ MaySend(c)
  /\ c \in Rpcs => c \notin ctxDone
  /\ Len(wire[c]) < MaxMsgs
  /\ armed' = armed \union {c}
  /\ UNCHANGED <<closeVars, entries, inflight, slots, ctxDone, pc, finishVars, wire>>

\* The write itself: the frame goes out under the call's id.
EndSend(c) ==
  /\ c \in armed
  /\ armed' = armed \ {c}
  /\ Put(c, "msg")
  /\ UNCHANGED <<closeVars, entries, inflight, slots, ctxDone, pc, finishVars>>

\* The handler returns: nil, an error, or a panic made into one.  A well-behaved
\* one has no Send under way.
HandlerReturn(c) ==
  /\ pc[c] = "running"
  /\ c \in Rpcs \union Commands
  /\ c \in Leaky \/ c \notin armed
  /\ GoTo(c, "returned")
  /\ failed' \in {failed, failed \union {c}}
  /\ UNCHANGED <<closeVars, entries, inflight, slots, ctxDone, live, victim, armed, wire>>

\* finishRPC's "live", read before it deletes the entries; and read after.
FindsCall_AfterDelete(c) == FALSE
FindsCall(c) == calls[IdOf[c]] # None

\* finishRPC's critical section.
FinishClaim(c) ==
  /\ pc[c] = "returned"
  /\ c \in Rpcs
  /\ live' = IF FindsCall(c) THEN live \union {c} ELSE live
  /\ victim' = [victim EXCEPT ![c] = pending[IdOf[c]]]
  /\ calls' = [calls EXCEPT ![IdOf[c]] = None]
  /\ pending' = [pending EXCEPT ![IdOf[c]] = None]
  /\ GoTo(c, "claimed")
  /\ UNCHANGED <<closeVars, toCancel, inflight, slots, ctxDone, failed, armed, wire>>

\* The context finishRPC found in pending, if it did; and the same, unchecked.
Found_Unchecked(c) == {victim[c]}
Found(c) == {victim[c]} \ {None}

\* finishRPC cancels the context before it says anything.
FinishFence(c) ==
  /\ pc[c] = "claimed"
  /\ ctxDone' = ctxDone \union Found(c)
  /\ GoTo(c, "fenced")
  /\ UNCHANGED <<closeVars, entries, inflight, slots, finishVars, armed, wire>>

Terminal(c) == IF c \in failed THEN "error" ELSE "done"

\* Whether finishRPC answers; and whether it would if it did not look.
Answers_Always(c) == TRUE
Answers(c) == c \in live

\* The terminal frame.
FinishEmit(c) ==
  /\ pc[c] = "fenced"
  /\ Answers(c)
  /\ GoTo(c, "answered")
  /\ Put(c, Terminal(c))
  /\ UNCHANGED <<closeVars, entries, inflight, slots, ctxDone, finishVars, armed>>

\* A command answers whether or not it was canceled.
CommandReply(c) ==
  /\ pc[c] = "returned"
  /\ c \in Commands
  /\ GoTo(c, "answered")
  /\ Put(c, Terminal(c))
  /\ UNCHANGED <<closeVars, entries, inflight, slots, ctxDone, finishVars, armed>>

\* A goroutine's locals end with it.
DropLocals(c) ==
  /\ failed' = failed \ {c}
  /\ live' = live \ {c}
  /\ victim' = [victim EXCEPT ![c] = None]

\* The deferred calls of an rpc: slot, then wg.Done.
ExitRPC(c) ==
  /\ c \in Rpcs
  /\ pc[c] = "answered" \/ (pc[c] = "fenced" /\ ~Answers(c))
  /\ sem' = sem \ {c}
  /\ streamSem' = streamSem \ {c}
  /\ WgDone(c)
  /\ DropLocals(c)
  /\ GoTo(c, "exited")
  /\ UNCHANGED <<closeVars, entries, ctxDone, armed, wire>>

\* The deferred calls of a command: slot, cleanup, wg.Done.
ExitCommand(c) ==
  /\ c \in Commands
  /\ pc[c] = "answered"
  /\ sem' = sem \ {c}
  /\ ctxDone' = ctxDone \union {c}
  /\ DropEntry(c)
  /\ WgDone(c)
  /\ DropLocals(c)
  /\ GoTo(c, "exited")
  /\ UNCHANGED <<closeVars, calls, toCancel, streamSem, armed, wire>>

ExitEvent(c) ==
  /\ KindOf[c] = "event"
  /\ pc[c] = "running"
  /\ WgDone(c)
  /\ GoTo(c, "exited")
  /\ UNCHANGED <<closeVars, entries, slots, ctxDone, finishVars, armed, wire>>

-----------------------------------------------------------------------------
(* Close.                                                                  *)

CloseBegin ==
  /\ closer = "idle"
  /\ closing' = TRUE
  /\ snapshot' = {pending[i] : i \in Ids} \ {None}
  /\ closer' = "cancelling"
  /\ UNCHANGED <<entries, inflight, slots, ctxDone, pc, finishVars, armed, wire>>

CloseCancel(c) ==
  /\ closer = "cancelling"
  /\ c \in snapshot
  /\ snapshot' = snapshot \ {c}
  /\ ctxDone' = ctxDone \union {c}
  /\ UNCHANGED <<closing, closer, entries, inflight, slots, pc, finishVars, armed, wire>>

CloseWait ==
  /\ closer = "cancelling"
  /\ snapshot = {}
  /\ closer' = "draining"
  /\ UNCHANGED <<closing, snapshot, entries, inflight, slots, ctxDone, pc, finishVars, armed, wire>>

CloseDrained ==
  /\ closer = "draining"
  /\ inflight = {}
  /\ closer' = "drained"
  /\ UNCHANGED <<closing, snapshot, entries, inflight, slots, ctxDone, pc, finishVars, armed, wire>>

CloseDeadline ==
  /\ closer = "draining"
  /\ closer' = "expired"
  /\ UNCHANGED <<closing, snapshot, entries, inflight, slots, ctxDone, pc, finishVars, armed, wire>>

-----------------------------------------------------------------------------
\* The read loop has done with the frame before.
AtNextFrame == toCancel = None

ReadLoop(c) ==
  /\ AtNextFrame
  /\ \/ RejectUnknown(c) \/ RefuseClosing(c)
     \/ OpenRPC(c) \/ DispatchCommand(c) \/ DispatchEvent(c)

Withdraw(i) == AtNextFrame /\ (CancelRPC(i) \/ Cancel(i))

Finish(c) == FinishClaim(c) \/ FinishFence(c) \/ FinishEmit(c) \/ CommandReply(c)

Exit(c) == ExitRPC(c) \/ ExitCommand(c) \/ ExitEvent(c)

Leave(c) == GiveUpWaiting(c) \/ AbandonCommand(c)

Goroutine(c) ==
  AcquireSlot(c) \/ Leave(c) \/ RejectOverload(c) \/ BeginSend(c) \/ EndSend(c)
    \/ HandlerReturn(c) \/ Finish(c) \/ Exit(c)

Close == CloseBegin \/ CloseWait \/ CloseDrained \/ CloseDeadline
           \/ \E c \in Calls : CloseCancel(c)

Next ==
  \/ \E c \in Calls : ReadLoop(c) \/ Goroutine(c)
  \/ \E i \in Ids : Withdraw(i)
  \/ CallCancel
  \/ Close

Spec == Init /\ [][Next]_vars

\* Fairness: the Go scheduler runs every goroutine; a slot that keeps coming
\* free reaches each waiter in turn (a channel serves its senders in order); a
\* handler whose context is canceled returns, as Recv and Send make it, and an
\* event handler returns.  Nothing forces a handler that was not canceled to
\* return, a frontend to send a frame, or a deadline to pass.
Fairness ==
  /\ \A c \in Calls :
       /\ SF_vars(AcquireSlot(c))
       /\ WF_vars(EndSend(c) \/ (c \in ctxDone /\ HandlerReturn(c))
                   \/ Leave(c) \/ RejectOverload(c) \/ Finish(c) \/ Exit(c))
  /\ WF_vars(CloseWait \/ CloseDrained \/ \E c \in Calls : CloseCancel(c))
  /\ WF_vars(CallCancel)

FairSpec == Spec /\ Fairness

-----------------------------------------------------------------------------
(* Properties.                                                             *)

\* No two calls carry one id: what holds while a Dispatcher serves one page load.
IdsUnique == \A c, d \in Calls : IdOf[c] = IdOf[d] => c = d

\* A terminal frame is still owed: finishRPC will find the calls entry, or found
\* it; a command was not canceled.
AnswerDue(c) ==
  \/ c \in Rpcs /\ (calls[IdOf[c]] = c \/ c \in live)
  \/ c \in Commands /\ c \notin ctxDone

\* How much of its contract with the frontend a call has fulfilled.
Phase(c) ==
  IF pc[c] = "new" THEN "new"
  ELSE IF pc[c] \in {"refused", "answered", "exited"} THEN "ended"
  ELSE IF AnswerDue(c) THEN "live" ELSE "withdrawn"

\* The dispatcher keeps the contract of every request: messages, then at most
\* one terminal frame, and silence after a cancel that came in time.
Contract == INSTANCE CallContract WITH
  Calls <- Requests,
  Insistent <- Commands,
  phase <- [c \in Requests |-> Phase(c)],
  wire <- [c \in Requests |-> wire[c]]
KeepsContract == Contract!Spec

\* No request gets a second terminal frame, nor a message after its terminal
\* frame, however its handler, a cancel and Close interleave: what KeepsContract
\* comes to for the frontend.
TerminalIsLast == Contract!TerminalIsLast

\* How far closing is, for the app that closes a window.
SurfaceGate == IF closer = "drained" THEN "drained" ELSE IF closing THEN "closing" ELSE "open"

\* To the app, which only opens, closes and waits, the dispatcher is a gate and a
\* count of goroutines: none is taken on behind a Close, and Close reports success
\* only when none is left.  This is what Lifecycle takes a window to be.
AsSurface == INSTANCE Surface WITH gate <- SurfaceGate, busy <- Cardinality(inflight)
KeepsSurface == AsSurface!Spec

\* Once Close has called its snapshot of cancel functions, no handler is at work,
\* or still waits for its slot, under a context that was not canceled, but for the
\* one whose cancel function the read loop holds and is about to call: cancelRPC
\* takes an entry out of pending before it calls it, and a Close that comes in
\* between no longer finds it.  finishRPC takes out none that Close still needed.
CloseReachesEveryHandler ==
  closer \in {"draining", "drained", "expired"} =>
    \A c \in Rpcs \union Commands :
      pc[c] \in {"waiting", "running"} => c \in ctxDone \/ c = toCancel

\* When Close reports success every goroutine is gone, so nothing is written to
\* the connection and no handler touches a module that is about to stop.
DrainedIsQuiet ==
  closer = "drained" =>
    /\ \A c \in Calls : pc[c] \in {"new", "refused", "exited"}
    /\ armed = {}

\* An id leads only to a call that is still under way: no entry outlives its
\* goroutine, so neither table grows over the life of a connection.
NoStaleEntry ==
  \A i \in Ids :
    /\ pending[i] # None => pending[i] \in inflight
    /\ calls[i] # None => InHandler(calls[i]) /\ pending[i] \in {calls[i], None}

\* Never more handlers at work than there are slots, whichever way calls leave
\* the queue: streams cannot take the slots of unary calls, nor the reverse.
SlotsBounded ==
  /\ Cardinality({c \in SharedSlot : pc[c] = "running"}) <= MaxUnary
  /\ Cardinality({c \in Calls : KindOf[c] = "stream" /\ pc[c] = "running"}) <= MaxStreams

\* stream.go on Send: "a handler that outlives its return can't emit a msg frame
\* after done".
NoMessageAfterTerminal ==
  \A c \in Rpcs : \A k \in 1..Len(wire[c]) :
    wire[c][k] # "msg" => k = Len(wire[c])

\* A call whose context is canceled leaves, even when every slot is held by
\* handlers that never return on their own.
CanceledLeaves ==
  \A c \in Rpcs \union Commands :
    (pc[c] \in {"waiting", "running"} /\ c \in ctxDone) ~> pc[c] = "exited"

\* Close never has to run into its deadline: what it canceled leaves, and it ends
\* by draining unless the deadline comes first.
CloseReturns == closer = "cancelling" ~> closer \in {"drained", "expired"}
=============================================================================

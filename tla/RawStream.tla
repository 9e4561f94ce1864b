------------------------------ MODULE RawStream ------------------------------
(***************************************************************************)
(* internal/ipc/stream.go: the client->server half of one stream.  The     *)
(* read loop feeds frames in and must never block; one handler takes them  *)
(* out with Recv, which does.  A critical section of rawStream.mu is one   *)
(* step, so the wake-up that follows a push and the select that follows a  *)
(* fruitless look at the queue are steps of their own.  Frames are         *)
(* numbered in the order the client sends them.                            *)
(***************************************************************************)
EXTENDS Naturals, Sequences

CONSTANTS
  MaxQueued,  \* maxQueuedFrames
  MaxFrames   \* bound of the model: frames the client sends

ASSUME BoundsAssumption == MaxQueued \in Nat /\ MaxFrames \in Nat

VARIABLES
  queue,      \* rawStream.queue
  closed,     \* rawStream.closed: the client sent its end frame
  overflow,   \* rawStream.overflow
  sig,        \* rawStream.sig: whether its one-place buffer is full
  canceled,   \* rawStream.ctx is done
  feeder,     \* the read loop: between frames, or about to wake the handler
  recv,       \* the handler: out of Recv, about to look, or past the look
  saw,        \* Recv's locals: what its look at an empty queue found
  offered,    \* frames the client sent before its end frame
  got,        \* what Recv has returned, oldest first
  verdict     \* the error the last Recv returned, if it did

feederVars == <<feeder, offered>>
recvVars == <<recv, saw, got, verdict>>
vars == <<queue, closed, overflow, sig, canceled, feederVars, recvVars>>

TypeOK ==
  /\ queue \in Seq(Nat) /\ got \in Seq(Nat) /\ offered \in Nat
  /\ closed \in BOOLEAN /\ overflow \in BOOLEAN
  /\ sig \in BOOLEAN /\ canceled \in BOOLEAN
  /\ feeder \in {"idle", "waking"}
  /\ recv \in {"out", "looking", "looked"}
  /\ saw \in {"nothing", "overflow", "closed"}
  /\ verdict \in {"none", "overflow", "eof", "canceled"}

Init ==
  /\ queue = <<>> /\ got = <<>> /\ offered = 0
  /\ closed = FALSE /\ overflow = FALSE /\ sig = FALSE /\ canceled = FALSE
  /\ feeder = "idle" /\ recv = "out" /\ saw = "nothing" /\ verdict = "none"

-----------------------------------------------------------------------------
(* The read loop: one data or end frame at a time.                         *)

\* The same, but an overflow is forgotten once the queue has room again.
Enqueue_NotSticky(frame) ==
  IF closed THEN UNCHANGED <<queue, overflow>>
  ELSE IF Len(queue) >= MaxQueued THEN overflow' = TRUE /\ UNCHANGED queue
  ELSE queue' = Append(queue, frame) /\ UNCHANGED overflow

\* push's critical section: a frame that finds the queue full condemns the
\* stream, and one that comes after the end, or after that, is dropped.
Enqueue(frame) ==
  IF closed \/ overflow THEN UNCHANGED <<queue, overflow>>
  ELSE IF Len(queue) >= MaxQueued THEN overflow' = TRUE /\ UNCHANGED queue
  ELSE queue' = Append(queue, frame) /\ UNCHANGED overflow

\* After either the handler is woken; and a read loop that forgets to.
ThenWake_Forgotten == feeder' = "idle"
ThenWake == feeder' = "waking"

Push ==
  /\ feeder = "idle"
  /\ offered < MaxFrames
  /\ Enqueue(offered + 1)
  /\ offered' = IF closed THEN offered ELSE offered + 1
  /\ ThenWake
  /\ UNCHANGED <<closed, sig, canceled, recvVars>>

CloseSend ==
  /\ feeder = "idle"
  /\ closed' = TRUE
  /\ ThenWake
  /\ UNCHANGED <<queue, overflow, sig, canceled, offered, recvVars>>

\* A full buffer is left as it is.
Wake ==
  /\ feeder = "waking"
  /\ sig' = TRUE
  /\ feeder' = "idle"
  /\ UNCHANGED <<queue, closed, overflow, canceled, offered, recvVars>>

\* The dispatcher cancels the call's context.
Cancel ==
  /\ ~canceled
  /\ canceled' = TRUE
  /\ UNCHANGED <<queue, closed, overflow, sig, feederVars, recvVars>>

-----------------------------------------------------------------------------
(* The handler.                                                            *)

Call ==
  /\ recv = "out"
  /\ recv' = "looking"
  /\ UNCHANGED <<queue, closed, overflow, sig, canceled, feederVars, saw, got, verdict>>

\* Recv's critical section, when there is a frame to return.
Take ==
  /\ recv = "looking"
  /\ queue # <<>>
  /\ queue' = Tail(queue)
  /\ got' = Append(got, Head(queue))
  /\ verdict' = "none"
  /\ recv' = "out"
  /\ UNCHANGED <<closed, overflow, sig, canceled, feederVars, saw>>

\* What the look found: an overflow comes before the end.  And the reverse.
Found_EndFirst == IF closed THEN "closed" ELSE IF overflow THEN "overflow" ELSE "nothing"
Found == IF overflow THEN "overflow" ELSE IF closed THEN "closed" ELSE "nothing"

\* The same, when there is none.
FindNothing ==
  /\ recv = "looking"
  /\ queue = <<>>
  /\ saw' = Found
  /\ recv' = "looked"
  /\ UNCHANGED <<queue, closed, overflow, sig, canceled, feederVars, got, verdict>>

Return(outcome) ==
  /\ verdict' = outcome
  /\ recv' = "out"
  /\ UNCHANGED <<queue, closed, overflow, sig, canceled, feederVars, saw, got>>

\* An end that is reported as what the look found, not as io.EOF.
ReturnEOF_Raw == recv = "looked" /\ saw = "closed" /\ Return(saw)

ReturnOverflow == recv = "looked" /\ saw = "overflow" /\ Return("overflow")
ReturnEOF == recv = "looked" /\ saw = "closed" /\ Return("eof")

\* A wait that looks at the context only when it is woken.
ReturnCanceled_OnceWoken ==
  recv = "looked" /\ saw = "nothing" /\ sig /\ canceled /\ Return("canceled")

\* The two arms of the select; either may be taken when both are ready.
ReturnCanceled == recv = "looked" /\ saw = "nothing" /\ canceled /\ Return("canceled")

LookAgain ==
  /\ recv = "looked"
  /\ saw = "nothing"
  /\ sig
  /\ sig' = FALSE
  /\ recv' = "looking"
  /\ UNCHANGED <<queue, closed, overflow, canceled, feederVars, saw, got, verdict>>

Recv ==
  Take \/ FindNothing \/ ReturnOverflow \/ ReturnEOF \/ ReturnCanceled \/ LookAgain

Next == Push \/ CloseSend \/ Wake \/ Cancel \/ Call \/ Recv

Spec == Init /\ [][Next]_vars

\* Fairness: the read loop finishes the frame it is on, and a handler that is in
\* Recv is scheduled.  The handler itself calls Recv again until it is told to
\* stop; nothing makes a client send, end, or a call be canceled.
Fairness == WF_vars(Wake) /\ WF_vars(verdict = "none" /\ Call) /\ WF_vars(Recv)

FairSpec == Spec /\ Fairness

-----------------------------------------------------------------------------
(* Properties.                                                             *)

\* What the handler received and what waits for it are, in order and without a
\* gap, the first frames the client sent, whatever was dropped behind them.
NoGap ==
  \A k \in 1..(Len(got) + Len(queue)) : (got \o queue)[k] = k

\* A handler is told that the client finished only after it received every frame
\* that the client sent before its end: a backlog that overflowed is never
\* passed off as a complete one.
EOFIsComplete == verdict = "eof" => Len(got) = offered

\* No wake-up is lost between the handler's look at the queue and its wait: when
\* there is something for it and the read loop is done, the wait ends at once.
NoLostWakeup ==
  (recv = "looked" /\ saw = "nothing" /\ feeder = "idle"
     /\ (queue # <<>> \/ closed \/ overflow)) => sig

\* An end, an overflow or a cancel reaches a handler that goes on asking, and
\* everything that was queued reaches it first, unless it was canceled.
HandlerIsTold ==
  /\ (closed \/ overflow \/ canceled) ~> verdict # "none"
  /\ \A n \in 1..MaxFrames :
       (Len(got) + Len(queue) >= n /\ ~canceled) ~> (Len(got) >= n \/ canceled)
=============================================================================

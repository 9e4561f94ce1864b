--------------------------- MODULE RawStreamProofs ---------------------------
(***************************************************************************)
(* Theorems about RawStream, for any backlog bound and any number of       *)
(* frames: what the handler receives has no gap, an end of stream is only  *)
(* reported after the last frame, and no wake-up is lost.                  *)
(***************************************************************************)
EXTENDS RawStream, TLAPS

\* The frames received, then the frames queued, are numbered on end.
GotFits == \A k \in 1..Len(got) : got[k] = k
QueueFits == \A k \in 1..Len(queue) : queue[k] = Len(got) + k

\* Nothing was dropped unless the stream overflowed.
CountFits == ~overflow => Len(got) + Len(queue) = offered

\* What the handler learnt about the end is final.
EndFits ==
  /\ recv = "looked" /\ saw = "closed" => closed /\ ~overflow /\ queue = <<>>
  /\ verdict = "eof" => closed /\ ~overflow /\ queue = <<>>

\* A handler that found nothing will be woken for what came since.
WakeFits ==
  recv = "looked" /\ saw = "nothing" /\ (queue # <<>> \/ closed \/ overflow) =>
    sig \/ feeder = "waking"

IInv == TypeOK /\ GotFits /\ QueueFits /\ CountFits /\ EndFits /\ WakeFits

LEMMA InitIInv == Init => IInv
  <1> SUFFICES ASSUME Init PROVE IInv
    OBVIOUS
  <1>1. queue \in Seq(Nat) /\ got \in Seq(Nat) /\ Len(queue) = 0 /\ Len(got) = 0
    BY DEF Init
  <1>2. TypeOK
    BY <1>1 DEF Init, TypeOK
  <1>3. GotFits /\ QueueFits /\ CountFits
    BY <1>1 DEF Init, GotFits, QueueFits, CountFits
  <1>4. EndFits /\ WakeFits
    BY DEF Init, EndFits, WakeFits
  <1>5. QED
    BY <1>2, <1>3, <1>4 DEF IInv

\* A frame that is kept takes the next number.
LEMMA EnqueueFits ==
  ASSUME IInv, Enqueue(offered + 1), got' = got
  PROVE  /\ queue' \in Seq(Nat) /\ overflow' \in BOOLEAN
         /\ QueueFits'
         /\ closed => queue' = queue /\ overflow' = overflow
         /\ ~closed /\ ~overflow' => Len(queue') = Len(queue) + 1 /\ ~overflow
  <1> USE DEF IInv, TypeOK, QueueFits, CountFits
  <1>1. CASE UNCHANGED <<queue, overflow>> /\ (closed \/ overflow)
    BY <1>1
  <1>2. CASE overflow' = TRUE /\ UNCHANGED queue /\ ~closed
    BY <1>2
  <1>3. CASE queue' = Append(queue, offered + 1) /\ UNCHANGED overflow /\ ~closed /\ ~overflow
    <2>1. queue' \in Seq(Nat) /\ Len(queue') = Len(queue) + 1
      BY <1>3
    <2>2. \A k \in 1..Len(queue') : queue'[k] = Len(got) + k
      BY <1>3, <2>1
    <2>3. QED
      BY <1>3, <2>1, <2>2
  <1>4. QED
    BY <1>1, <1>2, <1>3 DEF Enqueue

LEMMA StepIInv == IInv /\ [Next]_vars => IInv'
  <1> SUFFICES ASSUME IInv, [Next]_vars PROVE IInv'
    OBVIOUS
  <1> USE DEF IInv, TypeOK, GotFits, QueueFits, CountFits, EndFits, WakeFits, feederVars, recvVars, ThenWake, Found
  <1>1. CASE Push
    <2>1. /\ queue' \in Seq(Nat) /\ overflow' \in BOOLEAN
          /\ QueueFits'
          /\ closed => queue' = queue /\ overflow' = overflow
          /\ ~closed /\ ~overflow' => Len(queue') = Len(queue) + 1 /\ ~overflow
      BY <1>1, EnqueueFits DEF Push
    <2>2. TypeOK' /\ GotFits' /\ WakeFits'
      BY <1>1, <2>1 DEF Push
    <2>3. EndFits'
      BY <1>1, <2>1 DEF Push
    <2>4. CountFits'
      BY <1>1, <2>1 DEF Push
    <2>5. QED
      BY <2>1, <2>2, <2>3, <2>4
  <1>2. CASE CloseSend
    BY <1>2 DEF CloseSend
  <1>3. CASE Wake
    BY <1>3 DEF Wake
  <1>4. CASE Cancel
    BY <1>4 DEF Cancel
  <1>5. CASE Call
    BY <1>5 DEF Call
  <1>6. CASE Take
    <2>1. /\ Head(queue) = Len(got) + 1
          /\ Len(queue') = Len(queue) - 1 /\ queue' \in Seq(Nat)
          /\ \A k \in 1..Len(queue') : queue'[k] = queue[k + 1]
      BY <1>6 DEF Take
    <2>2. /\ got' \in Seq(Nat) /\ Len(got') = Len(got) + 1
          /\ \A k \in 1..Len(got') : got'[k] = k
      BY <1>6, <2>1 DEF Take
    <2>3. QueueFits'
      BY <2>1, <2>2
    <2>4. CountFits'
      <3>1. overflow' = overflow /\ offered' = offered
        BY <1>6 DEF Take
      <3>2. Len(got') + Len(queue') = Len(got) + Len(queue)
        <4>1. Len(got) \in Nat /\ Len(queue) \in Nat
          OBVIOUS
        <4>2. QED
          BY <2>1, <2>2, <4>1
      <3>3. QED
        BY <3>1, <3>2
    <2>5. TypeOK'
      BY <1>6, <2>1, <2>2 DEF Take
    <2>6. EndFits' /\ WakeFits'
      BY <1>6 DEF Take
    <2>7. QED
      BY <2>2, <2>3, <2>4, <2>5, <2>6
  <1>7. CASE FindNothing
    <2>1. TypeOK' /\ GotFits' /\ QueueFits' /\ CountFits'
      BY <1>7 DEF FindNothing
    <2>2. EndFits'
      BY <1>7 DEF FindNothing
    <2>3. WakeFits'
      BY <1>7 DEF FindNothing
    <2>4. QED
      BY <2>1, <2>2, <2>3
  <1>8. CASE ReturnOverflow \/ ReturnEOF \/ ReturnCanceled
    <2> USE DEF ReturnOverflow, ReturnEOF, ReturnCanceled, Return
    <2>1. TypeOK' /\ GotFits' /\ QueueFits' /\ CountFits'
      BY <1>8
    <2>2. EndFits' /\ WakeFits'
      BY <1>8
    <2>3. QED
      BY <2>1, <2>2
  <1>9. CASE LookAgain
    BY <1>9 DEF LookAgain
  <1>10. CASE UNCHANGED vars
    BY <1>10 DEF vars
  <1>11. QED
    BY <1>1, <1>2, <1>3, <1>4, <1>5, <1>6, <1>7, <1>8, <1>9, <1>10 DEF Next, Recv

LEMMA Invariant == Spec => []IInv
  BY InitIInv, StepIInv, PTL DEF Spec

-----------------------------------------------------------------------------
\* What Recv returns is an unbroken prefix of what the client sent, however push,
\* overflow and Recv interleave.
THEOREM ReceivedWithoutGap == Spec => []NoGap
  <1>1. IInv => NoGap
    <2> SUFFICES ASSUME IInv, NEW k \in 1..(Len(got) + Len(queue))
                 PROVE  (got \o queue)[k] = k
      BY DEF NoGap
    <2> USE DEF IInv, TypeOK, GotFits, QueueFits
    <2>1. CASE k \in 1..Len(got)
      BY <2>1
    <2>2. CASE k \notin 1..Len(got)
      <3>1. (got \o queue)[k] = queue[k - Len(got)] /\ k - Len(got) \in 1..Len(queue)
        BY <2>2
      <3>2. QED
        BY <3>1
    <2>3. QED
      BY <2>1, <2>2
  <1>2. QED
    BY Invariant, <1>1, PTL

\* Recv reports io.EOF only to a handler that has every frame sent before the end.
THEOREM EOFComplete == Spec => []EOFIsComplete
  <1>1. IInv => EOFIsComplete
    BY DEF IInv, TypeOK, CountFits, EndFits, EOFIsComplete
  <1>2. QED
    BY Invariant, <1>1, PTL

\* The window between Recv's unlock and its select loses no wake-up.
THEOREM WakeupKept == Spec => []NoLostWakeup
  <1>1. IInv => NoLostWakeup
    BY DEF IInv, WakeFits, NoLostWakeup
  <1>2. QED
    BY Invariant, <1>1, PTL

\* The queue and what was received are lists of frames, and receiver and feeder
\* are always at a known step.
THEOREM StreamTyped == Spec => []TypeOK
  <1>1. IInv => TypeOK
    BY DEF IInv
  <1>2. QED
    BY Invariant, <1>1, PTL
=============================================================================

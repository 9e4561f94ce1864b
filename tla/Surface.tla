------------------------------- MODULE Surface -------------------------------
(***************************************************************************)
(* What the app counts on when it closes a window: work is taken on only   *)
(* before the first Close, what was taken on goes on until it ends, and a  *)
(* Close that reports success found nothing at work.  A Close whose        *)
(* deadline passes promises nothing, and a Close may come again.           *)
(*                                                                         *)
(* Dispatcher implements it with a wait group (internal/ipc/native.go),    *)
(* and a window of Lifecycle is one of these and no more: the place where  *)
(* the two modules meet.                                                   *)
(***************************************************************************)
EXTENDS Naturals

VARIABLES
  gate,   \* "shut" before there is a dispatcher; "open"; "closing"; or "drained"
          \* once a Close reported success
  busy    \* how many goroutines are at work

Init == gate \in {"shut", "open"} /\ busy = 0

Open ==
  /\ gate = "shut"
  /\ gate' = "open"
  /\ UNCHANGED busy

Accept ==
  /\ gate = "open"
  /\ busy' = busy + 1
  /\ UNCHANGED gate

Finish ==
  /\ busy > 0
  /\ busy' = busy - 1
  /\ UNCHANGED gate

\* The first Close, or another one after it.
Close ==
  /\ gate \in {"open", "drained"}
  /\ gate' = "closing"
  /\ UNCHANGED busy

Drained ==
  /\ gate = "closing"
  /\ busy = 0
  /\ gate' = "drained"
  /\ UNCHANGED busy

Next == Open \/ Accept \/ Finish \/ Close \/ Drained

Spec == Init /\ [][Next]_<<gate, busy>>
=============================================================================

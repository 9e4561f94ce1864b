---------------------------- MODULE MCDispatcher ----------------------------
(***************************************************************************)
(* Small instances of Dispatcher for TLC.  Two calls at a time are made,   *)
(* chosen so that each pair meets in something: the unary call and the     *)
(* command share a slot, the two streams another, the event runs beside a  *)
(* command that Close waits for, and a stream beside a rejected call.      *)
(***************************************************************************)
EXTENDS Dispatcher, TLC

CONSTANTS u1, s1, s2, k1, e1, n1

MixCalls == {u1, s1, s2, k1, e1, n1}
MixKindOf ==
  [c \in MixCalls |->
     CASE c = u1 -> "unary" [] c \in {s1, s2} -> "stream" [] c = k1 -> "command"
       [] c = e1 -> "event" [] c = n1 -> "unknown"]

\* Every call has an id of its own: the call itself.
OwnId == [c \in MixCalls |-> c]

Pairs == {{u1, k1}, {s1, s2}, {k1, e1}, {s1, n1}}
PairIssued == \E p \in Pairs : {c \in Calls : pc'[c] # "new"} \subseteq p

\* Bound of the instance: of two calls in one kind of slot, one sends a message.
OneTalks == {u1, s2} \cap armed' = {}

MCSpec == Init /\ [][Next /\ PairIssued /\ OneTalks]_vars
MCFairSpec == MCSpec /\ Fairness
=============================================================================

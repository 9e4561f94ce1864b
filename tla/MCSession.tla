------------------------------ MODULE MCSession ------------------------------
(* Small instances of Session for TLC: two ids, and for each a choice of what *)
(* the page uses it for.                                                      *)
EXTENDS Session, TLC

CONSTANTS s1, k1, s2, u2

TwoIds == {1, 2}
PageCalls == {s1, k1, s2, u2}
PageIdOf == [c \in PageCalls |-> IF c \in {s1, k1} THEN 1 ELSE 2]
PageKindOf ==
  [c \in PageCalls |->
     CASE c \in {s1, s2} -> "stream" [] c = k1 -> "command" [] c = u2 -> "unary"]
=============================================================================

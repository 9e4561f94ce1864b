------------------------- MODULE CallContractProofs -------------------------
(* What the contract of a request entails, for any set of requests. *)
EXTENDS CallContract, TLAPS

CInv == TypeOK /\ TerminalIsLast /\ AnsweredHasEnded

\* Appending a frame adds it at the end and leaves the others where they were.
LEMMA PutLast ==
  ASSUME NEW S, wire \in [Calls -> Seq(S)], NEW c \in Calls, NEW f \in S, Put(c, f)
  PROVE  /\ wire' \in [Calls -> Seq(S)]
         /\ Len(wire'[c]) = Len(wire[c]) + 1
         /\ wire'[c][Len(wire'[c])] = f
         /\ \A k \in 1..Len(wire[c]) : wire'[c][k] = wire[c][k]
         /\ \A d \in Calls \ {c} : wire'[d] = wire[d]
  <1>1. wire'[c] = Append(wire[c], f) /\ \A d \in Calls \ {c} : wire'[d] = wire[d]
    BY DEF Put
  <1>2. wire[c] \in Seq(S) /\ Append(wire[c], f) \in Seq(S)
    OBVIOUS
  <1>3. wire' \in [Calls -> Seq(S)]
    BY <1>2 DEF Put
  <1>4. QED
    BY <1>1, <1>2, <1>3

LEMMA InitCInv == Init => CInv
  <1> SUFFICES ASSUME Init PROVE CInv
    OBVIOUS
  <1>1. wire \in [Calls -> Seq(Frames)] /\ \A c \in Calls : Len(wire[c]) = 0
    BY DEF Init
  <1>2. QED
    BY <1>1 DEF Init, CInv, TypeOK, TerminalIsLast, AnsweredHasEnded, Phases

\* A step that appends one frame to a request that has not ended keeps the
\* invariant, provided a terminal frame ends the request.
LEMMA PutKeeps ==
  ASSUME CInv, NEW c \in Calls, NEW f \in Frames, Put(c, f), phase[c] # "ended",
         phase' \in [Calls -> Phases],
         \A d \in Calls \ {c} : phase'[d] = phase[d],
         f \in Terminals => phase'[c] = "ended"
  PROVE  CInv'
  <1> USE DEF CInv, TypeOK, TerminalIsLast, AnsweredHasEnded
  <1>1. /\ wire' \in [Calls -> Seq(Frames)]
        /\ Len(wire'[c]) = Len(wire[c]) + 1
        /\ wire'[c][Len(wire'[c])] = f
        /\ \A k \in 1..Len(wire[c]) : wire'[c][k] = wire[c][k]
        /\ \A d \in Calls \ {c} : wire'[d] = wire[d]
    BY PutLast
  <1>2. Len(wire[c]) \in Nat /\ \A k \in 1..Len(wire[c]) : wire[c][k] \notin Terminals
    OBVIOUS
  <1>3. \A k \in 1..Len(wire'[c]) : k \in 1..Len(wire[c]) \/ k = Len(wire'[c])
    BY <1>1, <1>2
  <1>4. \A k \in 1..Len(wire'[c]) :
          wire'[c][k] \in Terminals => k = Len(wire'[c]) /\ f \in Terminals
    BY <1>1, <1>2, <1>3
  <1>5. QED
    BY ZenonT(40), <1>1, <1>4

LEMMA StepCInv == CInv /\ [Next]_<<phase, wire>> => CInv'
  <1> SUFFICES ASSUME CInv, [Next]_<<phase, wire>> PROVE CInv'
    OBVIOUS
  <1>1. ASSUME NEW c \in Calls, Begin(c) \/ Ignore(c) \/ Withdraw(c) \/ Leave(c) PROVE CInv'
    <2>1. /\ phase' \in [Calls -> Phases]
          /\ phase[c] # "ended"
          /\ wire' = wire
          /\ \A d \in Calls \ {c} : phase'[d] = phase[d]
      BY <1>1 DEF Begin, Ignore, Withdraw, Leave, Move, CInv, TypeOK, Phases
    <2>2. QED
      BY <2>1 DEF CInv, TypeOK, TerminalIsLast, AnsweredHasEnded
  <1>2. ASSUME NEW c \in Calls, Reject(c) PROVE CInv'
    BY <1>2, PutKeeps DEF Reject, Move, Frames, Terminals, Phases, CInv, TypeOK
  <1>3. ASSUME NEW c \in Calls, Message(c) PROVE CInv'
    BY <1>3, PutKeeps DEF Message, Frames, Terminals, CInv, TypeOK
  <1>4. ASSUME NEW c \in Calls, Answer(c) PROVE CInv'
    BY <1>4, PutKeeps DEF Answer, Move, Frames, Phases, CInv, TypeOK
  <1>5. CASE UNCHANGED <<phase, wire>>
    BY <1>5 DEF CInv, TypeOK, TerminalIsLast, AnsweredHasEnded
  <1>6. QED
    BY <1>1, <1>2, <1>3, <1>4, <1>5 DEF Next

\* A request that is served under the contract gets at most one terminal frame,
\* and nothing after it: what scorix.js relies on when it forgets an id at the
\* first "done" or "error".
THEOREM TerminalFrameIsLast == Spec => []TerminalIsLast
  <1>1. CInv => TerminalIsLast
    BY DEF CInv
  <1>2. QED
    BY InitCInv, StepCInv, <1>1, PTL DEF Spec
=============================================================================

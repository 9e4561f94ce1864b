---------------------------- MODULE CallContract ----------------------------
(***************************************************************************)
(* What the runtime promises the frontend about each request it sends:     *)
(* the frames that carry the request's id are some messages followed by at *)
(* most one terminal frame, and a request that was withdrawn before its    *)
(* answer was decided never gets one.  Nothing is said of goroutines,      *)
(* tables or slots: Dispatcher is shown to implement this module.          *)
(***************************************************************************)
EXTENDS Sequences, Naturals

CONSTANTS Calls,      \* the requests a frontend makes
          Insistent   \* those whose answer a withdrawal does not suppress

VARIABLES phase,      \* how far each request is
          wire        \* the frames sent for each request, oldest first

Phases == {"new", "live", "withdrawn", "ended"}
Terminals == {"done", "error"}
Frames == {"msg"} \union Terminals

Init ==
  /\ phase = [c \in Calls |-> "new"]
  /\ wire = [c \in Calls |-> <<>>]

Move(c, to) == phase' = [phase EXCEPT ![c] = to]
Put(c, frame) == wire' = [wire EXCEPT ![c] = Append(@, frame)]

\* The request is taken on.
Begin(c) == phase[c] = "new" /\ Move(c, "live") /\ UNCHANGED wire

\* The request is dropped without a word: the connection is going away.
Ignore(c) == phase[c] = "new" /\ Move(c, "ended") /\ UNCHANGED wire

\* The request names nothing that could serve it.
Reject(c) == phase[c] = "new" /\ Move(c, "ended") /\ Put(c, "error")

\* A handler that is still at work sends a message.
Message(c) ==
  /\ phase[c] \in {"live", "withdrawn"}
  /\ Put(c, "msg")
  /\ UNCHANGED phase

\* Nobody waits for the answer any longer.
Withdraw(c) == phase[c] = "live" /\ Move(c, "withdrawn") /\ UNCHANGED wire

\* The one terminal frame.
Answer(c) ==
  /\ phase[c] = "live" \/ (phase[c] = "withdrawn" /\ c \in Insistent)
  /\ Move(c, "ended")
  /\ \E t \in Terminals : Put(c, t)

\* A withdrawn request ends in silence.
Leave(c) == phase[c] = "withdrawn" /\ Move(c, "ended") /\ UNCHANGED wire

Next ==
  \E c \in Calls :
    Begin(c) \/ Ignore(c) \/ Reject(c) \/ Message(c)
      \/ Withdraw(c) \/ Answer(c) \/ Leave(c)

Spec == Init /\ [][Next]_<<phase, wire>>

TypeOK ==
  /\ phase \in [Calls -> Phases]
  /\ wire \in [Calls -> Seq(Frames)]

\* A terminal frame is the last frame of its request: no message and no
\* second terminal frame follows it.
TerminalIsLast ==
  \A c \in Calls : \A k \in 1..Len(wire[c]) :
    wire[c][k] \in Terminals => k = Len(wire[c])

\* A terminal frame is on the wire only once the request has ended.
AnsweredHasEnded ==
  \A c \in Calls : \A k \in 1..Len(wire[c]) :
    wire[c][k] \in Terminals => phase[c] = "ended"
=============================================================================

------------------------------- MODULE Session -------------------------------
(***************************************************************************)
(* One native window: the page's bridge (app/scorix.js) and the Dispatcher *)
(* behind it, joined by the two ordered channels of the webview.  The page *)
(* numbers its calls from 1, keeps one consumer per id, and forgets the id *)
(* at the first terminal frame; what it does to a call that is already     *)
(* over, or the reverse, crosses on the way.                               *)
(*                                                                         *)
(* A reload gives the window a fresh page, which numbers its calls from 1  *)
(* again, while the Dispatcher lives on: ReloadSpec adds that step.        *)
(***************************************************************************)
EXTENDS Dispatcher

CONSTANTS
  MaxFeeds   \* bound of the model: data frames a page sends after its opens

ASSUME SessionAssumption == Ids \subseteq Nat /\ MaxFeeds \in Nat

VARIABLES
  seq,       \* scorix.js: seq
  consumer,  \* scorix.js: streams and pending, whose call waits behind an id
  here,      \* the calls whose objects the current page holds
  settled,   \* how each call ended for the page
  fed,       \* data frames sent
  up,        \* frames on the way from the page to the dispatcher
  down       \* frames on the way back, with the call that sent each

pageVars == <<seq, consumer, here, settled, fed>>
sessionVars == <<vars, pageVars, up, down>>

Outcomes == {"none", "done", "error", "notice", "foreign", "withdrawn", "gone"}

SessionTypeOK ==
  /\ seq \in Nat /\ fed \in Nat
  /\ consumer \in [Ids -> Calls \union {None}]
  /\ here \subseteq Calls
  /\ settled \in [Calls -> Outcomes]
  /\ up \in Seq([op : {"open", "data", "cancel"}, call : Calls])
  /\ down \in Seq([by : Calls, state : Frames \union {"notice"}])

SessionInit ==
  /\ Init
  /\ seq = 0 /\ fed = 0 /\ here = {} /\ up = <<>> /\ down = <<>>
  /\ consumer = [i \in Ids |-> None]
  /\ settled = [c \in Calls |-> "none"]

-----------------------------------------------------------------------------
(* The page.                                                               *)

Post(op, c) == up' = Append(up, [op |-> op, call |-> c])
Settle(c, outcome) == settled' = [settled EXCEPT ![c] = outcome]
\* The id is deleted from its map; and one that is overwritten instead.
Forget_Overwrite(i) == consumer' = [consumer EXCEPT ![i] = "undefined"]
Forget(i) == consumer' = [consumer EXCEPT ![i] = None]
\* nextId; and one that forgets to count.
NextSeq_Stuck == seq
NextSeq == seq + 1

\* invoke, serverStream, duplex or emit.
Issue(c) ==
  /\ pc[c] = "new" /\ c \notin here /\ settled[c] = "none"
  /\ IdOf[c] = seq + 1
  /\ seq' = NextSeq
  /\ here' = here \union {c}
  /\ consumer' = [consumer EXCEPT ![IdOf[c]] = IF c \in Requests THEN c ELSE @]
  /\ Post("open", c)
  /\ UNCHANGED <<vars, settled, fed, down>>

\* duplex.send does not look whether the stream has ended.
Feed(c) ==
  /\ c \in here
  /\ KindOf[c] = "stream"
  /\ fed < MaxFeeds
  /\ fed' = fed + 1
  /\ Post("data", c)
  /\ UNCHANGED <<vars, seq, consumer, here, settled, down>>

\* A timeout that deletes the entry without rejecting the promise.
Withdrawal_Unrejected(c) ==
  /\ c \in here
  /\ consumer[IdOf[c]] = c
  /\ Forget(IdOf[c])
  /\ Post("cancel", c)
  /\ UNCHANGED <<vars, seq, here, settled, fed, down>>

\* A stream's cancel, or an invoke's timeout.
Withdrawal(c) ==
  /\ c \in here
  /\ consumer[IdOf[c]] = c
  /\ Forget(IdOf[c])
  /\ Settle(c, "withdrawn")
  /\ Post("cancel", c)
  /\ UNCHANGED <<vars, seq, here, fed, down>>

\* Whether a frame ends the call that waits behind its id.  An rpc frame only
\* looks for a stream; a command frame ends a stream as a protocol mismatch.
Ends(f, c) ==
  /\ c # None
  /\ IF f.by \in Rpcs THEN c \in Rpcs /\ f.state # "msg"
     ELSE c \in Rpcs \/ f.state # "msg"

\* dispatch.
Deliver ==
  /\ down # <<>>
  /\ down' = Tail(down)
  /\ LET f == Head(down)
         c == consumer[IdOf[f.by]]
     IN \/ /\ Ends(f, c)
           /\ Settle(c, IF f.by = c THEN f.state ELSE "foreign")
           /\ Forget(IdOf[f.by])
        \/ /\ ~Ends(f, c)
           /\ UNCHANGED <<consumer, settled>>
  /\ UNCHANGED <<vars, seq, here, fed, up>>

\* location.reload(): a fresh page; what was on its way to the old one is lost.
Reload ==
  /\ here # {}
  /\ seq' = 0 /\ here' = {} /\ down' = <<>>
  /\ consumer' = [i \in Ids |-> None]
  /\ settled' = [c \in Calls |-> IF c \in here /\ settled[c] = "none" THEN "gone" ELSE settled[c]]
  /\ UNCHANGED <<vars, fed, up>>

-----------------------------------------------------------------------------
(* The dispatcher, with what it sends put on the channel.                  *)

Relay(c) ==
  IF wire'[c] = wire[c] THEN UNCHANGED down
  ELSE down' = Append(down, [by |-> c, state |-> wire'[c][Len(wire'[c])]])

\* feedRPC for a stream that is gone answers "stream closed".
ServeData(c) ==
  /\ IF FeedFindsNothing(IdOf[c]) THEN down' = Append(down, [by |-> c, state |-> "notice"])
     ELSE UNCHANGED down
  /\ UNCHANGED vars

\* cancelRPC for a stream, the kindless cancel for a command.
ServeCancel(c) ==
  LET i == IdOf[c] IN
  /\ \/ c \in Rpcs /\ CancelRPC(i)
     \/ c \notin Rpcs /\ Cancel(i)
     \/ calls[i] = None /\ pending[i] = None /\ UNCHANGED vars
  /\ UNCHANGED down

\* The read loop takes one frame, when it is done with the one before.
Serve ==
  /\ AtNextFrame
  /\ up # <<>>
  /\ up' = Tail(up)
  /\ LET f == Head(up) IN
       \/ f.op = "open" /\ ReadLoop(f.call) /\ Relay(f.call)
       \/ f.op = "data" /\ ServeData(f.call)
       \/ f.op = "cancel" /\ ServeCancel(f.call)
  /\ UNCHANGED pageVars

\* The rest of a cancel frame, after the unlock.
ServeCallCancel == CallCancel /\ UNCHANGED <<pageVars, up, down>>

\* A step of a call's goroutine.
Serving(A, c) == A /\ Relay(c) /\ UNCHANGED <<pageVars, up>>

SessionNext ==
  \/ \E c \in Calls : Issue(c) \/ Feed(c) \/ Withdrawal(c) \/ Serving(Goroutine(c), c)
  \/ Deliver
  \/ Serve \/ ServeCallCancel

SessionSpec == SessionInit /\ [][SessionNext]_sessionVars

ReloadSpec == SessionInit /\ [][SessionNext \/ Reload]_sessionVars

\* Fairness: the channels deliver, the scheduler runs every goroutine, and every
\* handler returns in the end.
SessionFairness ==
  /\ WF_sessionVars(Deliver)
  /\ WF_sessionVars(Serve)
  /\ WF_sessionVars(ServeCallCancel)
  /\ \A c \in Calls :
       /\ SF_sessionVars(Serving(AcquireSlot(c), c))
       /\ WF_sessionVars(Serving(Leave(c) \/ RejectOverload(c), c))
       /\ WF_sessionVars(Serving(EndSend(c), c))
       /\ WF_sessionVars(Serving(HandlerReturn(c), c))
       /\ WF_sessionVars(Serving(Finish(c) \/ Exit(c), c))

FairSessionSpec == SessionSpec /\ SessionFairness

-----------------------------------------------------------------------------
(* Properties.                                                             *)

Sent(c, state) == \E k \in 1..Len(down) : down[k] = [by |-> c, state |-> state]
Posted(op, c) == \E k \in 1..Len(up) : up[k] = [op |-> op, call |-> c]

\* No consumer waits in vain: behind every id that the page still waits on there
\* is an open frame on its way, a call that owes its answer, or the answer on its
\* way back, whatever cancels, feeds and overloads crossed.
WaitingIsServed ==
  \A i \in Ids : LET c == consumer[i] IN
    c # None => \/ Posted("open", c)
                \/ Phase(c) = "live"
                \/ \E state \in {"done", "error", "notice"} : Sent(c, state)

\* A call's context is canceled under its handler, or about to be, only because its
\* own consumer withdrew it: neither another call's cancel nor another's end reaches
\* it, however they cross.
CancelHitsOwnCall ==
  \A c \in Rpcs \union Commands :
    c \in ctxDone \union {toCancel} /\ pc[c] \in {"waiting", "running"} =>
      settled[c] = "withdrawn"

\* Every call the page made settles.
EveryCallSettles ==
  \A c \in Requests : c \in here ~> settled[c] # "none"

\* scorix.js on frames of unknown or closed calls: "drop (never resolve a foreign
\* frame)".
NeverForeign == \A c \in Calls : settled[c] # "foreign"

\* stream.go on Handler: "The runtime terminates the call with done (nil return)
\* or error (non-nil) once it returns".  A call whose done was sent never ends as
\* anything else for the page that made it, while it is on its way or after it.
NilReturnIsDone ==
  \A c \in Rpcs : (\E k \in 1..Len(wire[c]) : wire[c][k] = "done") =>
    settled[c] \in {"none", "done", "withdrawn", "gone"}
=============================================================================

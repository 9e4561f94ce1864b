-------------------------------- MODULE McpAgent --------------------------------
(***************************************************************************)
(* Tool calls of one program that talks MCP to a running app: the read     *)
(* loop and its chain of turns (src/internal/mcpcore/core.go), the socket  *)
(* that is switched on and off, and the questions put to the user on a     *)
(* call's behalf (src/app/mcp.go).  Programs do not share consent, so one  *)
(* program with several connections is enough.                             *)
(***************************************************************************)
EXTENDS Naturals

CONSTANTS Conns,       \* connections the program ever opens
          MaxToolCalls,\* bound: calls it sends on each
          MaxServers,  \* bound: times MCP is switched on
          NoCall       \* no call

ASSUME McpAssumption ==
  /\ MaxToolCalls \in Nat \ {0} /\ MaxServers \in Nat \ {0}
  /\ NoCall \notin Conns \X (1..MaxToolCalls)

VARIABLES served,    \* mcpServers made so far: the last one may be a.mcp
          on,        \* a.mcp is not nil
          conn,      \* "none", "open", or "gone": the read loop met its end
          home,      \* the server that accepted a connection
          tool,      \* where each call is
          turn,      \* the last call of a connection that took a turn, 0 for none
          ahead,     \* the turn a call waits for
          current,   \* Server.calls of a connection: the call registered, 0 for none
          cancelled, \* calls whose context is cancelled
          asking,    \* srv.asking of each server: the call whose dialog is up
          waits,     \* the call whose channel a waiting call reads
          refused,   \* servers whose srv.refused holds the program
          approved,  \* the program is in the saved ApprovedClients
          consented, \* history: the user has clicked Allow
          denied,    \* history: servers on whose behalf the user clicked Deny
          dropped    \* history: those whose Deny met a call or a client that was over

mcpVars == <<served, on, conn, home, tool, turn, ahead, current, cancelled,
             asking, waits, refused, approved, consented, denied, dropped>>

CallNos == 1..MaxToolCalls
Servers == 1..MaxServers
ToolCalls == Conns \X CallNos
InDialog == {"dialog", "yes", "no", "forget_yes", "forget_no"}
Working == {"begin", "look", "gate", "wait", "confirm", "run"} \cup InDialog

McpTypeOK ==
  /\ served \in 0..MaxServers /\ on \in BOOLEAN
  /\ conn \in [Conns -> {"none", "open", "gone"}]
  /\ home \in [Conns -> 0..MaxServers]
  /\ tool \in [ToolCalls -> {"absent", "queued", "done"} \cup Working]
  /\ turn \in [Conns -> 0..MaxToolCalls] /\ ahead \in [ToolCalls -> 0..MaxToolCalls]
  /\ current \in [Conns -> 0..MaxToolCalls]
  /\ cancelled \subseteq ToolCalls
  /\ asking \in [Servers -> ToolCalls \cup {NoCall}]
  /\ waits \in [ToolCalls -> ToolCalls \cup {NoCall}]
  /\ refused \subseteq Servers /\ approved \in BOOLEAN
  /\ consented \in BOOLEAN /\ denied \subseteq Servers /\ dropped \subseteq Servers

McpInit ==
  /\ served = 0 /\ on = FALSE
  /\ conn = [c \in Conns |-> "none"] /\ home = [c \in Conns |-> 0]
  /\ tool = [k \in ToolCalls |-> "absent"]
  /\ turn = [c \in Conns |-> 0] /\ ahead = [k \in ToolCalls |-> 0]
  /\ current = [c \in Conns |-> 0] /\ cancelled = {}
  /\ asking = [s \in Servers |-> NoCall] /\ waits = [k \in ToolCalls |-> NoCall]
  /\ refused = {} /\ approved = FALSE
  /\ consented = FALSE /\ denied = {} /\ dropped = {}

turnVars == <<turn, ahead, current>>
clicks == <<consented, denied, dropped>>
consentVars == <<asking, waits, refused, approved, clicks>>
socketVars == <<served, on, conn, home>>

Moves(k, from, to) == tool[k] = from /\ tool' = [tool EXCEPT ![k] = to]
Leaves(k) == conn[k[1]] = "gone"       \* s.gone is done
Of(s) == {k \in ToolCalls : home[k[1]] = s}
-----------------------------------------------------------------------------
(* The socket: sys:mcp:enable, a connection, its end *)

SwitchOn ==
  /\ ~on /\ served < MaxServers
  /\ on' = TRUE /\ served' = served + 1
  /\ UNCHANGED <<conn, home, tool, turnVars, cancelled, consentVars>>

\* stopMCP cancels the server's context, which every call's is made from, and
\* closes its connections.
SwitchOff ==
  /\ on /\ on' = FALSE
  /\ conn' = [c \in Conns |-> IF home[c] = served /\ conn[c] = "open" THEN "gone" ELSE conn[c]]
  /\ cancelled' = cancelled \cup Of(served)
  /\ UNCHANGED <<served, home, tool, turnVars, consentVars>>

ConnectTo(c) ==
  /\ on /\ conn[c] = "none"
  /\ conn' = [conn EXCEPT ![c] = "open"] /\ home' = [home EXCEPT ![c] = served]
  /\ UNCHANGED <<served, on, tool, turnVars, cancelled, consentVars>>

\* The client hangs up, or dropClient closes it.
HangUp(c) ==
  /\ conn[c] = "open" /\ conn' = [conn EXCEPT ![c] = "gone"]
  /\ UNCHANGED <<served, on, home, tool, turnVars, cancelled, consentVars>>

\* Serve's shutdownGrace is over.
GraceOver(c) ==
  /\ conn[c] = "gone" /\ \E k \in {c} \X CallNos : tool[k] \in Working \cup {"queued"} /\ k \notin cancelled
  /\ cancelled' = cancelled \cup ({c} \X CallNos)
  /\ UNCHANGED <<socketVars, tool, turnVars, consentVars>>

\* sys:mcp:revoke
Revoke ==
  /\ approved /\ approved' = FALSE
  /\ conn' = [c \in Conns |-> IF on /\ home[c] = served /\ conn[c] = "open" THEN "gone" ELSE conn[c]]
  /\ UNCHANGED <<served, on, home, tool, turnVars, cancelled, asking, waits, refused, clicks>>
-----------------------------------------------------------------------------
(* Turns *)

\* dispatchCall, on the read loop: the turn is taken where arrival order exists.
Arrive(k) ==
  /\ conn[k[1]] = "open" /\ Moves(k, "absent", "queued")
  /\ \A i \in 1..(k[2] - 1) : tool[<<k[1], i>>] # "absent"
  /\ ahead' = [ahead EXCEPT ![k] = turn[k[1]]] /\ turn' = [turn EXCEPT ![k[1]] = k[2]]
  /\ UNCHANGED <<socketVars, current, cancelled, consentVars>>

\* The goroutines race for a mutex instead.
MyTurn_Mutex(k) == \A i \in CallNos : tool[<<k[1], i>>] \notin Working
MyTurn(k) == ahead[k] # 0 => tool[<<k[1], ahead[k]>>] = "done"

BeginCall(k) ==
  /\ MyTurn(k) /\ Moves(k, "queued", "begin")
  /\ current' = [current EXCEPT ![k[1]] = k[2]]
  /\ UNCHANGED <<socketVars, turn, ahead, cancelled, consentVars>>

\* notifications/cancelled, which looks in Server.calls, or the call's timeout.
CancelTool(k) ==
  /\ current[k[1]] = k[2] /\ k \notin cancelled /\ cancelled' = cancelled \cup {k}
  /\ UNCHANGED <<socketVars, tool, turnVars, consentVars>>

Replied(k) == current' = [current EXCEPT ![k[1]] = 0] /\ UNCHANGED <<turn, ahead>>
-----------------------------------------------------------------------------
(* mcpRun *)

\* The tool's own switch is read once, here: it may have been thrown by now.
CheckTool(k) ==
  /\ \/ Moves(k, "begin", "look") /\ UNCHANGED turnVars
     \/ Moves(k, "begin", "done") /\ Replied(k)
  /\ UNCHANGED <<socketVars, cancelled, consentVars>>

LookApproved(k) ==
  /\ IF approved THEN \E next \in {"confirm", "run"} : Moves(k, "look", next)
                 ELSE Moves(k, "look", "gate")
  /\ UNCHANGED <<socketVars, turnVars, cancelled, consentVars>>

\* Under srv.mu: refused before, somebody asks already, or ask.
Gate(k) ==
  LET s == home[k[1]] IN
  /\ tool[k] = "gate"
  /\ \/ s \in refused /\ Moves(k, "gate", "done") /\ Replied(k) /\ UNCHANGED <<asking, waits>>
     \/ /\ s \notin refused /\ asking[s] # NoCall /\ Moves(k, "gate", "wait")
        /\ waits' = [waits EXCEPT ![k] = asking[s]] /\ UNCHANGED <<asking, turnVars>>
     \/ /\ s \notin refused /\ asking[s] = NoCall /\ Moves(k, "gate", "dialog")
        /\ asking' = [asking EXCEPT ![s] = k] /\ UNCHANGED <<waits, turnVars>>
  /\ UNCHANGED <<socketVars, cancelled, refused, approved, clicks>>

\* A waiter takes the asker's answer for its own question and asks now.
Waited_AsksNext(k) ==
  /\ tool[k] = "wait" /\ tool[waits[k]] \notin InDialog
  /\ Moves(k, "wait", "dialog") /\ asking' = [asking EXCEPT ![home[k[1]]] = k]
  /\ waits' = [waits EXCEPT ![k] = NoCall]
  /\ UNCHANGED <<socketVars, turnVars, cancelled, refused, approved, clicks>>

\* The channel is closed: look again.  Or this call or its client is over.
Waited(k) ==
  /\ tool[k] = "wait"
  /\ \/ tool[waits[k]] \notin InDialog /\ Moves(k, "wait", "look") /\ UNCHANGED turnVars
     \/ (k \in cancelled \/ Leaves(k)) /\ Moves(k, "wait", "done") /\ Replied(k)
  /\ waits' = [waits EXCEPT ![k] = NoCall]
  /\ UNCHANGED <<socketVars, cancelled, asking, refused, approved, clicks>>

\* The question is answered, or it is taken away.
UserAnswers(k) ==
  /\ \/ Moves(k, "dialog", "yes") /\ consented' = TRUE /\ UNCHANGED denied
     \/ Moves(k, "dialog", "no") /\ denied' = denied \cup {home[k[1]]} /\ UNCHANGED consented
     \/ (k \in cancelled \/ Leaves(k)) /\ Moves(k, "dialog", "forget_no")
        /\ UNCHANGED <<consented, denied>>
  /\ UNCHANGED <<socketVars, turnVars, cancelled, asking, waits, refused, approved, dropped>>

\* The answer counts unless the question's context is over; that a client left
\* reaches the context by a goroutine of its own, so it may come too late.  What
\* the user clicked is dropped then, which the code cannot tell from no click.
Remember(k) ==
  /\ \/ k \notin cancelled /\ Moves(k, "no", "forget_no")
        /\ refused' = refused \cup {home[k[1]]} /\ UNCHANGED <<approved, dropped>>
     \/ k \notin cancelled /\ Moves(k, "yes", "forget_yes")
        /\ approved' \in {approved, TRUE} /\ UNCHANGED <<refused, dropped>>  \* the save may fail
     \/ (k \in cancelled \/ Leaves(k)) /\ tool[k] \in {"yes", "no"} /\ Moves(k, tool[k], "forget_no")
        /\ dropped' = dropped \cup {s \in {home[k[1]]} : tool[k] = "no"}
        /\ UNCHANGED <<refused, approved>>
  /\ UNCHANGED <<socketVars, turnVars, cancelled, asking, waits, consented, denied>>

\* The deferred delete and close.
Forget(k) ==
  /\ \/ Moves(k, "forget_no", "done") /\ Replied(k)
     \/ (\E next \in {"confirm", "run"} : Moves(k, "forget_yes", next)) /\ UNCHANGED turnVars
  /\ asking' = [asking EXCEPT ![home[k[1]]] = NoCall]
  /\ UNCHANGED <<socketVars, cancelled, waits, refused, approved, clicks>>

\* A destructive tool asks about each call.
ConfirmTool(k) ==
  /\ \/ ~Leaves(k) /\ Moves(k, "confirm", "run") /\ UNCHANGED turnVars
     \/ Moves(k, "confirm", "done") /\ Replied(k)
  /\ UNCHANGED <<socketVars, cancelled, consentVars>>

RunTool(k) ==
  /\ Moves(k, "run", "done") /\ Replied(k)
  /\ UNCHANGED <<socketVars, cancelled, consentVars>>

CallStep(k) == Arrive(k) \/ BeginCall(k) \/ CancelTool(k) \/ CheckTool(k) \/ LookApproved(k) \/ Gate(k)
               \/ Waited(k) \/ UserAnswers(k) \/ Remember(k) \/ Forget(k) \/ ConfirmTool(k) \/ RunTool(k)

McpNext == \/ SwitchOn \/ SwitchOff \/ Revoke
           \/ \E c \in Conns : ConnectTo(c) \/ HangUp(c) \/ GraceOver(c)
           \/ \E k \in ToolCalls : CallStep(k)

McpSpec == McpInit /\ [][McpNext]_mcpVars
-----------------------------------------------------------------------------
(* Properties *)

\* The tools of a connection run one at a time and in the order in which their
\* calls arrived, and a cancel finds the one that runs: "a stop overtaking the
\* start ahead of it is a wrong answer" (core.go, Server.turnMu).
TurnsInOrder ==
  \A c \in Conns :
    /\ \A i, j \in CallNos : i < j /\ tool[<<c, j>>] \notin {"absent", "queued"} => tool[<<c, i>>] = "done"
    /\ \A i \in CallNos : current[c] = i <=> tool[<<c, i>>] \in Working

\* However many connections the program opens, a server has one question about it
\* on the screen at a time (one that was switched off may still show its own); once
\* the user clicked Deny it asks no more, unless the click met a call that was
\* cancelled or a client that had left; and no tool of the program runs for a user
\* who never clicked Allow (app/mcp.go, mcpServer.asking and refused).
DeniedIsFinal ==
  /\ \A s \in Servers : \A k \in Of(s) :
       tool[k] = "dialog" => asking[s] = k /\ (s \in denied => s \in dropped)
  /\ \A k \in ToolCalls : tool[k] \in {"confirm", "run"} => consented
=============================================================================

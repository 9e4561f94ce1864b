----------------------------------- MODULE Web -----------------------------------
(***************************************************************************)
(* Web mode: a page that reconnects its WebSocket (src/app/scorix.js), the *)
(* handler each socket gets (Handler in src/app/app.go), and the calls     *)
(* that Go makes to a page (src/app/call.go).  The page is loaded once; it *)
(* does not call init() while a socket of its own is still closing.        *)
(***************************************************************************)
EXTENDS Naturals, FiniteSets

CONSTANTS MaxSockets, \* bound: sockets the page opens
          Invokes,    \* the page's invokes
          Calls,      \* calls of Go to the page
          MaxQueue    \* MAX_QUEUE of scorix.js

ASSUME WebAssumption == MaxSockets \in Nat \ {0} /\ MaxQueue \in Nat

VARIABLES socket,   \* each socket, as the network has it
          ws,       \* the page's socket, 0 for null
          status,   \* scorix.status()
          queue,    \* invokes whose message waits for the socket to open
          invoke,   \* "idle", "pending" in the page's map, or "settled"
          via,      \* the socket an invoke was sent on, 0 for none yet
          handler,  \* where the handler of a socket is
          wsClosed, \* closeWebSockets has run
          rcall,    \* each App.Call
          client,   \* the socket whose client it addresses
          replied   \* calls whose channel holds a reply

webVars == <<socket, ws, status, queue, invoke, via, handler, wsClosed, rcall, client, replied>>

Sockets == 1..MaxSockets
pageVars == <<ws, status, queue, invoke, via>>
callVars == <<rcall, client, replied>>

WebTypeOK ==
  /\ socket \in [Sockets -> {"new", "connecting", "open", "lost"}]
  /\ ws \in 0..MaxSockets /\ status \in {"connecting", "connected", "disconnected"}
  /\ queue \subseteq Invokes /\ Cardinality(queue) <= MaxQueue
  /\ invoke \in [Invokes -> {"idle", "pending", "settled"}]
  /\ via \in [Invokes -> 0..MaxSockets]
  /\ handler \in [Sockets -> {"none", "upgraded", "tracked", "reading", "removed", "failed", "gone"}]
  /\ wsClosed \in BOOLEAN
  /\ rcall \in [Calls -> {"idle", "waiting", "done"}]
  /\ client \in [Calls -> 0..MaxSockets] /\ replied \subseteq Calls

WebInit ==
  /\ socket = [n \in Sockets |-> IF n = 1 THEN "connecting" ELSE "new"]
  /\ ws = 1 /\ status = "connecting" /\ queue = {}
  /\ invoke = [i \in Invokes |-> "idle"] /\ via = [i \in Invokes |-> 0]
  /\ handler = [n \in Sockets |-> "none"] /\ wsClosed = FALSE
  /\ rcall = [r \in Calls |-> "idle"] /\ client = [r \in Calls |-> 0] /\ replied = {}

Handles(n, from, to) == handler[n] = from /\ handler' = [handler EXCEPT ![n] = to]
Lose(ns) == socket' = [n \in Sockets |-> IF n \in ns THEN "lost" ELSE socket[n]]
-----------------------------------------------------------------------------
(* The page *)

\* The timer of schedule(), or init(): nothing to do while there is a socket.
ConnectSocket(n) ==
  /\ ws = 0 /\ socket[n] = "new" /\ \A m \in 1..(n - 1) : socket[m] # "new"
  /\ ws' = n /\ status' = "connecting"
  /\ socket' = [socket EXCEPT ![n] = "connecting"]
  /\ UNCHANGED <<queue, invoke, via, handler, wsClosed, callVars>>

OnOpen ==
  /\ ws # 0 /\ socket[ws] = "open" /\ status = "connecting"
  /\ status' = "connected" /\ queue' = {}
  /\ via' = [i \in Invokes |-> IF i \in queue THEN ws ELSE via[i]]
  /\ UNCHANGED <<socket, ws, invoke, handler, wsClosed, callVars>>

\* failAll, and the queue goes too.
OnClose ==
  /\ ws # 0 /\ socket[ws] = "lost"
  /\ ws' = 0 /\ status' = "disconnected" /\ queue' = {}
  /\ invoke' = [i \in Invokes |-> IF invoke[i] = "pending" THEN "settled" ELSE invoke[i]]
  /\ UNCHANGED <<socket, via, handler, wsClosed, callVars>>

\* api.invoke: sent, queued, or rejected by what send throws.
InvokeStarts(i) ==
  /\ invoke[i] = "idle"
  /\ \/ /\ status = "connected" /\ ws # 0
        /\ via' = [via EXCEPT ![i] = ws] /\ invoke' = [invoke EXCEPT ![i] = "pending"]
        /\ UNCHANGED queue
     \/ /\ status = "connecting" /\ Cardinality(queue) < MaxQueue
        /\ queue' = queue \cup {i} /\ invoke' = [invoke EXCEPT ![i] = "pending"]
        /\ UNCHANGED via
     \/ /\ \/ status = "connecting" /\ Cardinality(queue) >= MaxQueue
           \/ status = "disconnected"
           \/ status = "connected" /\ socket[ws] = "lost"  \* no longer OPEN, onclose to come
        /\ invoke' = [invoke EXCEPT ![i] = "settled"] /\ UNCHANGED <<queue, via>>
  /\ UNCHANGED <<socket, ws, status, handler, wsClosed, callVars>>

\* Its timeout or cancel; a queued message stays queued.
GiveUpInvoke(i) ==
  /\ invoke[i] = "pending" /\ invoke' = [invoke EXCEPT ![i] = "settled"]
  /\ UNCHANGED <<socket, ws, status, queue, via, handler, wsClosed, callVars>>

InvokeAnswered(i) ==
  /\ invoke[i] = "pending" /\ via[i] # 0 /\ via[i] = ws /\ socket[ws] = "open"
  /\ handler[ws] = "reading"
  /\ invoke' = [invoke EXCEPT ![i] = "settled"]
  /\ UNCHANGED <<socket, ws, status, queue, via, handler, wsClosed, callVars>>
-----------------------------------------------------------------------------
(* The server's handler of a socket *)

\* The token is refused, or the network fails, before or after the upgrade.
Drop(n) ==
  /\ socket[n] \in {"connecting", "open"} /\ Lose({n})
  /\ UNCHANGED <<pageVars, handler, wsClosed, callVars>>

Upgrade(n) ==
  /\ socket[n] = "connecting" /\ Handles(n, "none", "upgraded")
  /\ socket' = [socket EXCEPT ![n] = "open"]
  /\ UNCHANGED <<pageVars, wsClosed, callVars>>

\* Under wsMu: after shutdown began the socket is closed at once.
Track(n) ==
  /\ IF wsClosed THEN Handles(n, "upgraded", "gone") /\ Lose({n})
                 ELSE Handles(n, "upgraded", "tracked") /\ UNCHANGED socket
  /\ UNCHANGED <<pageVars, wsClosed, callVars>>

AddSender(n) ==
  /\ Handles(n, "tracked", "reading")
  /\ UNCHANGED <<socket, pageVars, wsClosed, callVars>>

\* ReadMessage fails: the deferred removeSender takes the client out of
\* a.senders, and fails its calls after that.
RemoveSender(n) ==
  /\ socket[n] = "lost" /\ Handles(n, "reading", "removed")
  /\ UNCHANGED <<socket, pageVars, wsClosed, callVars>>

FailCallsFor(n) ==
  /\ Handles(n, "removed", "failed")
  /\ replied' = replied \cup {r \in Calls : rcall[r] = "waiting" /\ client[r] = n}
  /\ UNCHANGED <<socket, pageVars, wsClosed, rcall, client>>

\* Dispatcher.Close, the untracking, and the deferred close of the socket.
HandlerEnds(n) ==
  /\ Handles(n, "failed", "gone")
  /\ UNCHANGED <<socket, pageVars, wsClosed, callVars>>

\* Shutdown starts it in a goroutine.
CloseWebSockets ==
  /\ ~wsClosed /\ wsClosed' = TRUE
  /\ Lose({n \in Sockets : handler[n] \in {"tracked", "reading", "removed", "failed"}})
  /\ UNCHANGED <<pageVars, handler, callVars>>
-----------------------------------------------------------------------------
(* App.Call *)

\* The client is in a.senders.
Registered_TillTheEnd(n) == handler[n] \in {"reading", "removed", "failed"}
Registered(n) == handler[n] = "reading"

\* The lookup and the entry in a.calls are one step under a.mu.
CallPage(r, n) ==
  /\ rcall[r] = "idle" /\ handler[n] # "none"
  /\ rcall' = [rcall EXCEPT ![r] = IF Registered(n) THEN "waiting" ELSE "done"]
  /\ client' = [client EXCEPT ![r] = n]
  /\ UNCHANGED <<socket, pageVars, handler, wsClosed, replied>>

\* The frame was not dropped by a full queue, the page's resolver answers, and
\* handleCallReply finds the call to be this client's.
PageReplies(r, n) ==
  /\ rcall[r] = "waiting" /\ client[r] = n /\ handler[n] = "reading"
  /\ r \notin replied /\ replied' = replied \cup {r}
  /\ UNCHANGED <<socket, pageVars, handler, wsClosed, rcall, client>>

\* The caller takes the reply, or its context ends.
CallEnds(r) ==
  /\ rcall[r] = "waiting" /\ rcall' = [rcall EXCEPT ![r] = "done"]
  /\ replied' = replied \ {r}
  /\ UNCHANGED <<socket, pageVars, handler, wsClosed, client>>

SocketStep(n) == ConnectSocket(n) \/ Drop(n) \/ Upgrade(n) \/ Track(n) \/ AddSender(n) \/ RemoveSender(n)
                 \/ FailCallsFor(n) \/ HandlerEnds(n)

WebNext == \/ OnOpen \/ OnClose \/ CloseWebSockets
           \/ \E n \in Sockets : SocketStep(n)
           \/ \E i \in Invokes : InvokeStarts(i) \/ GiveUpInvoke(i) \/ InvokeAnswered(i)
           \/ \E r \in Calls, n \in Sockets : CallPage(r, n) \/ PageReplies(r, n)
           \/ \E r \in Calls : CallEnds(r)

WebSpec == WebInit /\ [][WebNext]_webVars
-----------------------------------------------------------------------------
(* Properties *)

\* Nothing waits on a connection that can no longer answer it.  A pending
\* invoke was sent on the page's present socket, or waits in the queue of one
\* that is connecting ("pending invokes rejected on disconnect", scorix.js); a
\* Call that waits without a reply addresses a client whose disconnect will
\* still fail it (failCallsFor in call.go).
NobodyWaitsInVain ==
  /\ \A i \in Invokes : invoke[i] = "pending" =>
       /\ ws # 0
       /\ via[i] = ws \/ (i \in queue /\ status = "connecting")
  /\ \A r \in Calls : rcall[r] = "waiting" /\ r \notin replied =>
       handler[client[r]] \in {"reading", "removed"}
=============================================================================

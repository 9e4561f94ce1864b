------------------------------ MODULE Lifecycle ------------------------------
(***************************************************************************)
(* app/app.go and app/window.go: one run of a native app.  Its modules go  *)
(* up; windows, the command line socket and the agent socket then accept   *)
(* calls whose handlers use the modules; and when the event loop ends, Run *)
(* waits for every handler, for a while, before the modules go down.       *)
(*                                                                         *)
(* A surface is whatever accepts calls.  What is behind it, a Dispatcher   *)
(* or a socket server, is here a gate and a number of handlers at work;    *)
(* of a window that is what Surface says, which Dispatcher implements.     *)
(*                                                                         *)
(* A window's close takes its bridge away and counts its drain in one      *)
(* step, which the code does in two: both run on the UI thread, and so     *)
(* does the event loop whose end lets Run go on to take the bridges and to *)
(* wait for the drains.                                                    *)
(***************************************************************************)
EXTENDS Modules

CONSTANTS
  Windows,    \* the windows of the app
  None,       \* no window
  MaxBusy,    \* bound of the model: handlers at work on one surface
  MaxDrains   \* bound of the model: closes of one window under way

Cli == "cli"
Mcp == "mcp"
Servers == {Cli, Mcp}
Surfaces == Windows \union Servers

ASSUME WindowsAssumption ==
  /\ Windows \intersect Servers = {} /\ None \notin Windows
  /\ MaxBusy \in Nat /\ MaxDrains \in Nat

VARIABLES
  run,      \* where App.Run is
  shown,    \* the windows on the screen
  bridges,  \* App.bridges
  drains,   \* App.winClose: per window, the drains that its closes started
  taken,    \* Run's local "bridges": what it has yet to close
  closing,  \* the bridge that Run is closing
  gate,     \* whether a surface accepts calls; "shut" before there is one
  busy,     \* how many handlers work for a surface
  orphans,  \* handlers at work for an agent socket that the user switched off
  taker,    \* awaitCLI, which waits for another instance to leave
  late      \* surfaces that a deadline gave up on

windowVars == <<shown, bridges, drains, taken, closing>>
surfaceVars == <<gate, busy, orphans, taker, late>>
runVars == <<run, windowVars, surfaceVars>>
vars == <<moduleVars, runVars>>

\* Nobody waits, or it sleeps, or is inside startCLI; and in the end it opened the
\* socket, where closeCLI was still to come or behind its back.
Takers == {"none", "waiting", "opening", "opened", "behind"}

Runs == {"idle", "loop", "teardown", "closeCLI", "drainCLI", "closeMCP", "drainMCP",
         "stopping", "returned"}

TypeOK ==
  /\ ModulesTypeOK
  /\ run \in Runs
  /\ shown \subseteq Windows /\ bridges \subseteq Windows /\ taken \subseteq Windows
  /\ drains \in [Windows -> Nat]
  /\ closing \in Windows \union {None}
  /\ gate \in [Surfaces -> {"shut", "open", "closing"}]
  /\ busy \in [Surfaces -> Nat] /\ orphans \in Nat
  /\ taker \in Takers
  /\ late \subseteq Surfaces

Init ==
  /\ ModulesInit
  /\ run = "idle"
  /\ shown = {} /\ bridges = {} /\ taken = {} /\ closing = None
  /\ drains = [w \in Windows |-> 0]
  /\ gate = [s \in Surfaces |-> "shut"]
  /\ busy = [s \in Surfaces |-> 0]
  /\ orphans = 0 /\ late = {} /\ taker = "none"

GoTo(stage) == run' = stage
SetGate(s, g) == gate' = [gate EXCEPT ![s] = g]
GiveUpOn(s) == late' = late \union {s}

-----------------------------------------------------------------------------
(* The modules, before and after.                                          *)

\* Run calls startModules; one that failed may be called again.
BootStep == run = "idle" /\ Booting /\ UNCHANGED runVars

\* What stopModules does, for Run's deferred call or for a failed start.
StopStep == Stopping /\ UNCHANGED runVars

\* openMCP and openCLI, each where the app offers it and nothing fails; the event
\* loop follows.  Where another instance serves the command line, awaitCLI waits.
OpenServers ==
  /\ run = "idle"
  /\ boot = "up"
  /\ GoTo("loop")
  /\ \E offered \in SUBSET Servers :
       /\ gate' = [s \in Surfaces |-> IF s \in offered THEN "open" ELSE gate[s]]
       /\ taker' \in IF Cli \in offered THEN {"none"} ELSE {"none", "waiting"}
  /\ UNCHANGED <<moduleVars, windowVars, busy, orphans, late>>

\* Until closeCLI closes cliStop.
CliWanted == run \in {"loop", "teardown", "closeCLI"}

\* A tick of awaitCLI, which looks at cliStop before it calls startCLI.
TakerTries ==
  /\ taker = "waiting"
  /\ CliWanted
  /\ taker' = "opening"
  /\ UNCHANGED <<moduleVars, run, windowVars, gate, busy, orphans, late>>

\* startCLI finds the other instance still there, or fails.
TakerOpensNothing ==
  /\ taker = "opening"
  /\ taker' \in {"waiting", "none"}
  /\ UNCHANGED <<moduleVars, run, windowVars, gate, busy, orphans, late>>

\* startCLI opens the socket, whatever became of Run meanwhile.
TakerOpens ==
  /\ taker = "opening"
  /\ taker' = IF CliWanted THEN "opened" ELSE "behind"
  /\ SetGate(Cli, "open")
  /\ UNCHANGED <<moduleVars, run, windowVars, busy, orphans, late>>

Takeover == TakerTries \/ TakerOpensNothing \/ TakerOpens

DeferStop ==
  /\ run = "stopping"
  /\ StopModules
  /\ UNCHANGED runVars

Return ==
  /\ run = "stopping"
  /\ boot = "down"
  /\ GoTo("returned")
  /\ UNCHANGED <<moduleVars, windowVars, surfaceVars>>

-----------------------------------------------------------------------------
(* Calls.                                                                  *)

\* Whether a surface takes calls; and one that does until it is drained.
Takes_Undrained(s) == gate[s] # "shut"
Takes(s) == gate[s] = "open"

Accept(s) ==
  /\ Takes(s)
  /\ busy[s] < MaxBusy
  /\ busy' = [busy EXCEPT ![s] = @ + 1]
  /\ UNCHANGED <<moduleVars, taker, run, windowVars, gate, orphans, late>>

Finish(s) ==
  /\ busy[s] > 0
  /\ busy' = [busy EXCEPT ![s] = @ - 1]
  /\ UNCHANGED <<moduleVars, taker, run, windowVars, gate, orphans, late>>

OrphanFinishes ==
  /\ orphans > 0
  /\ orphans' = orphans - 1
  /\ UNCHANGED <<moduleVars, taker, run, windowVars, gate, busy, late>>

\* sys:mcp:enable is a command that some window's page sends.
Commanded == \E w \in Windows : busy[w] > 0

\* stopMCP without a drain.
DisableMCP ==
  /\ Commanded
  /\ gate[Mcp] = "open"
  /\ orphans < MaxBusy
  /\ SetGate(Mcp, "shut")
  /\ orphans' = orphans + busy[Mcp]
  /\ busy' = [busy EXCEPT ![Mcp] = 0]
  /\ UNCHANGED <<moduleVars, taker, run, windowVars, late>>

\* App.mcpHost, between openMCP and closeMCP.
Hosting == run \in {"loop", "teardown", "closeCLI", "drainCLI", "closeMCP"}

EnableMCP ==
  /\ Commanded
  /\ Hosting
  /\ gate[Mcp] = "shut"
  /\ SetGate(Mcp, "open")
  /\ UNCHANGED <<moduleVars, taker, run, windowVars, busy, orphans, late>>

-----------------------------------------------------------------------------
(* Windows.                                                                *)

\* attachWindow.
OpenWindow(w) ==
  /\ run = "loop"
  /\ gate[w] = "shut"
  /\ SetGate(w, "open")
  /\ bridges' = bridges \union {w}
  /\ shown' = shown \union {w}
  /\ UNCHANGED <<moduleVars, taker, run, drains, taken, closing, busy, orphans, late>>

\* The close handler of attachWindow, on the UI thread; another handler of the
\* app may veto the close, and the window stays.
EventClose(w) ==
  /\ run = "loop"
  /\ w \in shown
  /\ drains[w] < MaxDrains
  /\ bridges' = bridges \ {w}
  /\ drains' = [drains EXCEPT ![w] = @ + 1]
  /\ shown' \in {shown, shown \ {w}}
  /\ UNCHANGED <<moduleVars, run, taken, closing, surfaceVars>>

\* The goroutine it starts: Close, and whichever comes first.
DrainBegins(w) ==
  /\ drains[w] > 0
  /\ gate[w] = "open"
  /\ SetGate(w, "closing")
  /\ UNCHANGED <<moduleVars, taker, run, windowVars, busy, orphans, late>>

\* winClose.Done; and a drain that forgets it, or does it twice.
Done_Forgotten(w) == UNCHANGED drains
Done_Twice(w) == drains' = [drains EXCEPT ![w] = @ - 2]
Done(w) == drains' = [drains EXCEPT ![w] = @ - 1]

DrainEnds(w) ==
  /\ drains[w] > 0
  /\ gate[w] = "closing"
  /\ busy[w] = 0
  /\ Done(w)
  /\ UNCHANGED <<moduleVars, run, shown, bridges, taken, closing, surfaceVars>>

DrainExpires(w) ==
  /\ drains[w] > 0
  /\ gate[w] = "closing"
  /\ busy[w] > 0
  /\ Done(w)
  /\ GiveUpOn(w)
  /\ UNCHANGED <<moduleVars, taker, run, shown, bridges, taken, closing, gate, busy, orphans>>

-----------------------------------------------------------------------------
(* The end of Run.                                                         *)

\* The event loop ends, by Quit or with its last window.
LoopEnds ==
  /\ run = "loop"
  /\ GoTo("teardown")
  /\ taken' = bridges
  /\ bridges' = {}
  /\ UNCHANGED <<moduleVars, shown, drains, closing, surfaceVars>>

\* Each bridge in turn, all under one deadline.
CloseBridge(w) ==
  /\ run = "teardown"
  /\ closing = None
  /\ w \in taken
  /\ closing' = w
  /\ taken' = taken \ {w}
  /\ SetGate(w, "closing")
  /\ UNCHANGED <<moduleVars, taker, run, shown, bridges, drains, busy, orphans, late>>

BridgeClosed ==
  /\ closing \in Windows
  /\ busy[closing] = 0
  /\ closing' = None
  /\ UNCHANGED <<moduleVars, run, shown, bridges, drains, taken, surfaceVars>>

BridgeExpires ==
  /\ closing \in Windows
  /\ busy[closing] > 0
  /\ GiveUpOn(closing)
  /\ closing' = None
  /\ UNCHANGED <<moduleVars, taker, run, shown, bridges, drains, taken, gate, busy, orphans>>

\* What winClose.Wait waits for; and a teardown that does not wait.
ClosesDrained_Unawaited == TRUE
ClosesDrained == \A w \in Windows : drains[w] = 0

WaitForCloses ==
  /\ run = "teardown"
  /\ taken = {} /\ closing = None
  /\ ClosesDrained
  /\ GoTo("closeCLI")
  /\ UNCHANGED <<moduleVars, windowVars, surfaceVars>>

\* A close that leaves the socket open; and one that does not.
Shut_LeftOpen(s) == UNCHANGED gate
Shut(s) == gate' = [gate EXCEPT ![s] = IF @ = "open" THEN "closing" ELSE @]

\* closeCLI and stopMCP(true), up to their wait.
CloseServer(s, now, next) ==
  /\ run = now
  /\ Shut(s)
  /\ GoTo(next)
  /\ UNCHANGED <<moduleVars, taker, windowVars, busy, orphans, late>>

\* Their wait, which is for the calls of the server that they shut; where there was
\* none they return at once.
ServerDrains(s, now, next) ==
  /\ run = now
  /\ GoTo(next)
  /\ \/ (gate[s] # "closing" \/ busy[s] = 0) /\ UNCHANGED late
     \/ gate[s] = "closing" /\ busy[s] > 0 /\ GiveUpOn(s)
  /\ UNCHANGED <<moduleVars, taker, windowVars, gate, busy, orphans>>

CloseServers ==
  \/ CloseServer(Cli, "closeCLI", "drainCLI")
  \/ ServerDrains(Cli, "drainCLI", "closeMCP")
  \/ CloseServer(Mcp, "closeMCP", "drainMCP")
  \/ ServerDrains(Mcp, "drainMCP", "stopping")

-----------------------------------------------------------------------------
Drain(w) == DrainBegins(w) \/ DrainEnds(w) \/ DrainExpires(w)

Teardown ==
  \/ \E w \in Windows : CloseBridge(w)
  \/ BridgeClosed \/ BridgeExpires \/ WaitForCloses \/ CloseServers

Next ==
  \/ BootStep \/ OpenServers \/ Takeover \/ LoopEnds \/ Teardown \/ DeferStop \/ StopStep \/ Return
  \/ \E s \in Surfaces : Accept(s) \/ Finish(s)
  \/ OrphanFinishes \/ DisableMCP \/ EnableMCP
  \/ \E w \in Windows : OpenWindow(w) \/ EventClose(w) \/ Drain(w)

Spec == Init /\ [][Next]_vars

\* Fairness: the goroutine of Run and those of the drains are scheduled, hooks
\* return, and deadlines pass.  Nothing makes a handler return.
Fairness ==
  /\ WF_vars(Teardown \/ DeferStop \/ StopStep \/ Return)
  /\ \A w \in Windows : WF_vars(Drain(w))

FairSpec == Spec /\ Fairness

-----------------------------------------------------------------------------
(* Properties.                                                             *)

\* What a handler may rely on.
ModulesRunning == \A m \in Enabled : life[m] = "running"

\* As long as a window accepts calls or a handler works for it, the modules run,
\* unless the deadline of that very window's drain passed: whether the window was
\* closed before, while or after the loop ended.
WindowCallsHaveModules ==
  \A w \in Windows :
    gate[w] = "open" \/ (busy[w] > 0 /\ w \notin late) => ModulesRunning

\* A command line socket that its takeover opened after closeCLI had run: nobody
\* closes it (Instances, ClosingWins).
Stray(s) == s = Cli /\ taker = "behind"

\* The same of the servers, for the calls of the agent socket that nobody switched
\* off under them, and for a command line socket opened at boot or by a takeover that
\* ended before closeCLI.
ServerCallsHaveModules ==
  \A s \in Servers : ~Stray(s) =>
    (gate[s] = "open" \/ (busy[s] > 0 /\ s \notin late) => ModulesRunning)

\* How far the closing of a window is: whether every Close of its dispatcher that began
\* has reported success.
WindowGate(w) ==
  IF gate[w] = "closing" /\ drains[w] = 0 /\ closing # w /\ w \notin late
  THEN "drained" ELSE gate[w]

\* Of a window's dispatcher Run assumes no more than Dispatcher does, however the
\* window's own closes and the teardown's overlap on it.
Window(w) == INSTANCE Surface WITH gate <- WindowGate(w), busy <- busy[w]
WindowsAreSurfaces ==
  /\ \A w \in Windows : Window(w)!Init
  /\ [][\A w \in Windows : [Window(w)!Next]_<<WindowGate(w), busy[w]>>]_vars

\* Once the loop has ended Run returns, however many handlers are stuck.
QuitReturns == run = "teardown" ~> run = "returned"

\* app.go on closeMCP: "Before the modules stop: a tool call must not land on a
\* torn-down database".
NoToolCallOnStoppedModules ==
  busy[Mcp] + orphans > 0 /\ Mcp \notin late => ModulesRunning

\* window/event.go on a veto: "keeps the window open".
OpenWindowIsServed ==
  run = "loop" => \A w \in shown : gate[w] = "open"
=============================================================================

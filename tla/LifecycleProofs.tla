--------------------------- MODULE LifecycleProofs ---------------------------
(***************************************************************************)
(* Theorems about Lifecycle, for any set of windows, any modules and any   *)
(* number of calls, closes and attempts: the modules go up and down as a   *)
(* stack, a start that fails leaves nothing behind, and no call of a       *)
(* window or a server meets modules that are down, unless the deadline of  *)
(* that very surface passed.                                               *)
(*                                                                         *)
(* The argument: LInv says who answers for a surface at each stage of Run. *)
(* A window that still takes calls or works on one is a bridge, or Run has *)
(* yet to close it, or a drain is counted for it; and none of the three is *)
(* left once Run is past the teardown.                                     *)
(***************************************************************************)
EXTENDS Lifecycle, TLAPS

-----------------------------------------------------------------------------
(* The modules, for any number of them, any choice of those enabled and of *)
(* those registered late.  The facts concern steps of the manager: below   *)
(* they are put into the App.Run around them.                              *)

\* What the manager notes of a module is what the module went through.
Agree ==
  \A m \in Mods :
    /\ state[m] \in {"absent", "registered"} <=> life[m] = "down"
    /\ state[m] = "loaded" <=> life[m] = "loaded"
    /\ state[m] = "started" <=> life[m] = "running"
    /\ state[m] = "stopped" <=> life[m] = "stopped"

\* No hook of a disabled module runs.
DisabledDown == \A m \in Mods \ Enabled : life[m] = "down"

\* How far the loop is tells what each enabled module went through.
Progress ==
  /\ boot \in {"idle", "down", "panicked"} => \A m \in Enabled : life[m] = "down"
  /\ boot = "loading" =>
       \A m \in Enabled : life[m] = IF m < at THEN "loaded" ELSE "down"
  /\ boot = "starting" =>
       \A m \in Enabled : life[m] = IF m < at THEN "running" ELSE "loaded"
  /\ boot = "up" => \A m \in Enabled : life[m] = "running"
  /\ boot = "stopping" =>
       \A m \in Enabled : m > NMods + 1 - at => life[m] # "running"
  /\ boot = "unloading" =>
       \A m \in Enabled :
         life[m] # "running" /\ (m > NMods + 1 - at => life[m] = "down")

MInv == ModulesTypeOK /\ Agree /\ DisabledDown /\ Progress /\ StackOrder

LEMMA InitMInv == ModulesInit => MInv
  <1> SUFFICES ASSUME ModulesInit PROVE MInv
    OBVIOUS
  <1> USE ModulesAssumption DEF ModulesInit, Mods
  <1>1. ModulesTypeOK
    <2>1. /\ state \in [Mods -> {"absent", "registered", "loaded", "started", "stopped"}]
          /\ life \in [Mods -> {"down", "loaded", "running", "stopped"}]
      OBVIOUS
    <2>2. started \in BOOLEAN /\ unwinding \in BOOLEAN
      BY Zenon
    <2>3. registry \subseteq Mods /\ boot \in Boots /\ at \in 1..(NMods + 1) /\ attempts \in Nat
      BY DEF Boots
    <2>4. QED
      BY <2>1, <2>2, <2>3, Zenon DEF ModulesTypeOK
  <1>2. Agree /\ DisabledDown
    <2>1. \A m \in Mods : state[m] \in {"absent", "registered"} /\ life[m] = "down"
      OBVIOUS
    <2>2. QED
      BY <2>1 DEF Agree, DisabledDown
  <1>3. \A m \in Enabled : life[m] = "down"
    OBVIOUS
  <1>4. Progress /\ StackOrder
    BY <1>3 DEF Progress, StackOrder
  <1>5. QED
    BY <1>1, <1>2, <1>4 DEF MInv

\* Loading and starting, up to the event loop.
LEMMA BootingMInv == MInv /\ Booting => MInv'
  <1> SUFFICES ASSUME MInv, Booting PROVE MInv'
    OBVIOUS
  <1> USE ModulesAssumption
      DEF MInv, ModulesTypeOK, Agree, DisabledDown, Progress, StackOrder,
          Boots, Mods, Loop, Advance, Note, Becomes, Unwind
  <1>1. CASE StartModules
    <2>1. UNCHANGED <<life, unwinding>> /\ at' = 1 /\ boot = "idle" /\ boot' = "loading"
      BY <1>1 DEF StartModules
    <2>2. ModulesTypeOK'
      <3>1. state' \in [Mods -> {"absent", "registered", "loaded", "started", "stopped"}]
        BY <1>1 DEF StartModules
      <3>2. registry' \subseteq Mods
        BY <1>1, Zenon DEF StartModules, Missing
      <3>3. attempts' \in Nat /\ started' \in BOOLEAN
        BY <1>1 DEF StartModules
      <3>4. QED
        BY <2>1, <3>1, <3>2, <3>3
    <2>3. ASSUME NEW m \in Mods
          PROVE  state'[m] = state[m] \/ (state'[m] = "registered" /\ state[m] = "absent")
      <3>1. /\ state'[m] = IF m \in Missing THEN "registered" ELSE state[m]
            /\ m \in Missing => state[m] = "absent"
        BY <1>1 DEF StartModules, Missing
      <3>2. QED
        BY <3>1
    <2>4. Agree'
      BY <2>1, <2>3
    <2>5. QED
      BY <2>1, <2>2, <2>4
  <1>2. CASE StartPanics
    BY <1>2 DEF StartPanics
  <1>3. CASE SkipDisabled
    BY <1>3 DEF SkipDisabled
  <1>4. CASE Load
    BY <1>4 DEF Load
  <1>5. CASE LoadFails
    BY <1>5 DEF LoadFails
  <1>6. CASE AllLoaded
    BY <1>6 DEF AllLoaded
  <1>7. CASE SkipUnloaded
    <2>1. at \notin Enabled
      BY <1>7 DEF SkipUnloaded
    <2>2. QED
      BY <1>7, <2>1 DEF SkipUnloaded
  <1>8. CASE Start
    <2>1. at \in Enabled /\ life[at] = "loaded"
      BY <1>8 DEF Start
    <2>2. QED
      BY <1>8, <2>1 DEF Start
  <1>9. CASE StartFails
    BY <1>9 DEF StartFails
  <1>10. CASE AllStarted
    BY <1>10 DEF AllStarted
  <1>11. QED
    BY <1>1, <1>2, <1>3, <1>4, <1>5, <1>6, <1>7, <1>8, <1>9, <1>10 DEF Booting

\* Stopping and unloading.
LEMMA StoppingMInv == MInv /\ (StopModules \/ Stopping) => MInv'
  <1> SUFFICES ASSUME MInv, StopModules \/ Stopping PROVE MInv'
    OBVIOUS
  <1> USE ModulesAssumption
      DEF MInv, ModulesTypeOK, Agree, DisabledDown, Progress, StackOrder,
          Boots, Mods, Loop, Advance, Note, Becomes, Turn
  <1>1. CASE StopModules
    BY <1>1 DEF StopModules
  <1>2. CASE Stop
    BY <1>2 DEF Stop
  <1>3. CASE SkipUnstarted
    BY <1>3 DEF SkipUnstarted
  <1>4. CASE AllStopped
    BY <1>4 DEF AllStopped
  <1>5. CASE Unload
    BY <1>5 DEF Unload, Unloads
  <1>6. CASE SkipRegistered
    BY <1>6 DEF SkipRegistered, Unloads
  <1>7. CASE AllUnloaded
    <2>1. /\ UNCHANGED <<registry, state, life, attempts>> /\ at' = 1
          /\ boot' \in {"idle", "down"}
      BY <1>7 DEF AllUnloaded
    <2>2. started' \in BOOLEAN /\ unwinding' \in BOOLEAN
      BY <1>7, Zenon DEF AllUnloaded
    <2>3. \A m \in Enabled : life[m] = "down"
      BY <1>7 DEF AllUnloaded
    <2>4. QED
      BY <2>1, <2>2, <2>3
  <1>8. QED
    BY <1>1, <1>2, <1>3, <1>4, <1>5, <1>6, <1>7 DEF Stopping

LEMMA UnchangedMInv == MInv /\ UNCHANGED moduleVars => MInv'
  BY DEF MInv, moduleVars, ModulesTypeOK, Agree, DisabledDown, Progress, StackOrder

\* The modules that are neither being started nor being stopped are all down, or
\* all those that are enabled run.
LEMMA RestingModules ==
  ASSUME MInv
  PROVE  /\ NothingLeft
         /\ boot = "up" => \A m \in Enabled : life[m] = "running"
  BY ModulesAssumption DEF MInv, NothingLeft, Progress, DisabledDown

\* A step that starts a module finds every enabled one loaded.
LEMMA StartFindsAllLoaded ==
  ASSUME MInv, Booting \/ StopModules \/ Stopping \/ UNCHANGED moduleVars,
         NEW m \in Mods, life[m] # "running", life'[m] = "running",
         NEW n \in Enabled
  PROVE  life[n] # "down"
  <1> USE DEF MInv, ModulesTypeOK, Becomes
  <1>1. boot = "starting"
    <2>1. ~UNCHANGED life
      OBVIOUS
    <2>2. CASE Booting
      BY <2>1, <2>2
      DEF Booting, StartModules, StartPanics, SkipDisabled, Load, LoadFails, AllLoaded,
          SkipUnloaded, Start, StartFails, AllStarted
    <2>3. CASE Stopping
      BY <2>1, <2>3
      DEF Stopping, Stop, SkipUnstarted, AllStopped, Unload, SkipRegistered, AllUnloaded
    <2>4. QED
      BY <2>1, <2>2, <2>3 DEF StopModules, moduleVars
  <1>2. QED
    BY <1>1, ModulesAssumption DEF Progress, Mods

-----------------------------------------------------------------------------
(* Lifecycle.                                                              *)

\* Before the loop nothing takes calls.
IdleQuiet ==
  run = "idle" => taker = "none" /\ \A s \in Surfaces : gate[s] = "shut" /\ busy[s] = 0

\* A window that takes calls is one that somebody is going to close.
OpenIsOwned ==
  \A w \in Windows : gate[w] = "open" => w \in bridges \union taken \/ drains[w] > 0

\* And one that has calls at work is one that somebody waits for.
BusyIsOwned ==
  \A w \in Windows : busy[w] > 0 =>
    gate[w] = "open" \/ drains[w] > 0 \/ closing = w \/ w \in late

\* Nobody is left to close, and nobody waits, past the teardown.
TornDown ==
  /\ run # "loop" => bridges = {}
  /\ run # "teardown" => taken = {} /\ closing = None
  /\ run \notin {"loop", "teardown"} => \A w \in Windows : drains[w] = 0

\* A server that is not there has no call at work, orphans aside.
ShutIdle == \A s \in Servers : gate[s] = "shut" => busy[s] = 0

\* The servers are shut, then drained or given up on, one after the other; but for
\* the one that a takeover opens behind closeCLI.
CliShut ==
  run \in {"drainCLI", "closeMCP", "drainMCP", "stopping", "returned"} =>
    gate[Cli] # "open" \/ taker = "behind"
CliDrained ==
  run \in {"closeMCP", "drainMCP", "stopping", "returned"} =>
    busy[Cli] = 0 \/ Cli \in late \/ taker = "behind"
McpShut == run \in {"drainMCP", "stopping", "returned"} => gate[Mcp] # "open"
McpDrained == run \in {"stopping", "returned"} => busy[Mcp] = 0 \/ Mcp \in late

UpWhileServing == run \notin {"idle", "stopping", "returned"} => boot = "up"

SurfaceInv == IdleQuiet /\ OpenIsOwned /\ BusyIsOwned /\ TornDown
ServerInv == ShutIdle /\ CliShut /\ CliDrained /\ McpShut /\ McpDrained
LInv == TypeOK /\ MInv /\ SurfaceInv /\ ServerInv /\ UpWhileServing

LEMMA InitLInv == Init => LInv
  <1> SUFFICES ASSUME Init PROVE LInv
    OBVIOUS
  <1>1. MInv
    BY InitMInv DEF Init
  <1>2. TypeOK
    BY <1>1, WindowsAssumption DEF Init, MInv, TypeOK, Runs, Takers
  <1>3. SurfaceInv
    BY WindowsAssumption
    DEF Init, SurfaceInv, IdleQuiet, OpenIsOwned, BusyIsOwned, TornDown, Surfaces
  <1>4. ServerInv /\ UpWhileServing
    BY DEF Init, Surfaces, ServerInv, ShutIdle, CliShut, CliDrained, McpShut, McpDrained, UpWhileServing
  <1>5. QED
    BY <1>1, <1>2, <1>3, <1>4 DEF LInv

\* The steps of the modules leave the surfaces alone.
LEMMA ModulesStep ==
  ASSUME LInv, BootStep \/ DeferStop \/ StopStep
  PROVE  LInv'
  <1>1. MInv'
    BY BootingMInv, StoppingMInv DEF LInv, BootStep, DeferStop, StopStep
  <1>2. UNCHANGED runVars
    BY DEF BootStep, DeferStop, StopStep
  <1>3. TypeOK' /\ SurfaceInv' /\ ServerInv'
    BY <1>1, <1>2
    DEF LInv, MInv, TypeOK, runVars, windowVars, surfaceVars, SurfaceInv, IdleQuiet,
        OpenIsOwned, BusyIsOwned, TornDown, ServerInv, ShutIdle, CliShut, CliDrained, McpShut,
        McpDrained
  <1>4. UpWhileServing'
    <2>1. run \in {"idle", "stopping", "returned"}
      <3>1. CASE StopStep
        <4>1. boot # "up"
          BY <3>1
          DEF StopStep, Stopping, Stop, SkipUnstarted, AllStopped, Unload,
              SkipRegistered, AllUnloaded
        <4>2. QED
          BY <4>1 DEF LInv, UpWhileServing
      <3>2. QED
        BY <3>1 DEF BootStep, DeferStop
    <2>2. QED
      BY <1>2, <2>1 DEF UpWhileServing, runVars
  <1>5. QED
    BY <1>1, <1>3, <1>4 DEF LInv

\* Every other step leaves the modules alone.
LEMMA RunStep ==
  ASSUME LInv, UNCHANGED moduleVars,
         \/ OpenServers \/ Takeover \/ LoopEnds \/ Teardown \/ Return
         \/ \E s \in Surfaces : Accept(s) \/ Finish(s)
         \/ OrphanFinishes \/ DisableMCP \/ EnableMCP
         \/ \E w \in Windows : OpenWindow(w) \/ EventClose(w) \/ Drain(w)
  PROVE  LInv'
  <1> USE WindowsAssumption
      DEF TypeOK, Runs, Takers, Surfaces, Servers, Cli, Mcp, SurfaceInv, IdleQuiet, OpenIsOwned,
          BusyIsOwned, TornDown, ServerInv, ShutIdle, CliShut, CliDrained, McpShut, McpDrained,
          UpWhileServing, moduleVars, windowVars, surfaceVars, GoTo, SetGate, GiveUpOn
  <1>0. MInv' /\ ModulesTypeOK' /\ boot' = boot
    BY UnchangedMInv DEF LInv, MInv
  <1>a. /\ TypeOK /\ SurfaceInv /\ ServerInv /\ UpWhileServing
    BY DEF LInv
  <1> DEFINE Kept == TypeOK' /\ SurfaceInv' /\ ServerInv' /\ UpWhileServing'
  <1>1. ASSUME OpenServers PROVE Kept
    <2>1. /\ run = "idle" /\ boot = "up" /\ run' = "loop"
          /\ UNCHANGED <<windowVars, busy, orphans, late>>
      BY <1>1 DEF OpenServers
    <2>2. PICK offered \in SUBSET Servers :
            /\ gate' = [s \in Surfaces |-> IF s \in offered THEN "open" ELSE gate[s]]
            /\ taker' \in IF Cli \in offered THEN {"none"} ELSE {"none", "waiting"}
      BY <1>1 DEF OpenServers
    <2>3. gate' \in [Surfaces -> {"shut", "open", "closing"}] /\ taker' \in Takers
      BY <1>a, <2>2
    <2>4. /\ \A w \in Windows : gate'[w] = gate[w]
          /\ \A s \in Servers : busy'[s] = 0
      BY <1>a, <2>1, <2>2
    <2>5. QED
      BY <1>0, <1>a, <2>1, <2>3, <2>4
  <1>24. ASSUME Takeover PROVE Kept
    BY <1>0, <1>a, <1>24
    DEF Takeover, TakerTries, TakerOpensNothing, TakerOpens, CliWanted
  <1>2. ASSUME LoopEnds PROVE Kept
    BY <1>0, <1>a, <1>2 DEF LoopEnds
  <1>3. ASSUME Return PROVE Kept
    BY <1>0, <1>a, <1>3 DEF Return
  <1>4. ASSUME BridgeClosed PROVE Kept
    BY <1>0, <1>a, <1>4 DEF BridgeClosed
  <1>5. ASSUME BridgeExpires PROVE Kept
    BY <1>0, <1>a, <1>5 DEF BridgeExpires
  <1>6. ASSUME WaitForCloses PROVE Kept
    BY <1>0, <1>a, <1>6 DEF WaitForCloses, ClosesDrained
  <1>7. ASSUME OrphanFinishes PROVE Kept
    BY <1>0, <1>a, <1>7 DEF OrphanFinishes
  <1>8. ASSUME DisableMCP PROVE Kept
    BY <1>0, <1>a, <1>8 DEF DisableMCP, Commanded
  <1>9. ASSUME EnableMCP PROVE Kept
    BY <1>0, <1>a, <1>9 DEF EnableMCP, Commanded, Hosting
  <1>10. ASSUME NEW s \in Surfaces, Accept(s) PROVE Kept
    BY <1>0, <1>a, <1>10 DEF Accept, Takes
  <1>11. ASSUME NEW s \in Surfaces, Finish(s) PROVE Kept
    BY <1>0, <1>a, <1>11 DEF Finish
  <1>12. ASSUME NEW w \in Windows, OpenWindow(w) PROVE Kept
    BY <1>0, <1>a, <1>12 DEF OpenWindow
  <1>13. ASSUME NEW w \in Windows, EventClose(w) PROVE Kept
    BY <1>0, <1>a, <1>13 DEF EventClose
  <1>14. ASSUME NEW w \in Windows, DrainBegins(w) PROVE Kept
    BY <1>0, <1>a, <1>14 DEF DrainBegins
  <1>15. ASSUME NEW w \in Windows, DrainEnds(w) PROVE Kept
    BY <1>0, <1>a, <1>15 DEF DrainEnds, Done
  <1>16. ASSUME NEW w \in Windows, DrainExpires(w) PROVE Kept
    BY <1>0, <1>a, <1>16 DEF DrainExpires, Done
  <1>17. ASSUME NEW w \in Windows, CloseBridge(w) PROVE Kept
    BY <1>0, <1>a, <1>17 DEF CloseBridge
  <1>18. ASSUME CloseServer(Cli, "closeCLI", "drainCLI") PROVE Kept
    BY <1>0, <1>a, <1>18 DEF CloseServer, Shut
  <1>19. ASSUME ServerDrains(Cli, "drainCLI", "closeMCP") PROVE Kept
    BY <1>0, <1>a, <1>19 DEF ServerDrains
  <1>20. ASSUME CloseServer(Mcp, "closeMCP", "drainMCP") PROVE Kept
    BY <1>0, <1>a, <1>20 DEF CloseServer, Shut
  <1>21. ASSUME ServerDrains(Mcp, "drainMCP", "stopping") PROVE Kept
    BY <1>0, <1>a, <1>21 DEF ServerDrains
  <1>22. Kept
    <2>1. Teardown => Kept
      BY <1>4, <1>5, <1>6, <1>17, <1>18, <1>19, <1>20, <1>21 DEF Teardown, CloseServers
    <2>2. QED
      BY <1>1, <1>2, <1>3, <1>7, <1>8, <1>9, <1>10, <1>11, <1>12, <1>13, <1>14, <1>15,
         <1>16, <1>24, <2>1 DEF Drain
  <1>23. QED
    BY <1>0, <1>22 DEF LInv

\* Which steps leave the modules alone.
LEMMA NextSplits ==
  ASSUME Next
  PROVE  \/ BootStep \/ DeferStop \/ StopStep
         \/ /\ UNCHANGED moduleVars
            /\ \/ OpenServers \/ Takeover \/ LoopEnds \/ Teardown \/ Return
               \/ \E s \in Surfaces : Accept(s) \/ Finish(s)
               \/ OrphanFinishes \/ DisableMCP \/ EnableMCP
               \/ \E w \in Windows : OpenWindow(w) \/ EventClose(w) \/ Drain(w)
  <1>1. CASE OpenServers \/ LoopEnds \/ Return \/ OrphanFinishes \/ DisableMCP \/ EnableMCP
    BY <1>1 DEF OpenServers, LoopEnds, Return, OrphanFinishes, DisableMCP, EnableMCP
  <1>6. CASE Takeover
    BY <1>6 DEF Takeover, TakerTries, TakerOpensNothing, TakerOpens
  <1>2. CASE Teardown
    BY <1>2
    DEF Teardown, CloseBridge, BridgeClosed, BridgeExpires, WaitForCloses, CloseServers,
        CloseServer, ServerDrains
  <1>3. CASE \E s \in Surfaces : Accept(s) \/ Finish(s)
    BY <1>3 DEF Accept, Finish
  <1>4. CASE \E w \in Windows : OpenWindow(w) \/ EventClose(w) \/ Drain(w)
    BY <1>4 DEF OpenWindow, EventClose, Drain, DrainBegins, DrainEnds, DrainExpires
  <1>5. QED
    BY <1>1, <1>2, <1>3, <1>4, <1>6 DEF Next

LEMMA StepLInv == LInv /\ [Next]_vars => LInv'
  <1> SUFFICES ASSUME LInv, [Next]_vars PROVE LInv'
    OBVIOUS
  <1>1. CASE Next
    BY <1>1, NextSplits, ModulesStep, RunStep
  <1>2. CASE UNCHANGED vars
    <2>1. MInv' /\ UNCHANGED moduleVars /\ UNCHANGED runVars
      BY <1>2, UnchangedMInv DEF LInv, vars
    <2>2. TypeOK' /\ SurfaceInv'
      BY <2>1
      DEF LInv, MInv, TypeOK, runVars, windowVars, surfaceVars, SurfaceInv, IdleQuiet,
          OpenIsOwned, BusyIsOwned, TornDown
    <2>3. ServerInv' /\ UpWhileServing'
      BY <2>1
      DEF LInv, runVars, surfaceVars, moduleVars, ServerInv, ShutIdle, CliShut, CliDrained,
          McpShut, McpDrained, UpWhileServing
    <2>4. QED
      BY <2>1, <2>2, <2>3 DEF LInv
  <1>3. QED
    BY <1>1, <1>2

\* The inductive invariant holds in every state of every run of App.Run.
THEOREM Invariant == Spec => []LInv
  BY InitLInv, StepLInv, PTL DEF Spec

\* Every variable of the modules and of Run keeps its type; no drain, no handler
\* and no orphan is counted out that was not counted in.
THEOREM TypeCorrect == Spec => []TypeOK
  <1>1. LInv => TypeOK
    BY DEF LInv
  <1>2. QED
    BY <1>1, Invariant, PTL

\* module/manager.go: the modules go up in order and down in reverse, through every
\* failure, for any number of modules.
THEOREM StackKept == Spec => []StackOrder
  <1>1. LInv => StackOrder
    BY DEF LInv, MInv
  <1>2. QED
    BY <1>1, Invariant, PTL

\* app/modules.go: a start that failed, wherever it did, left no module behind.
THEOREM Unwound == Spec => []NothingLeft
  <1>1. LInv => NothingLeft
    BY RestingModules DEF LInv
  <1>2. QED
    BY <1>1, Invariant, PTL

\* app/app.go and app/window.go: no call of a window meets modules that are down,
\* for any number of windows, closed in whatever order before, while or after the
\* event loop ends.
THEOREM WindowCallsServed == Spec => []WindowCallsHaveModules
  <1>1. LInv => WindowCallsHaveModules
    <2> SUFFICES ASSUME LInv,
                        NEW w \in Windows,
                        gate[w] = "open" \/ (busy[w] > 0 /\ w \notin late)
                 PROVE  ModulesRunning
      BY DEF WindowCallsHaveModules
    <2>1. run \notin {"idle", "stopping", "returned"}
      BY WindowsAssumption
      DEF LInv, SurfaceInv, IdleQuiet, OpenIsOwned, BusyIsOwned, TornDown, TypeOK, Surfaces
    <2>2. QED
      BY <2>1, RestingModules DEF LInv, UpWhileServing, ModulesRunning
  <1>2. QED
    BY <1>1, Invariant, PTL

\* app/cli_attach.go and app/mcp.go: nor does a call of the command line socket, nor
\* one of the agent socket that is there when Run comes to close it.
THEOREM ServerCallsServed == Spec => []ServerCallsHaveModules
  <1>1. LInv => ServerCallsHaveModules
    <2> SUFFICES ASSUME LInv,
                        NEW s \in Servers,
                        ~Stray(s), gate[s] = "open" \/ (busy[s] > 0 /\ s \notin late)
                 PROVE  ModulesRunning
      BY DEF ServerCallsHaveModules
    <2>1. run \notin {"idle", "stopping", "returned"}
      BY DEF LInv, SurfaceInv, IdleQuiet, ServerInv, CliShut, CliDrained, McpShut, McpDrained,
             TypeOK, Surfaces, Servers, Stray
    <2>2. QED
      BY <2>1, RestingModules DEF LInv, UpWhileServing, ModulesRunning
  <1>2. QED
    BY <1>1, Invariant, PTL

\* module/module.go on OnStart, "after all modules loaded": of every step of a run.
THEOREM StartsLate == Spec => StartsAfterAllLoaded
  <1>1. LInv /\ [Next]_vars =>
          [\A m \in Mods : life[m] # "running" /\ life'[m] = "running" =>
             \A n \in Enabled : life[n] # "down"]_moduleVars
    <2> SUFFICES ASSUME LInv, [Next]_vars,
                        NEW m \in Mods, life[m] # "running", life'[m] = "running",
                        NEW n \in Enabled
                 PROVE  life[n] # "down"
      OBVIOUS
    <2>1. Booting \/ StopModules \/ Stopping \/ UNCHANGED moduleVars
      BY NextSplits DEF BootStep, DeferStop, StopStep, vars
    <2>2. QED
      BY <2>1, StartFindsAllLoaded DEF LInv
  <1>2. QED
    BY <1>1, Invariant, PTL DEF Spec, StartsAfterAllLoaded

-----------------------------------------------------------------------------
(* Why three promises of the comments fail: each is kept by every run that *)
(* avoids the one step that TLC's counterexample takes.                    *)

\* The registry knows a module that the manager has forgotten only after a start
\* that failed, and only one that the configuration enables.
RetryInv ==
  /\ boot # "idle" => attempts > 0
  /\ \A m \in Defaults :
       state[m] = "absent" /\ m \in registry => m \in Enabled /\ attempts > 0
  /\ boot = "panicked" => attempts > 1 /\ Defaults \intersect Enabled # {}

LEMMA StepRetry ==
  ASSUME MInv, RetryInv, Booting \/ StopModules \/ Stopping \/ UNCHANGED moduleVars
  PROVE  RetryInv'
  <1> USE ModulesAssumption
      DEF MInv, ModulesTypeOK, RetryInv, Mods, Note, Becomes, Loop, Advance, Unwind
  <1>1. CASE StartModules
    BY <1>1 DEF StartModules, Missing
  <1>2. CASE StartPanics
    <2>1. PICK m \in Defaults : state[m] = "absent" /\ m \in registry
      BY <1>2 DEF StartPanics, Missing
    <2>2. m \in Enabled /\ attempts > 0
      BY <2>1
    <2>3. QED
      BY <1>2, <2>1, <2>2 DEF StartPanics
  <1>3. CASE SkipDisabled \/ Load \/ LoadFails \/ AllLoaded
    BY <1>3 DEF SkipDisabled, Load, LoadFails, AllLoaded
  <1>4. CASE SkipUnloaded \/ Start \/ StartFails \/ AllStarted
    BY <1>4 DEF SkipUnloaded, Start, StartFails, AllStarted
  <1>5. CASE StopModules \/ Stop \/ SkipUnstarted \/ AllStopped \/ SkipRegistered \/ AllUnloaded
    BY <1>5 DEF StopModules, Stop, SkipUnstarted, AllStopped, SkipRegistered, AllUnloaded
  <1>6. CASE Unload
    <2>1. life[Turn] # "down" \/ state[Turn] = "absent"
      BY <1>6 DEF Unload, Unloads, Turn, Agree
    <2>2. state[Turn] # "absent" => Turn \in Enabled
      BY <1>6, <2>1 DEF Unload, Turn, DisabledDown
    <2>3. QED
      BY <1>6, <2>2 DEF Unload, Turn
  <1>7. CASE UNCHANGED moduleVars
    BY <1>7 DEF moduleVars
  <1>8. QED
    BY <1>1, <1>2, <1>3, <1>4, <1>5, <1>6, <1>7 DEF Booting, Stopping

\* modules.go on a failed start, "so a later call can retry": only a retry panics, and
\* only where the failed start had loaded a default module.
THEOREM PanicIsOfARetry ==
  Spec => [](~RetrySurvives => attempts > 1 /\ Defaults \intersect Enabled # {})
  <1>1. Init => RetryInv
    BY DEF Init, ModulesInit, RetryInv, Mods
  <1>2. LInv /\ RetryInv /\ [Next]_vars => RetryInv'
    <2> SUFFICES ASSUME LInv, RetryInv, [Next]_vars PROVE RetryInv'
      OBVIOUS
    <2>1. Booting \/ StopModules \/ Stopping \/ UNCHANGED moduleVars
      BY NextSplits DEF BootStep, DeferStop, StopStep, vars
    <2>2. QED
      BY <2>1, StepRetry DEF LInv
  <1>3. RetryInv => (~RetrySurvives => attempts > 1 /\ Defaults \intersect Enabled # {})
    BY DEF RetryInv, RetrySurvives
  <1>4. QED
    BY <1>1, <1>2, <1>3, Invariant, PTL DEF Spec

\* A window on the screen takes calls, as long as no close was vetoed.
NoVeto == [][\A w \in Windows : EventClose(w) => w \notin shown']_vars

ShownInv ==
  /\ run = "idle" => shown = {}
  /\ \A w \in Windows : gate[w] = "shut" => w \notin shown /\ drains[w] = 0
  /\ run = "loop" => \A w \in shown : gate[w] = "open" /\ drains[w] = 0

\* window/event.go on a veto, "keeps the window open": until the first veto every
\* window on the screen is served.
THEOREM ServedUntilAVeto == Spec /\ NoVeto => []OpenWindowIsServed
  <1>1. Init => ShownInv
    BY DEF Init, ShownInv, Surfaces
  <1>2. ASSUME LInv, ShownInv, [Next]_vars,
               [\A w \in Windows : EventClose(w) => w \notin shown']_vars
        PROVE  ShownInv'
    <2> USE WindowsAssumption
        DEF ShownInv, TypeOK, Surfaces, Servers, Cli, Mcp, TornDown, vars, runVars,
            windowVars, surfaceVars, GoTo, SetGate, GiveUpOn
    <2>0. TypeOK /\ TornDown /\ ShownInv
      BY <1>2 DEF LInv, SurfaceInv
    <2>1. CASE UNCHANGED vars
      BY <1>2, <2>1
    <2>2. CASE BootStep \/ DeferStop \/ StopStep
      BY <2>0, <2>2 DEF BootStep, DeferStop, StopStep
    <2>3. CASE OpenServers
      BY <2>0, <2>3 DEF OpenServers
    <2>4. CASE Takeover \/ LoopEnds \/ Return \/ OrphanFinishes \/ DisableMCP \/ EnableMCP
      BY <2>0, <2>4
      DEF Takeover, TakerTries, TakerOpensNothing, TakerOpens, LoopEnds, Return, OrphanFinishes, DisableMCP, EnableMCP
    <2>5. CASE Teardown
      <3>1. CASE CloseServers
        BY <2>0, <3>1 DEF CloseServers, CloseServer, ServerDrains, Shut
      <3>2. CASE BridgeClosed \/ BridgeExpires \/ WaitForCloses
        BY <2>0, <3>2 DEF BridgeClosed, BridgeExpires, WaitForCloses
      <3>3. ASSUME NEW w \in Windows, CloseBridge(w) PROVE ShownInv'
        BY <2>0, <3>3 DEF CloseBridge
      <3>4. QED
        BY <2>5, <3>1, <3>2, <3>3 DEF Teardown
    <2>6. ASSUME NEW s \in Surfaces, Accept(s) \/ Finish(s) PROVE ShownInv'
      BY <2>0, <2>6 DEF Accept, Finish
    <2>7. ASSUME NEW w \in Windows, OpenWindow(w) PROVE ShownInv'
      BY <2>0, <2>7 DEF OpenWindow
    <2>8. ASSUME NEW w \in Windows, EventClose(w) PROVE ShownInv'
      <3>1. shown' = shown \ {w} \/ UNCHANGED vars
        BY <1>2, <2>8 DEF EventClose
      <3>2. QED
        BY <2>0, <2>8, <3>1 DEF EventClose
    <2>9. ASSUME NEW w \in Windows, Drain(w) PROVE ShownInv'
      BY <2>0, <2>9 DEF Drain, DrainBegins, DrainEnds, DrainExpires, Done
    <2>10. QED
      BY <1>2, <2>1, <2>2, <2>3, <2>4, <2>5, <2>6, <2>7, <2>8, <2>9 DEF Next
  <1>3. ShownInv => OpenWindowIsServed
    BY DEF ShownInv, OpenWindowIsServed
  <1>4. QED
    BY <1>1, <1>2, <1>3, Invariant, PTL DEF Spec, NoVeto

\* The agent socket is never switched off under a call.
NobodyOrphaned == [][DisableMCP => busy[Mcp] = 0]_vars

NoOrphans == orphans = 0

\* app.go on closeMCP, "a tool call must not land on a torn-down database": kept by
\* every run in which the socket is switched off only between calls.
THEOREM ToolCallsServedUnlessOrphaned ==
  Spec /\ NobodyOrphaned => []NoToolCallOnStoppedModules
  <1>1. Init => NoOrphans
    BY DEF Init, NoOrphans
  <1>2. ASSUME LInv, NoOrphans, [Next]_vars, [DisableMCP => busy[Mcp] = 0]_vars
        PROVE  NoOrphans'
    <2>1. CASE DisableMCP
      BY <1>2, <2>1 DEF NoOrphans, DisableMCP, vars, runVars, surfaceVars
    <2>2. CASE ~DisableMCP
      <3> USE DEF NoOrphans, vars, runVars, surfaceVars
      <3>1. CASE Teardown
        BY <1>2, <3>1
        DEF Teardown, CloseBridge, BridgeClosed, BridgeExpires, WaitForCloses, CloseServers,
            CloseServer, ServerDrains
      <3>2. CASE \E s \in Surfaces : Accept(s) \/ Finish(s)
        BY <1>2, <3>2 DEF Accept, Finish
      <3>3. CASE \E w \in Windows : OpenWindow(w) \/ EventClose(w) \/ Drain(w)
        BY <1>2, <3>3 DEF OpenWindow, EventClose, Drain, DrainBegins, DrainEnds, DrainExpires
      <3>4. QED
        BY <1>2, <2>2, <3>1, <3>2, <3>3
        DEF Next, BootStep, DeferStop, StopStep, OpenServers, Takeover, TakerTries,
            TakerOpensNothing, TakerOpens, LoopEnds, Return, OrphanFinishes, EnableMCP
    <2>3. QED
      BY <2>1, <2>2
  <1>3. LInv /\ NoOrphans /\ ServerCallsHaveModules => NoToolCallOnStoppedModules
    BY DEF NoOrphans, LInv, TypeOK, Surfaces, Servers, ServerCallsHaveModules, Stray,
           Cli, Mcp, NoToolCallOnStoppedModules
  <1>4. QED
    BY <1>1, <1>2, <1>3, Invariant, ServerCallsServed, PTL DEF Spec, NobodyOrphaned

-----------------------------------------------------------------------------
(* What Lifecycle takes a window's dispatcher to be is what Dispatcher is. *)

\* Only a window that was opened is closed.
ShutInv == \A w \in Windows : gate[w] = "shut" => w \notin bridges \union taken

LEMMA StepShut ==
  ASSUME LInv, ShutInv, [Next]_vars
  PROVE  ShutInv'
  <1> USE WindowsAssumption
      DEF ShutInv, TypeOK, Surfaces, Servers, Cli, Mcp, vars, runVars, windowVars,
          surfaceVars, GoTo, SetGate, GiveUpOn
  <1>0. TypeOK
    BY DEF LInv
  <1>1. CASE UNCHANGED vars \/ BootStep \/ DeferStop \/ StopStep
    BY <1>1 DEF BootStep, DeferStop, StopStep
  <1>2. CASE OpenServers \/ LoopEnds \/ Return \/ OrphanFinishes \/ DisableMCP \/ EnableMCP
    BY <1>0, <1>2 DEF OpenServers, LoopEnds, Return, OrphanFinishes, DisableMCP, EnableMCP
  <1>8. CASE Takeover
    BY <1>0, <1>8 DEF Takeover, TakerTries, TakerOpensNothing, TakerOpens
  <1>3. CASE CloseServers
    BY <1>0, <1>3 DEF CloseServers, CloseServer, ServerDrains, Shut
  <1>4. CASE BridgeClosed \/ BridgeExpires \/ WaitForCloses
    BY <1>4 DEF BridgeClosed, BridgeExpires, WaitForCloses
  <1>5. ASSUME NEW w \in Windows, CloseBridge(w) PROVE ShutInv'
    BY <1>0, <1>5 DEF CloseBridge
  <1>6. ASSUME NEW s \in Surfaces, Accept(s) \/ Finish(s) PROVE ShutInv'
    BY <1>6 DEF Accept, Finish
  <1>7. ASSUME NEW w \in Windows, OpenWindow(w) \/ EventClose(w) \/ Drain(w) PROVE ShutInv'
    BY <1>0, <1>7 DEF OpenWindow, EventClose, Drain, DrainBegins, DrainEnds, DrainExpires
  <1> QED
    BY <1>1, <1>2, <1>3, <1>4, <1>5, <1>6, <1>7, <1>8 DEF Next, Teardown

LEMMA StepSurface ==
  ASSUME LInv, ShutInv, [Next]_vars, NEW w \in Windows
  PROVE  [Window(w)!Next]_<<WindowGate(w), busy[w]>>
  <1> USE WindowsAssumption
      DEF TypeOK, Surfaces, Servers, Cli, Mcp, vars, runVars, windowVars, surfaceVars, GoTo,
          SetGate, GiveUpOn, WindowGate
  <1> DEFINE Step == [Window(w)!Next]_<<WindowGate(w), busy[w]>>
  <1>0. TypeOK /\ BusyIsOwned /\ ShutInv
    BY DEF LInv, SurfaceInv
  <1>1. ASSUME UNCHANGED <<gate, busy, drains, closing, late>> PROVE Step
    BY <1>1
  <1>2. CASE UNCHANGED vars \/ BootStep \/ DeferStop \/ StopStep
    BY <1>1, <1>2 DEF BootStep, DeferStop, StopStep
  <1>3. CASE LoopEnds \/ Return \/ OrphanFinishes \/ WaitForCloses
    BY <1>1, <1>3 DEF LoopEnds, Return, OrphanFinishes, WaitForCloses
  <1>4. CASE OpenServers \/ DisableMCP \/ EnableMCP
    <2>1. UNCHANGED <<gate[w], busy[w], drains, closing, late>>
      BY <1>0, <1>4 DEF OpenServers, DisableMCP, EnableMCP
    <2> QED
      BY <2>1
  <1>16. CASE Takeover
    <2>1. UNCHANGED <<gate[w], busy[w], drains, closing, late>>
      BY <1>0, <1>16 DEF Takeover, TakerTries, TakerOpensNothing, TakerOpens
    <2> QED
      BY <2>1
  <1>5. CASE CloseServers
    <2>1. UNCHANGED <<gate[w], busy[w], drains, closing>> /\ (w \in late' <=> w \in late)
      BY <1>0, <1>5 DEF CloseServers, CloseServer, ServerDrains, Shut
    <2> QED
      BY <2>1
  <1>6. ASSUME NEW s \in Surfaces, Accept(s) PROVE Step
    BY <1>0, <1>6 DEF Accept, Takes, Window!Next, Window!Accept
  <1>7. ASSUME NEW s \in Surfaces, Finish(s) PROVE Step
    BY <1>0, <1>7 DEF Finish, Window!Next, Window!Finish
  <1>8. ASSUME NEW v \in Windows, OpenWindow(v) PROVE Step
    BY <1>0, <1>8 DEF OpenWindow, Window!Next, Window!Open
  <1>9. ASSUME NEW v \in Windows, EventClose(v) PROVE Step
    BY <1>0, <1>9 DEF EventClose, Window!Next, Window!Close
  <1>10. ASSUME NEW v \in Windows, DrainBegins(v) PROVE Step
    BY <1>0, <1>10 DEF DrainBegins, Window!Next, Window!Close
  <1>11. ASSUME NEW v \in Windows, DrainEnds(v) PROVE Step
    BY <1>0, <1>11 DEF DrainEnds, Done, Window!Next, Window!Drained
  <1>12. ASSUME NEW v \in Windows, DrainExpires(v) PROVE Step
    BY <1>0, <1>12 DEF DrainExpires, Done
  <1>13. ASSUME NEW v \in Windows, CloseBridge(v) PROVE Step
    BY <1>0, <1>13 DEF CloseBridge, ShutInv, Window!Next, Window!Close
  <1>14. CASE BridgeClosed
    BY <1>0, <1>14 DEF BridgeClosed, Window!Next, Window!Drained
  <1>15. CASE BridgeExpires
    BY <1>0, <1>15 DEF BridgeExpires
  <1> QED
    BY <1>2, <1>3, <1>4, <1>5, <1>6, <1>7, <1>8, <1>9, <1>10, <1>11, <1>12, <1>13, <1>14, <1>15, <1>16
    DEF Next, Teardown, Drain

\* app.go and window.go count on no more of a window's dispatcher than Surface says,
\* however many closes of one window overlap with each other and with the teardown.
THEOREM WindowsKeepToSurface == Spec => WindowsAreSurfaces
  <1>1. Init => ShutInv /\ \A w \in Windows : Window(w)!Init
    BY DEF Init, ShutInv, Surfaces, WindowGate, Window!Init
  <1>2. LInv /\ ShutInv /\ [Next]_vars => ShutInv'
    BY StepShut
  <1>3. LInv /\ ShutInv /\ [Next]_vars =>
          [\A w \in Windows : [Window(w)!Next]_<<WindowGate(w), busy[w]>>]_vars
    BY StepSurface
  <1> QED
    BY <1>1, <1>2, <1>3, Invariant, PTL DEF Spec, WindowsAreSurfaces

=============================================================================

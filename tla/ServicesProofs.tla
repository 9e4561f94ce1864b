----------------------------- MODULE ServicesProofs -----------------------------
(***************************************************************************)
(* Theorems about the services around the bridge: the supervisor of a      *)
(* child, the instances of an app, its MCP tools and its pages in a        *)
(* browser; and about all nine services together, as MCServices puts them. *)
(***************************************************************************)
EXTENDS MCServices, AgentProofs, FilesProofs

-----------------------------------------------------------------------------
(* The supervisor.  p.cmd is the latest child, and no launch follows before *)
(* that one is gone, nor after a Stop that saw it.                         *)

\* p.cmd names the latest child once it is past its launch, and before a launch
\* the child of the last one is gone.
LatestChild ==
  /\ alive \subseteq {launched}
  /\ supPc \in {"launch", "backoff", "done", "failed"} => alive = {}
  /\ supPc \in {"health", "reap", "watch"} => cmd = launched
  /\ supPc \in {"attach", "health", "reap", "watch"} => launched > 0

\* OnExit is told at the end of a supervision, once, and not when Stop ended it.
ToldAtEnd ==
  /\ told = 0 \/ (told = 1 /\ supPc = "done")
  /\ supPc = "done" /\ ~stopped => told = 1

\* Only a supervision is stopped.
StopSeen ==
  /\ stopPc = "idle" <=> ~stopped
  /\ stopped => Supervised

SupInv == SupTypeOK /\ LatestChild /\ ToldAtEnd /\ StopSeen /\ StopLeavesNone

LEMMA InitSupInv == SupInit => SupInv
  <1> SUFFICES ASSUME SupInit PROVE SupInv
    OBVIOUS
  <1> USE SupAssumption DEF SupInit
  <1>1. SupTypeOK
    <2>1. stopped \in BOOLEAN
      OBVIOUS
    <2>2. 1 \in 1..Ports /\ 0 \in 0..MaxLaunches /\ 0 \in 0..MaxRestarts
      OBVIOUS
    <2>3. alive \subseteq Children /\ killed \subseteq Children
      OBVIOUS
    <2>4. QED
      BY <2>1, <2>2, <2>3 DEF SupTypeOK
  <1>2. LatestChild /\ ToldAtEnd
    BY DEF LatestChild, ToldAtEnd
  <1>3. StopSeen /\ StopLeavesNone
    BY DEF StopSeen, StopLeavesNone
  <1> QED
    BY <1>1, <1>2, <1>3 DEF SupInv

LEMMA StepSupInv == SupInv /\ [SupNext]_supVars => SupInv'
  <1> SUFFICES ASSUME SupInv, [SupNext]_supVars PROVE SupInv'
    OBVIOUS
  <1> USE SupAssumption
      DEF SupInv, SupTypeOK, LatestChild, ToldAtEnd, StopSeen, StopLeavesNone, Supervised,
          Exited, Children
  <1>1. CASE Spawn
    BY <1>1 DEF Spawn
  <1>2. CASE SpawnFails
    BY <1>2 DEF SpawnFails, LaunchFails
  <1>3. CASE Attach
    BY <1>3 DEF Attach
  <1>4. CASE Healthy
    BY <1>4 DEF Healthy
  <1>5. CASE ExitedEarly
    BY <1>5 DEF ExitedEarly, LaunchFails
  <1>6. CASE GiveUp
    BY <1>6 DEF GiveUp
  <1>7. CASE Reap
    BY <1>7 DEF Reap, LaunchFails
  <1>8. CASE SeesExit
    BY <1>8 DEF SeesExit, MayRestart
  <1>9. CASE BackedOff
    BY <1>9 DEF BackedOff
  <1>10. CASE StopMarks
    BY <1>10 DEF StopMarks
  <1>11. CASE StopKills
    BY <1>11 DEF StopKills
  <1>12. CASE StopReturns
    BY <1>12 DEF StopReturns
  <1>13. CASE ChildExits
    BY <1>13 DEF ChildExits
  <1>14. CASE UNCHANGED supVars
    BY <1>14 DEF supVars
  <1> QED
    BY <1>1, <1>2, <1>3, <1>4, <1>5, <1>6, <1>7, <1>8, <1>9, <1>10, <1>11, <1>12, <1>13, <1>14
    DEF SupNext

\* Where the supervision is tells which child there may be.
THEOREM SupInductive == SupSpec => []SupInv
  BY InitSupInv, StepSupInv, PTL DEF SupSpec

\* At most one child runs at a time, and OnExit is told once, at the end (proc.go).
THEOREM SupOneChild == SupSpec => []OneChild
  <1>1. SupInv => OneChild
    BY DEF SupInv, LatestChild, ToldAtEnd, OneChild
  <1> QED
    BY <1>1, SupInductive, PTL

\* A Stop that saw the child leaves none alive that was not killed and lets none be
\* launched, before and after it returns; one that returned nil leaves none (proc.go).
THEOREM SupStop == SupSpec => []StopLeavesNone
  <1>1. SupInv => StopLeavesNone
    BY DEF SupInv
  <1> QED
    BY <1>1, SupInductive, PTL

-----------------------------------------------------------------------------
(* The instances of an app that is single-instance.  Whoever has gone past *)
(* the lock and not yet given it back holds it, so what it knows of the    *)
(* socket's path and of the endpoint file stays true: every step that could *)
(* undo it is a step of the holder.                                        *)

Opened == Running \cup {"drain", "stopped"}
Held == Opened \cup {"unlink", "listen", "remove", "unlock"}
Before == {"off", "dial", "lock", "wait"}

\* What holding the lock means.
LockInv ==
  \A p \in Procs : /\ main[p] \in Held => flock = p
                   /\ main[p] \in Opened => sock = p /\ p \in live

\* The goroutine of startCLI belongs to a process past the lock.
TakerHolds ==
  \A p \in Procs : main[p] \in Before \cup {"unlink", "listen", "start"} => taker[p] = "none" /\ p \notin cli

\* What it has done so far, while its process runs.
TakerInv ==
  \A p \in Procs : main[p] \in Running =>
    /\ taker[p] \in {"write", "set"} => p \in serving
    /\ taker[p] = "set" => endpoint = p
    /\ p \in cli => taker[p] = "over" /\ endpoint = p /\ p \in serving

InstInv == InstTypeOK /\ (Single => LockInv /\ TakerHolds /\ TakerInv)

LEMMA InitInstInv == InstInit => InstInv
  BY InstAssumption
  DEF InstInit, InstInv, InstTypeOK, LockInv, TakerHolds, TakerInv, Running, Ended, Opened, Held, Before

\* The state has the right type after every step.
LEMMA StepType == InstTypeOK /\ [InstNext]_instVars => InstTypeOK'
  <1> SUFFICES ASSUME InstTypeOK, [InstNext]_instVars PROVE InstTypeOK'
    OBVIOUS
  <1> USE InstAssumption DEF InstTypeOK, Running, Ended, Goes, Takes, lockVars, cliVars
  <1>1. CASE UNCHANGED instVars
    BY <1>1 DEF instVars
  <1>2. ASSUME NEW p \in Procs,
               Launch(p) \/ Dial(p) \/ TakeLock(p) \/ LockHeld(p) \/ Redial(p)
        PROVE  InstTypeOK'
    BY <1>2 DEF Launch, Dial, TakeLock, LockHeld, Redial
  <1>3. ASSUME NEW p \in Procs,
               Unlink(p) \/ Listen(p) \/ CloseListener(p) \/ RemoveSocket(p) \/ Unlock(p)
        PROVE  InstTypeOK'
    BY <1>3 DEF Unlink, Listen, CloseListener, RemoveSocket, Unlock
  <1>4. ASSUME NEW p \in Procs, OpenCLI(p) \/ OpenedCLI(p) \/ CloseCLI(p) \/ RemoveOwn(p)
        PROVE  InstTypeOK'
    BY <1>4 DEF OpenCLI, OpenedCLI, CloseCLI, RemoveOwn
  <1>5. ASSUME NEW p \in Procs, StartFails(p) \/ Crash(p)
        PROVE  InstTypeOK'
    BY <1>5 DEF StartFails, Crash
  <1>6. ASSUME NEW p \in Procs, TakerStep(p)
        PROVE  InstTypeOK'
    BY <1>6 DEF TakerStep, Tick, LookLive, RemoveDead, ListenCLI, WriteEndpoint, SetCLI
  <1> QED
    BY <1>1, <1>2, <1>3, <1>4, <1>5, <1>6 DEF InstNext

\* Only the holder of the lock touches what LockInv speaks of.
LEMMA StepLock ==
  ASSUME Single, InstTypeOK, LockInv, [InstNext]_instVars
  PROVE  LockInv'
  <1> USE InstAssumption
      DEF InstTypeOK, LockInv, Running, Ended, Opened, Held, Goes, Takes, lockVars, cliVars
  <1>1. CASE UNCHANGED instVars
    BY <1>1 DEF instVars
  <1>2. ASSUME NEW q \in Procs, Launch(q) \/ Dial(q) \/ LockHeld(q) \/ Redial(q)
        PROVE  LockInv'
    BY <1>2, Single DEF Launch, Dial, LockHeld, Redial
  <1>3. ASSUME NEW q \in Procs, TakeLock(q)
        PROVE  LockInv'
    BY <1>3 DEF TakeLock
  <1>4. ASSUME NEW q \in Procs, Unlink(q)
        PROVE  LockInv'
    BY <1>4 DEF Unlink
  <1>5. ASSUME NEW q \in Procs, Listen(q)
        PROVE  LockInv'
    BY <1>5 DEF Listen
  <1>6. ASSUME NEW q \in Procs, CloseListener(q)
        PROVE  LockInv'
    BY <1>6, Single DEF CloseListener
  <1>7. ASSUME NEW q \in Procs, RemoveSocket(q) \/ Unlock(q)
        PROVE  LockInv'
    BY <1>7 DEF RemoveSocket, Unlock
  <1>8. ASSUME NEW q \in Procs,
               OpenCLI(q) \/ OpenedCLI(q) \/ CloseCLI(q) \/ RemoveOwn(q) \/ StartFails(q)
        PROVE  LockInv'
    BY <1>8 DEF OpenCLI, OpenedCLI, CloseCLI, RemoveOwn, StartFails
  <1>9. ASSUME NEW q \in Procs, Crash(q)
        PROVE  LockInv'
    BY <1>9 DEF Crash
  <1>10. ASSUME NEW q \in Procs, TakerStep(q)
         PROVE  LockInv'
    BY <1>10 DEF TakerStep, Tick, LookLive, RemoveDead, ListenCLI, WriteEndpoint, SetCLI
  <1> QED
    BY <1>1, <1>2, <1>3, <1>4, <1>5, <1>6, <1>7, <1>8, <1>9, <1>10 DEF InstNext

\* And only the holder has a startCLI that takes steps: the process that runs.
LEMMA StepTaker ==
  ASSUME Single, InstTypeOK, LockInv, TakerHolds, TakerInv, [InstNext]_instVars
  PROVE  TakerHolds' /\ TakerInv'
  <1> USE InstAssumption
      DEF InstTypeOK, LockInv, TakerHolds, TakerInv, Running, Ended, Opened, Held, Before,
          Goes, Takes, lockVars, cliVars
  <1>1. CASE UNCHANGED instVars
    BY <1>1 DEF instVars
  <1>2. ASSUME NEW q \in Procs, Launch(q) \/ Dial(q) \/ TakeLock(q) \/ LockHeld(q) \/ Redial(q)
        PROVE  TakerHolds' /\ TakerInv'
    BY <1>2, Single DEF Launch, Dial, TakeLock, LockHeld, Redial
  <1>3. ASSUME NEW q \in Procs,
               Unlink(q) \/ Listen(q) \/ CloseListener(q) \/ RemoveSocket(q) \/ Unlock(q)
        PROVE  TakerHolds' /\ TakerInv'
    BY <1>3, Single DEF Unlink, Listen, CloseListener, RemoveSocket, Unlock
  <1>4. ASSUME NEW q \in Procs, OpenCLI(q) \/ OpenedCLI(q)
        PROVE  TakerHolds' /\ TakerInv'
    BY <1>4 DEF OpenCLI, OpenedCLI
  <1>5. ASSUME NEW q \in Procs, CloseCLI(q) \/ RemoveOwn(q) \/ StartFails(q)
        PROVE  TakerHolds' /\ TakerInv'
    BY <1>5 DEF CloseCLI, RemoveOwn, StartFails
  <1>6. ASSUME NEW q \in Procs, Crash(q)
        PROVE  TakerHolds' /\ TakerInv'
    BY <1>6 DEF Crash
  <1>7. ASSUME NEW q \in Procs, TakerStep(q)
        PROVE  TakerHolds' /\ TakerInv'
    <2>1. main[q] \in Held /\ taker[q] # "none" /\ UNCHANGED main
      BY <1>7 DEF TakerStep, Tick, LookLive, RemoveDead, ListenCLI, WriteEndpoint, SetCLI
    <2>2. \A p \in Procs : main[p] \in Running => p = q
      BY <2>1
    <2>3. CASE Tick(q) \/ LookLive(q) \/ RemoveDead(q)
      BY <2>1, <2>2, <2>3 DEF Tick, LookLive, RemoveDead
    <2>4. CASE ListenCLI(q)
      BY <2>1, <2>2, <2>4 DEF ListenCLI
    <2>5. CASE WriteEndpoint(q)
      BY <2>1, <2>2, <2>5 DEF WriteEndpoint
    <2>6. CASE SetCLI(q)
      BY <2>1, <2>2, <2>6 DEF SetCLI
    <2> QED
      BY <1>7, <2>3, <2>4, <2>5, <2>6 DEF TakerStep
  <1> QED
    BY <1>1, <1>2, <1>3, <1>4, <1>5, <1>6, <1>7 DEF InstNext

\* The invariant holds of every run of the processes.
THEOREM InstancesInductive == InstSpec => []InstInv
  <1>1. InstInv /\ [InstNext]_instVars => InstInv'
    BY StepType, StepLock, StepTaker DEF InstInv
  <1> QED
    BY InitInstInv, <1>1, PTL DEF InstSpec

\* Whatever the processes of the app do or leave behind in a crash, the one
\* that runs holds the lock, and the activation socket leads to it.
THEOREM RunningIsReachable == InstSpec => []PrimaryReachable
  <1>1. InstInv => PrimaryReachable
    BY DEF InstInv, LockInv, PrimaryReachable, Opened, Held
  <1> QED
    BY InstancesInductive, <1>1, PTL

\* A command finds the server of the process that runs, if it has one.
THEOREM CommandsReachIt == InstSpec => []CommandsFindTheApp
  <1>1. InstInv => CommandsFindTheApp
    BY DEF InstInv, TakerInv, CommandsFindTheApp
  <1> QED
    BY InstancesInductive, <1>1, PTL

\* Why the comment on the takeover fails: no close comes while startCLI is at work.
CloseBetweenTicks ==
  [][\A p \in Procs : CloseCLI(p) => taker[p] \in {"none", "tick", "over"}]_instVars

\* Then what closeCLI left cannot be undone: before Run opened the command line
\* nothing is there, and afterwards the goroutine is between two ticks.
ClosedInv ==
  /\ InstTypeOK
  /\ \A p \in Procs :
       /\ main[p] \in Before \cup {"unlink", "listen", "start"} =>
            taker[p] = "none" /\ p \notin cli /\ p \in cliStop
       /\ main[p] = "open" => taker[p] # "none"
       /\ main[p] \in {"drain", "stopped", "remove", "unlock"} =>
            taker[p] \in {"none", "tick", "over"} /\ p \notin cli /\ p \in cliStop

LEMMA StepClosed ==
  ASSUME ClosedInv, InstTypeOK', [InstNext]_instVars,
         \A p \in Procs : CloseCLI(p) => taker[p] \in {"none", "tick", "over"}
  PROVE  ClosedInv'
  <1> USE InstAssumption
      DEF ClosedInv, InstTypeOK, Before, Running, Ended, Goes, Takes, lockVars, cliVars
  <1>1. CASE UNCHANGED instVars
    BY <1>1 DEF instVars
  <1>2. ASSUME NEW p \in Procs,
               Launch(p) \/ Dial(p) \/ TakeLock(p) \/ LockHeld(p) \/ Redial(p) \/ Unlink(p) \/ Listen(p)
        PROVE  ClosedInv'
    BY <1>2 DEF Launch, Dial, TakeLock, LockHeld, Redial, Unlink, Listen
  <1>3. ASSUME NEW p \in Procs,
               CloseListener(p) \/ RemoveSocket(p) \/ Unlock(p) \/ StartFails(p) \/ Crash(p)
        PROVE  ClosedInv'
    BY <1>3 DEF CloseListener, RemoveSocket, Unlock, StartFails, Crash
  <1>4. ASSUME NEW p \in Procs, OpenCLI(p) \/ OpenedCLI(p) PROVE ClosedInv'
    BY <1>4 DEF OpenCLI, OpenedCLI
  <1>5. ASSUME NEW p \in Procs, CloseCLI(p) \/ RemoveOwn(p) PROVE ClosedInv'
    BY <1>5 DEF CloseCLI, RemoveOwn
  <1>6. ASSUME NEW p \in Procs, TakerStep(p) PROVE ClosedInv'
    BY <1>6 DEF TakerStep, Tick, LookLive, RemoveDead, ListenCLI, WriteEndpoint, SetCLI
  <1> QED
    BY <1>1, <1>2, <1>3, <1>4, <1>5, <1>6 DEF InstNext

\* cli_attach.go on a tick and a close that land together, "closing wins": kept by
\* every process that closes between two ticks.
THEOREM ClosingWinsBetweenTicks == InstSpec /\ CloseBetweenTicks => []ClosingWins
  <1>1. InstInit => ClosedInv
    BY InstAssumption DEF InstInit, ClosedInv, InstTypeOK, Ended, Running, Before
  <1>2. ClosedInv /\ InstInv' /\ [InstNext]_instVars
          /\ [\A p \in Procs : CloseCLI(p) => taker[p] \in {"none", "tick", "over"}]_instVars
          => ClosedInv'
    <2>1. ASSUME ClosedInv, NEW p \in Procs, CloseCLI(p) PROVE ~UNCHANGED instVars
      <3>1. main[p] = "run" /\ main'[p] \in {"drain", "stopped"}
        BY <2>1 DEF CloseCLI, Goes, ClosedInv, InstTypeOK
      <3> QED
        BY <3>1 DEF instVars
    <2> QED
      BY <2>1, StepClosed DEF InstInv
  <1>3. ClosedInv => ClosingWins
    BY DEF ClosedInv, ClosingWins
  <1> QED
    BY InstancesInductive, <1>1, <1>2, <1>3, PTL DEF InstSpec, CloseBetweenTicks

-----------------------------------------------------------------------------
(* The MCP tools.  The calls of a connection that have arrived are the first *)
(* turn[c] of it, each waits for the one before, and so all before a call  *)
(* that has begun are done.  A call with a dialog is the one that asking   *)
(* names, so no other can pass the gate until it has deleted itself, and a *)
(* Deny is recorded while it still has not.                                *)

Begun == Working \cup {"done"}

\* Calls arrive in order, and each waits for the one before it.
Queue ==
  \A c \in Conns, i \in CallNos :
    /\ tool[<<c, i>>] = "absent" <=> i > turn[c]
    /\ tool[<<c, i>>] # "absent" => ahead[<<c, i>>] = i - 1

\* A call came on a connection of a server that was made.
Served ==
  /\ on => served > 0
  /\ \A c \in Conns : conn[c] # "none" => home[c] > 0
  /\ \A c \in Conns, i \in CallNos : tool[<<c, i>>] # "absent" => conn[c] # "none"

\* The call with a dialog is the one that its server's asking names.
Asks == \A k \in ToolCalls : tool[k] \in InDialog => asking[home[k[1]]] = k

\* It asks for a program that was not refused, until its own answer is in.
Asked == \A k \in ToolCalls : tool[k] \in {"dialog", "yes", "no"} => home[k[1]] \notin refused

\* A Deny was remembered or dropped, or the call that asked has yet to do so.
Denials ==
  \A s \in denied :
    s \in refused \cup dropped \/ \E k \in ToolCalls : home[k[1]] = s /\ tool[k] = "no"

\* Nothing is approved, or about to run, without an Allow.
Allowed ==
  /\ approved => consented
  /\ \A k \in ToolCalls : tool[k] \in {"yes", "forget_yes", "confirm", "run"} => consented

McpInv == McpTypeOK /\ Queue /\ Served /\ TurnsInOrder /\ Asks /\ Asked /\ Allowed /\ Denials

States == {"absent", "queued", "done"} \cup Working

LEMMA CallParts ==
  \A k \in ToolCalls : k[1] \in Conns /\ k[2] \in CallNos /\ k = <<k[1], k[2]>>
  BY DEF ToolCalls

LEMMA PairsAreCalls == \A c \in Conns, i \in CallNos : <<c, i>> \in ToolCalls
  BY DEF ToolCalls

LEMMA NoCallIsNone == NoCall \notin ToolCalls
  BY McpAssumption DEF ToolCalls, CallNos

LEMMA InitMcpInv == McpInit => McpInv
  <1> SUFFICES ASSUME McpInit PROVE McpInv
    OBVIOUS
  <1> USE McpAssumption DEF McpInit
  <1>1. McpTypeOK
    <2>1. 0 \in 0..MaxServers /\ 0 \in 0..MaxToolCalls /\ {} \subseteq ToolCalls /\ {} \subseteq Servers
      OBVIOUS
    <2>2. "absent" \in States /\ "none" \in {"none", "open", "gone"}
      BY DEF States
    <2> QED
      BY <2>1, <2>2 DEF McpTypeOK, States
  <1>2. Queue /\ Served /\ TurnsInOrder
    BY PairsAreCalls DEF Queue, Served, TurnsInOrder, CallNos, Working, InDialog
  <1>3. Asks /\ Asked /\ Allowed /\ Denials
    BY DEF Asks, Asked, Allowed, Denials, InDialog
  <1> QED
    BY <1>1, <1>2, <1>3 DEF McpInv

LEMMA ServedCall ==
  ASSUME McpTypeOK, Served, NEW k \in ToolCalls, tool[k] # "absent"
  PROVE  home[k[1]] \in Servers
  <1>1. PICK c \in Conns, i \in CallNos : k = <<c, i>>
    BY DEF ToolCalls
  <1>2. tool[<<c, i>>] # "absent" /\ k[1] = c
    BY <1>1
  <1>3. home[c] > 0
    BY <1>2 DEF Served
  <1> QED
    BY <1>2, <1>3, McpAssumption DEF McpTypeOK, Servers

LEMMA StepMcpType == McpTypeOK /\ Served /\ [McpNext]_mcpVars => McpTypeOK'
  <1> SUFFICES ASSUME McpTypeOK, Served, [McpNext]_mcpVars PROVE McpTypeOK'
    OBVIOUS
  <1> USE McpAssumption DEF McpTypeOK, Servers, turnVars, consentVars, clicks, socketVars
  <1>1. CASE UNCHANGED mcpVars
    BY <1>1 DEF mcpVars
  <1>2. CASE SwitchOn
    <2>1. served + 1 \in 0..MaxServers
      BY <1>2 DEF SwitchOn
    <2> QED
      BY <1>2, <2>1 DEF SwitchOn
  <1>5. CASE SwitchOff
    <2>1. conn' \in [Conns -> {"none", "open", "gone"}]
      BY <1>5 DEF SwitchOff
    <2>2. cancelled' \subseteq ToolCalls
      BY <1>5 DEF SwitchOff, Of
    <2> QED
      BY <1>5, <2>1, <2>2 DEF SwitchOff
  <1>6. CASE Revoke
    <2>1. conn' \in [Conns -> {"none", "open", "gone"}]
      BY <1>6 DEF Revoke
    <2> QED
      BY <1>6, <2>1 DEF Revoke
  <1>3. ASSUME NEW c \in Conns, ConnectTo(c) \/ HangUp(c) \/ GraceOver(c)
        PROVE  McpTypeOK'
    <2>1. {c} \X CallNos \subseteq ToolCalls
      BY DEF ToolCalls
    <2>2. CASE ConnectTo(c)
      BY SMTT(40), <2>2 DEF ConnectTo
    <2>4. CASE HangUp(c)
      BY SMTT(40), <2>4 DEF HangUp
    <2>3. CASE GraceOver(c)
      BY <2>1, <2>3 DEF GraceOver
    <2> QED
      BY <1>3, <2>2, <2>3, <2>4
  <1>4. ASSUME NEW k \in ToolCalls, CallStep(k)
        PROVE  McpTypeOK'
    <2>1. k[1] \in Conns /\ k[2] \in 0..MaxToolCalls
      BY CallParts DEF CallNos
    <2>2. tool' \in [ToolCalls -> States]
      BY ZenonT(40), <1>4 DEF CallStep, Arrive, BeginCall, CancelTool, CheckTool, LookApproved, Gate, Waited,
                  UserAnswers, Remember, Forget, ConfirmTool, RunTool, Moves, States, Working, InDialog
    <2>3. UNCHANGED socketVars
      BY <1>4 DEF CallStep, Arrive, BeginCall, CancelTool, CheckTool, LookApproved, Gate, Waited,
                  UserAnswers, Remember, Forget, ConfirmTool, RunTool
    <2>4. turn' \in [Conns -> 0..MaxToolCalls] /\ ahead' \in [ToolCalls -> 0..MaxToolCalls]
      <3>1. CASE Arrive(k)
        BY <2>1, <3>1 DEF Arrive
      <3> QED
        BY <1>4, <3>1 DEF CallStep, BeginCall, CancelTool, CheckTool, LookApproved, Gate, Waited,
                  UserAnswers, Remember, Forget, ConfirmTool, RunTool, Replied
    <2>10. current' \in [Conns -> 0..MaxToolCalls]
      <3>1. \/ current' = current \/ current' = [current EXCEPT ![k[1]] = 0]
            \/ current' = [current EXCEPT ![k[1]] = k[2]]
        BY <1>4 DEF CallStep, Arrive, BeginCall, CancelTool, CheckTool, LookApproved, Gate, Waited,
                  UserAnswers, Remember, Forget, ConfirmTool, RunTool, Replied
      <3>2. 0 \in 0..MaxToolCalls /\ current \in [Conns -> 0..MaxToolCalls]
        OBVIOUS
      <3> HIDE DEF McpTypeOK
      <3> QED
        BY <2>1, <3>1, <3>2
    <2>5. cancelled' \subseteq ToolCalls
      BY ZenonT(40), <1>4 DEF CallStep, Arrive, BeginCall, CancelTool, CheckTool, LookApproved, Gate, Waited,
                  UserAnswers, Remember, Forget, ConfirmTool, RunTool
    <2>6. waits' \in [ToolCalls -> ToolCalls \cup {NoCall}]
      <3>1. CASE Gate(k)
        <4>1. waits' = waits \/ waits' = [waits EXCEPT ![k] = asking[home[k[1]]]]
          BY <3>1 DEF Gate
        <4>3. home[k[1]] \in Servers
          BY <3>1, ServedCall DEF Gate
        <4> QED
          BY <4>1, <4>3
      <3> QED
        BY <1>4, <3>1 DEF CallStep, Arrive, BeginCall, CancelTool, CheckTool, LookApproved, Waited,
                  UserAnswers, Remember, Forget, ConfirmTool, RunTool
    <2>7. asking' \in [Servers -> ToolCalls \cup {NoCall}]
      BY <1>4 DEF CallStep, Arrive, BeginCall, CancelTool, CheckTool, LookApproved, Gate, Waited,
                  UserAnswers, Remember, Forget, ConfirmTool, RunTool
    <2>8. refused' \subseteq Servers
      <3>1. CASE Remember(k)
        <4>2. home[k[1]] \in Servers
          BY <3>1, ServedCall DEF Remember, Moves
        <4> QED
          BY <3>1, <4>2 DEF Remember
      <3> QED
        BY <1>4, <3>1 DEF CallStep, Arrive, BeginCall, CancelTool, CheckTool, LookApproved, Gate, Waited,
                  UserAnswers, Forget, ConfirmTool, RunTool
    <2>11. denied' \subseteq Servers /\ dropped' \subseteq Servers
      <3>1. CASE UserAnswers(k) \/ Remember(k)
        <4>1. home[k[1]] \in Servers
          BY <3>1, ServedCall DEF UserAnswers, Remember, Moves
        <4> QED
          BY <3>1, <4>1 DEF UserAnswers, Remember
      <3> QED
        BY <1>4, <3>1 DEF CallStep, Arrive, BeginCall, CancelTool, CheckTool, LookApproved, Gate, Waited,
                  Forget, ConfirmTool, RunTool
    <2>9. approved' \in BOOLEAN /\ consented' \in BOOLEAN
      BY <1>4 DEF CallStep, Arrive, BeginCall, CancelTool, CheckTool, LookApproved, Gate, Waited,
                  UserAnswers, Remember, Forget, ConfirmTool, RunTool
    <2> QED
      BY <2>2, <2>3, <2>4, <2>5, <2>6, <2>7, <2>8, <2>9, <2>10, <2>11 DEF States
  <1> QED
    BY <1>1, <1>2, <1>3, <1>4, <1>5, <1>6 DEF McpNext

-----------------------------------------------------------------------------
(* Turns *)

\* What a step of call k does to the calls: k alone moves, to a turn in Arrive,
\* to its beginning in BeginCall, and from there on it works or is done.
LEMMA CallMoves ==
  ASSUME McpTypeOK, NEW k \in ToolCalls, CallStep(k), ~Arrive(k), ~BeginCall(k)
  PROVE  /\ \A j \in ToolCalls : j # k => tool'[j] = tool[j]
         /\ UNCHANGED <<turn, ahead, conn, home, served, on>>
         /\ \/ UNCHANGED <<tool, current>>
            \/ tool[k] \in Working /\ tool'[k] \in Working /\ UNCHANGED current
            \/ tool[k] \in Working /\ tool'[k] = "done" /\ current' = [current EXCEPT ![k[1]] = 0]
  <1> USE DEF McpTypeOK, Moves, Replied, turnVars, socketVars, Working, InDialog
  <1>1. CASE CancelTool(k)
    BY <1>1 DEF CancelTool
  <1>2. CASE CheckTool(k) \/ LookApproved(k) \/ ConfirmTool(k) \/ RunTool(k)
    BY <1>2 DEF CheckTool, LookApproved, ConfirmTool, RunTool
  <1>3. CASE Gate(k)
    BY <1>3 DEF Gate
  <1>4. CASE Waited(k)
    BY <1>4 DEF Waited
  <1>5. CASE UserAnswers(k)
    BY <1>5 DEF UserAnswers
  <1>6. CASE Remember(k)
    BY <1>6 DEF Remember
  <1>7. CASE Forget(k)
    BY <1>7 DEF Forget
  <1> QED
    BY <1>1, <1>2, <1>3, <1>4, <1>5, <1>6, <1>7 DEF CallStep

LEMMA StepTurns ==
  ASSUME McpTypeOK, Queue, Served, TurnsInOrder, [McpNext]_mcpVars
  PROVE  Queue' /\ Served' /\ TurnsInOrder'
  <1> USE McpAssumption, PairsAreCalls DEF Queue, Served, TurnsInOrder
  <1>1. CASE UNCHANGED mcpVars
    BY <1>1 DEF mcpVars
  <1>2. CASE SwitchOn \/ SwitchOff \/ Revoke
    BY <1>2 DEF SwitchOn, SwitchOff, Revoke, turnVars, consentVars, McpTypeOK
  <1>3. ASSUME NEW c \in Conns, ConnectTo(c) \/ HangUp(c) \/ GraceOver(c)
        PROVE  Queue' /\ Served' /\ TurnsInOrder'
    BY <1>3 DEF ConnectTo, HangUp, GraceOver, turnVars, consentVars, socketVars, McpTypeOK
  <1>4. ASSUME NEW k \in ToolCalls, Arrive(k)
        PROVE  Queue' /\ Served' /\ TurnsInOrder'
    <2>1. PICK c \in Conns, i \in CallNos : k = <<c, i>>
      BY DEF ToolCalls
    <2>2. /\ tool[<<c, i>>] = "absent" /\ conn[c] = "open"
          /\ tool' = [tool EXCEPT ![<<c, i>>] = "queued"]
          /\ ahead' = [ahead EXCEPT ![<<c, i>>] = turn[c]] /\ turn' = [turn EXCEPT ![c] = i]
          /\ \A h \in 1..(i - 1) : tool[<<c, h>>] # "absent"
          /\ UNCHANGED <<current, conn, home, on, served>>
      BY <1>4, <2>1 DEF Arrive, Moves, socketVars
    <2>3. turn[c] = i - 1
      <3>1. turn[c] \in 0..MaxToolCalls /\ i > turn[c]
        BY <2>2 DEF McpTypeOK
      <3>2. CASE i = 1
        BY <3>1, <3>2
      <3>3. CASE i # 1
        <4>1. i - 1 \in CallNos /\ i - 1 \in 1..(i - 1)
          BY <3>3 DEF CallNos
        <4>2. ~(i - 1 > turn[c])
          BY <2>2, <4>1
        <4> QED
          BY <3>1, <4>2 DEF CallNos
      <3> QED
        BY <3>2, <3>3
    <2>7. \A d \in Conns, j \in CallNos :
            /\ tool'[<<d, j>>] = IF d = c /\ j = i THEN "queued" ELSE tool[<<d, j>>]
            /\ ahead'[<<d, j>>] = IF d = c /\ j = i THEN i - 1 ELSE ahead[<<d, j>>]
            /\ turn'[d] = IF d = c THEN i ELSE turn[d]
      <3> SUFFICES ASSUME NEW d \in Conns, NEW j \in CallNos
                   PROVE  /\ tool'[<<d, j>>] = IF d = c /\ j = i THEN "queued" ELSE tool[<<d, j>>]
                          /\ ahead'[<<d, j>>] = IF d = c /\ j = i THEN i - 1 ELSE ahead[<<d, j>>]
                          /\ turn'[d] = IF d = c THEN i ELSE turn[d]
        OBVIOUS
      <3>1. <<d, j>> \in ToolCalls /\ (<<d, j>> = <<c, i>> <=> d = c /\ j = i)
        OBVIOUS
      <3>2. tool'[<<d, j>>] = IF d = c /\ j = i THEN "queued" ELSE tool[<<d, j>>]
        BY <2>2, <3>1 DEF McpTypeOK
      <3>3. ahead'[<<d, j>>] = IF d = c /\ j = i THEN i - 1 ELSE ahead[<<d, j>>]
        BY <2>2, <2>3, <3>1 DEF McpTypeOK
      <3>4. turn'[d] = IF d = c THEN i ELSE turn[d]
        BY <2>2 DEF McpTypeOK
      <3> QED
        BY <3>2, <3>3, <3>4
    <2>4. Queue'
      <3> SUFFICES ASSUME NEW d \in Conns, NEW j \in CallNos
                   PROVE  /\ tool'[<<d, j>>] = "absent" <=> j > turn'[d]
                          /\ tool'[<<d, j>>] # "absent" => ahead'[<<d, j>>] = j - 1
        OBVIOUS
      <3>1. CASE d # c
        BY <2>7, <3>1
      <3>2. CASE d = c /\ j = i
        BY <2>7, <3>2 DEF CallNos
      <3>3. CASE d = c /\ j # i
        BY <2>3, <2>7, <3>3 DEF CallNos
      <3> QED
        BY <3>1, <3>2, <3>3
    <2>5. Served'
      BY <2>2, <2>7
    <2>6. TurnsInOrder'
      <3>1. \A h \in CallNos : h > i => tool[<<c, h>>] = "absent"
        BY <2>3 DEF CallNos
      <3> SUFFICES ASSUME NEW d \in Conns, NEW i1 \in CallNos, NEW j1 \in CallNos
                   PROVE  /\ i1 < j1 /\ tool'[<<d, j1>>] \notin {"absent", "queued"} => tool'[<<d, i1>>] = "done"
                          /\ current'[d] = i1 <=> tool'[<<d, i1>>] \in Working
        BY DEF Working
      <3>2. CASE d # c
        BY <2>2, <2>7, <3>2
      <3>3. CASE d = c
        BY <2>2, <2>7, <3>1, <3>3 DEF Working, InDialog, CallNos
      <3> QED
        BY <3>2, <3>3
    <2> QED
      BY <2>4, <2>5, <2>6
  <1>5. ASSUME NEW k \in ToolCalls, BeginCall(k)
        PROVE  Queue' /\ Served' /\ TurnsInOrder'
    <2>1. PICK c \in Conns, i \in CallNos : k = <<c, i>>
      BY DEF ToolCalls
    <2>2. /\ tool[<<c, i>>] = "queued"
          /\ tool' = [tool EXCEPT ![<<c, i>>] = "begin"]
          /\ current' = [current EXCEPT ![c] = i]
          /\ ahead[<<c, i>>] # 0 => tool[<<c, ahead[<<c, i>>]>>] = "done"
          /\ UNCHANGED <<turn, ahead, conn, home, on, served>>
      BY <1>5, <2>1 DEF BeginCall, MyTurn, Moves, socketVars
    <2>3. \A h \in CallNos : h < i => tool[<<c, h>>] = "done"
      <3>1. ahead[<<c, i>>] = i - 1
        BY <2>2
      <3>2. CASE i = 1
        BY <3>2 DEF CallNos
      <3>3. CASE i # 1
        <4>1. i - 1 \in CallNos /\ tool[<<c, i - 1>>] = "done"
          BY <2>2, <3>1, <3>3 DEF CallNos
        <4> QED
          BY <4>1 DEF CallNos
      <3> QED
        BY <3>2, <3>3
    <2>4. \A h \in CallNos : h > i => tool[<<c, h>>] \in {"absent", "queued"}
      BY <2>2 DEF CallNos
    <2>5. Queue' /\ Served'
      BY <2>2 DEF McpTypeOK
    <2>6. TurnsInOrder'
      <3> SUFFICES ASSUME NEW d \in Conns, NEW i1 \in CallNos, NEW j1 \in CallNos
                   PROVE  /\ i1 < j1 /\ tool'[<<d, j1>>] \notin {"absent", "queued"} => tool'[<<d, i1>>] = "done"
                          /\ current'[d] = i1 <=> tool'[<<d, i1>>] \in Working
        BY DEF Working
      <3>1. CASE d # c
        BY <2>2, <3>1 DEF McpTypeOK
      <3>2. CASE d = c
        BY <2>2, <2>3, <2>4, <3>2 DEF McpTypeOK, Working, InDialog, CallNos
      <3> QED
        BY <3>1, <3>2
    <2> QED
      BY <2>5, <2>6
  <1>6. ASSUME NEW k \in ToolCalls, CallStep(k), ~Arrive(k), ~BeginCall(k)
        PROVE  Queue' /\ Served' /\ TurnsInOrder'
    <2>1. PICK c \in Conns, i \in CallNos : k = <<c, i>>
      BY DEF ToolCalls
    <2>2. /\ \A d \in Conns, j \in CallNos : <<d, j>> # <<c, i>> => tool'[<<d, j>>] = tool[<<d, j>>]
          /\ UNCHANGED <<turn, ahead, conn, home, served, on>>
          /\ \/ UNCHANGED <<tool, current>>
             \/ tool[<<c, i>>] \in Working /\ tool'[<<c, i>>] \in Working /\ UNCHANGED current
             \/ /\ tool[<<c, i>>] \in Working /\ tool'[<<c, i>>] = "done"
                /\ current' = [current EXCEPT ![c] = 0]
      BY <1>6, <2>1, CallMoves
    <2>3. Queue' /\ Served'
      BY <2>2 DEF Working, InDialog
    <2>4. TurnsInOrder'
      <3>1. CASE UNCHANGED <<tool, current>>
        BY <3>1
      <3>2. CASE tool[<<c, i>>] \in Working /\ tool'[<<c, i>>] \in Working /\ UNCHANGED current
        BY <2>2, <3>2 DEF Working, InDialog
      <3>3. CASE /\ tool[<<c, i>>] \in Working /\ tool'[<<c, i>>] = "done"
                 /\ current' = [current EXCEPT ![c] = 0]
        <4> SUFFICES ASSUME NEW d \in Conns, NEW i1 \in CallNos, NEW j1 \in CallNos
                     PROVE  /\ i1 < j1 /\ tool'[<<d, j1>>] \notin {"absent", "queued"} => tool'[<<d, i1>>] = "done"
                            /\ current'[d] = i1 <=> tool'[<<d, i1>>] \in Working
          BY DEF Working
        <4>1. CASE d # c
          BY <2>2, <3>3, <4>1 DEF McpTypeOK
        <4>2. CASE d = c
          <5>1. current[c] = i /\ current'[c] = 0 /\ i1 # 0
            BY <3>3 DEF McpTypeOK, CallNos
          <5>2. i1 # i => tool'[<<c, i1>>] = tool[<<c, i1>>] /\ tool[<<c, i1>>] \notin Working
            BY <2>2, <5>1
          <5>3. \A j \in CallNos : j # i => tool'[<<c, j>>] = tool[<<c, j>>]
            BY <2>2
          <5>4. "done" \notin Working /\ i1 < j1 => i1 # j1
            BY DEF Working, InDialog, CallNos
          <5>5. i1 < j1 /\ tool'[<<c, j1>>] \notin {"absent", "queued"} => tool'[<<c, i1>>] = "done"
            BY <2>2, <3>3, <5>2, <5>3, <5>4 DEF Working, InDialog
          <5>6. current'[c] = i1 <=> tool'[<<c, i1>>] \in Working
            BY <3>3, <5>1, <5>2 DEF Working, InDialog
          <5> QED
            BY <4>2, <5>5, <5>6
        <4> QED
          BY <4>1, <4>2
      <3> QED
        BY <2>2, <3>1, <3>2, <3>3
    <2> QED
      BY <2>3, <2>4
  <1> QED
    BY <1>1, <1>2, <1>3, <1>4, <1>5, <1>6 DEF McpNext, CallStep
-----------------------------------------------------------------------------
(* Consent *)

LEMMA StepConsent ==
  ASSUME McpTypeOK, Served, Served', Asks, Asked, Allowed, [McpNext]_mcpVars
  PROVE  Asks' /\ Asked' /\ Allowed'
  <1> USE McpAssumption, NoCallIsNone DEF Asks, Asked, Allowed
  <1>1. CASE UNCHANGED mcpVars
    BY <1>1 DEF mcpVars
  <1>2. CASE SwitchOn \/ SwitchOff \/ Revoke
    BY <1>2 DEF SwitchOn, SwitchOff, Revoke, turnVars, consentVars, clicks, McpTypeOK
  <1>3. ASSUME NEW c \in Conns, ConnectTo(c)
        PROVE  Asks' /\ Asked' /\ Allowed'
    <2>1. \A j \in ToolCalls : tool[j] # "absent" => home'[j[1]] = home[j[1]]
      <3> SUFFICES ASSUME NEW j \in ToolCalls, tool[j] # "absent" PROVE home'[j[1]] = home[j[1]]
        OBVIOUS
      <3>1. j[1] \in Conns /\ conn[j[1]] # "none"
        BY CallParts DEF Served
      <3> QED
        BY <1>3, <3>1 DEF ConnectTo, McpTypeOK
    <2> QED
      BY <1>3, <2>1 DEF ConnectTo, turnVars, consentVars, clicks, InDialog
  <1>4. ASSUME NEW c \in Conns, HangUp(c) \/ GraceOver(c)
        PROVE  Asks' /\ Asked' /\ Allowed'
    BY <1>4 DEF HangUp, GraceOver, turnVars, consentVars, clicks, socketVars
  <1>5. ASSUME NEW k \in ToolCalls, CallStep(k)
        PROVE  Asks' /\ Asked' /\ Allowed'
    <2> DEFINE s == home[k[1]]
    <2>0. tool[k] # "absent" => s \in Servers
      BY ServedCall
    <2>1. CASE Arrive(k) \/ BeginCall(k) \/ CancelTool(k) \/ CheckTool(k) \/ ConfirmTool(k) \/ RunTool(k)
      <3>1. UNCHANGED <<socketVars, consentVars>>
        BY <2>1 DEF Arrive, BeginCall, CancelTool, CheckTool, ConfirmTool, RunTool
      <3>2. /\ \A j \in ToolCalls : tool'[j] = tool[j] \/ tool'[j] \in {"queued", "begin", "look", "done", "run"}
            /\ \A j \in ToolCalls : tool'[j] = tool[j] \/ tool'[j] # "run" \/ tool[j] = "confirm"
        BY <2>1 DEF Arrive, BeginCall, CancelTool, CheckTool, ConfirmTool, RunTool, Moves, McpTypeOK
      <3> QED
        BY <3>1, <3>2 DEF socketVars, consentVars, clicks, InDialog
    <2>2. CASE LookApproved(k)
      BY <2>2 DEF LookApproved, Moves, socketVars, consentVars, clicks, InDialog, McpTypeOK
    <2>3. CASE Gate(k)
      <3>1. UNCHANGED <<socketVars, refused, approved, consented>>
        BY <2>3 DEF Gate, clicks
      <3>2. CASE \E to \in {"done", "wait"} : Moves(k, "gate", to) /\ asking' = asking
        BY <3>1, <3>2 DEF Moves, socketVars, InDialog, McpTypeOK
      <3>3. CASE /\ s \notin refused /\ asking[s] = NoCall /\ Moves(k, "gate", "dialog")
                 /\ asking' = [asking EXCEPT ![s] = k]
        <4>1. s \in Servers
          BY <2>0, <3>3 DEF Moves
        <4>2. \A j \in ToolCalls : tool[j] \in InDialog => home[j[1]] # s
          BY <3>3
        <4>3. \A j \in ToolCalls : j # k => tool'[j] = tool[j]
          BY <3>3 DEF Moves, McpTypeOK
        <4>4. Asks'
          BY <3>1, <3>3, <4>1, <4>2, <4>3 DEF socketVars, McpTypeOK
        <4>5. Asked'
          BY <3>1, <3>3, <4>3 DEF socketVars
        <4>6. Allowed'
          BY <3>1, <3>3, <4>3 DEF Moves, McpTypeOK
        <4> QED
          BY <4>4, <4>5, <4>6
      <3> QED
        BY <2>3, <3>2, <3>3 DEF Gate, clicks
    <2>4. CASE Waited(k)
      BY <2>4 DEF Waited, clicks, Moves, socketVars, InDialog, McpTypeOK
    <2>5. CASE UserAnswers(k)
      <3>1. UNCHANGED <<socketVars, asking, refused, approved>>
        BY <2>5 DEF UserAnswers
      <3>2. /\ tool[k] = "dialog" /\ tool'[k] \in {"yes", "no", "forget_no"}
            /\ \A j \in ToolCalls : j # k => tool'[j] = tool[j]
            /\ tool'[k] = "yes" => consented'
            /\ consented => consented'
        BY <2>5 DEF UserAnswers, Moves, McpTypeOK
      <3> QED
        BY <3>1, <3>2 DEF socketVars, InDialog
    <2>6. CASE Remember(k)
      <3>1. UNCHANGED <<socketVars, asking, consented>>
        BY <2>6 DEF Remember
      <3>2. /\ tool[k] \in {"yes", "no"} /\ tool'[k] \in {"forget_yes", "forget_no"}
            /\ \A j \in ToolCalls : j # k => tool'[j] = tool[j]
            /\ tool'[k] = "forget_yes" => tool[k] = "yes"
            /\ approved' => approved \/ tool[k] = "yes"
            /\ refused' \in {refused, refused \cup {s}}
        <4>1. CASE Moves(k, "no", "forget_no") /\ refused' = refused \cup {s} /\ UNCHANGED approved
          BY <4>1 DEF Moves, McpTypeOK
        <4>2. CASE Moves(k, "yes", "forget_yes") /\ approved' \in {approved, TRUE} /\ UNCHANGED refused
          BY <4>2 DEF Moves, McpTypeOK
        <4>3. CASE /\ tool[k] \in {"yes", "no"} /\ Moves(k, tool[k], "forget_no")
                   /\ UNCHANGED <<refused, approved>>
          BY <4>3 DEF Moves, McpTypeOK
        <4> QED
          BY <2>6, <4>1, <4>2, <4>3 DEF Remember
      <3>3. \A j \in ToolCalls : j # k /\ tool[j] \in InDialog => home[j[1]] # s
        BY <3>2 DEF InDialog
      <3> QED
        BY <3>1, <3>2, <3>3 DEF socketVars, InDialog
    <2>7. CASE Forget(k)
      <3>1. UNCHANGED <<socketVars, refused, approved, consented>>
        BY <2>7 DEF Forget, clicks
      <3>2. /\ tool[k] \in {"forget_yes", "forget_no"} /\ tool'[k] \in {"done", "confirm", "run"}
            /\ \A j \in ToolCalls : j # k => tool'[j] = tool[j]
            /\ tool'[k] \in {"confirm", "run"} => tool[k] = "forget_yes"
            /\ asking' = [asking EXCEPT ![s] = NoCall]
        BY <2>7 DEF Forget, Moves, McpTypeOK
      <3>3. \A j \in ToolCalls : j # k /\ tool[j] \in InDialog => home[j[1]] # s
        BY <3>2 DEF InDialog
      <3>4. \A t : t \in Servers /\ t # s => asking'[t] = asking[t]
        BY <3>2 DEF McpTypeOK
      <3>5. Asks'
        <4> SUFFICES ASSUME NEW j \in ToolCalls, tool'[j] \in InDialog PROVE asking'[home[j[1]]] = j
          BY <3>1 DEF socketVars
        <4>1. j # k /\ tool[j] \in InDialog /\ tool[j] # "absent"
          BY <3>2 DEF InDialog
        <4>2. home[j[1]] \in Servers
          BY <4>1, ServedCall
        <4> QED
          BY <3>3, <3>4, <4>1, <4>2
      <3> QED
        BY <3>1, <3>2, <3>5 DEF socketVars
    <2> QED
      BY <1>5, <2>1, <2>2, <2>3, <2>4, <2>5, <2>6, <2>7 DEF CallStep
  <1> QED
    BY <1>1, <1>2, <1>3, <1>4, <1>5 DEF McpNext

\* A Deny stays in the hand of the call that asked, until it is remembered or the
\* call finds its context over.
LEMMA StepDenials ==
  ASSUME McpTypeOK, Served, Denials, [McpNext]_mcpVars
  PROVE  Denials'
  <1> SUFFICES ASSUME NEW s \in denied'
               PROVE  \/ s \in refused' \cup dropped'
                      \/ \E k \in ToolCalls : home'[k[1]] = s /\ tool'[k] = "no"
    BY DEF Denials
  <1> DEFINE StillDue == \/ s \in refused' \cup dropped'
                         \/ \E k \in ToolCalls : home'[k[1]] = s /\ tool'[k] = "no"
  <1> USE DEF turnVars, consentVars, clicks, socketVars
  <1>1. CASE UNCHANGED mcpVars
    BY <1>1 DEF mcpVars, Denials
  <1>2. CASE SwitchOn \/ SwitchOff \/ Revoke \/ \E c \in Conns : HangUp(c) \/ GraceOver(c)
    BY <1>2 DEF SwitchOn, SwitchOff, Revoke, HangUp, GraceOver, Denials
  <1>3. ASSUME NEW c \in Conns, ConnectTo(c) PROVE StillDue
    <2>1. UNCHANGED <<tool, refused, denied, dropped>>
      BY <1>3 DEF ConnectTo
    <2>2. ASSUME NEW j \in ToolCalls, tool[j] = "no" PROVE home'[j[1]] = home[j[1]]
      <3>1. j[1] \in Conns /\ conn[j[1]] # "none"
        BY <2>2, CallParts DEF Served
      <3> QED
        BY <1>3, <3>1 DEF ConnectTo, McpTypeOK
    <2> QED
      BY <2>1, <2>2 DEF Denials
  <1>4. ASSUME NEW k \in ToolCalls, CallStep(k) PROVE StillDue
    <2>1. CASE UserAnswers(k)
      <3>1. /\ tool[k] = "dialog" /\ UNCHANGED <<home, refused, dropped>>
            /\ \A j \in ToolCalls : j # k => tool'[j] = tool[j]
            /\ denied' = denied \/ (denied' = denied \cup {home[k[1]]} /\ tool'[k] = "no")
        BY <2>1 DEF UserAnswers, Moves, McpTypeOK
      <3> QED
        BY <3>1 DEF Denials
    <2>2. CASE Remember(k)
      <3>1. /\ UNCHANGED <<home, denied>>
            /\ \A j \in ToolCalls : j # k => tool'[j] = tool[j]
            /\ refused \subseteq refused' /\ dropped \subseteq dropped'
            /\ tool[k] = "no" => home[k[1]] \in refused' \cup dropped'
        <4>1. CASE Moves(k, "no", "forget_no") /\ refused' = refused \cup {home[k[1]]}
                   /\ UNCHANGED dropped
          BY <2>2, <4>1 DEF Remember, Moves, McpTypeOK
        <4>2. CASE Moves(k, "yes", "forget_yes") /\ UNCHANGED <<refused, dropped>>
          BY <2>2, <4>2 DEF Remember, Moves, McpTypeOK
        <4>3. CASE /\ Moves(k, tool[k], "forget_no") /\ UNCHANGED refused
                   /\ dropped' = dropped \cup {t \in {home[k[1]]} : tool[k] = "no"}
          BY <2>2, <4>3 DEF Remember, Moves, McpTypeOK
        <4> QED
          BY <2>2, <4>1, <4>2, <4>3 DEF Remember
      <3> QED
        BY <3>1 DEF Denials
    <2>3. CASE \/ Arrive(k) \/ BeginCall(k) \/ CancelTool(k) \/ CheckTool(k) \/ LookApproved(k)
               \/ Gate(k) \/ Waited(k) \/ Forget(k) \/ ConfirmTool(k) \/ RunTool(k)
      <3>1. UNCHANGED <<home, refused, denied, dropped>>
        BY <2>3 DEF Arrive, BeginCall, CancelTool, CheckTool, LookApproved, Gate, Waited, Forget,
                    ConfirmTool, RunTool
      <3>2. \A j \in ToolCalls : tool[j] = "no" => tool'[j] = "no"
        BY <2>3 DEF Arrive, BeginCall, CancelTool, CheckTool, LookApproved, Gate, Waited, Forget,
                    ConfirmTool, RunTool, Moves, McpTypeOK
      <3> QED
        BY <3>1, <3>2 DEF Denials
    <2> QED
      BY <1>4, <2>1, <2>2, <2>3 DEF CallStep
  <1> QED
    BY <1>1, <1>2, <1>3, <1>4 DEF McpNext

-----------------------------------------------------------------------------
(* The theorems *)

\* McpInv is an invariant of the calls of a program.
THEOREM McpInductive == McpSpec => []McpInv
  <1>1. McpInit => McpInv
    BY InitMcpInv
  <1>2. McpInv /\ [McpNext]_mcpVars => McpInv'
    BY StepMcpType, StepTurns, StepConsent, StepDenials DEF McpInv
  <1> QED
    BY <1>1, <1>2, PTL DEF McpSpec

\* Tools run one at a time in arrival order, and Server.calls names the one that
\* runs (core.go, takeTurn and beginCall).
THEOREM TurnsKept == McpSpec => []TurnsInOrder
  <1>1. McpInv => TurnsInOrder
    BY DEF McpInv
  <1> QED
    BY <1>1, McpInductive, PTL

\* One question about the program on behalf of each server; none after a click on
\* Deny that did not meet a call or a client that was over; and no tool without an
\* Allow (app/mcp.go, mcpAskAboutClient).
THEOREM DenyKept == McpSpec => []DeniedIsFinal
  <1>1. McpInv => DeniedIsFinal
    <2>1. ASSUME McpInv, NEW s \in Servers, NEW k \in Of(s), tool[k] = "dialog", s \in denied
          PROVE  s \in dropped
      <3>1. k \in ToolCalls /\ asking[s] = k /\ s \notin refused
        BY <2>1 DEF McpInv, Asks, Asked, Of, InDialog
      <3>2. ASSUME NEW j \in ToolCalls, home[j[1]] = s, tool[j] = "no" PROVE FALSE
        BY <2>1, <3>1, <3>2 DEF McpInv, Asks, InDialog
      <3> QED
        BY <2>1, <3>1, <3>2 DEF McpInv, Denials
    <2> QED
      BY <2>1 DEF McpInv, DeniedIsFinal, Asks, Allowed, Of, InDialog
  <1> QED
    BY <1>1, McpInductive, PTL

-----------------------------------------------------------------------------
(* The pages in a browser.  A call that waits on the page has its frame on *)
(* the socket that is in use, or in the queue of one that is connecting; a *)
(* call of the app that waits has a handler of its client still at work.   *)

\* The page has a socket exactly while it is not disconnected; the queue is finite,
\* and a call that waits addresses a client that had a handler.
PageInv ==
  /\ status = "disconnected" <=> ws = 0
  /\ IsFiniteSet(queue)
  /\ \A r \in Calls : rcall[r] = "waiting" => client[r] \in Sockets

WebInv == WebTypeOK /\ PageInv /\ NobodyWaitsInVain

LEMMA InitWebInv == WebInit => WebInv
  <1> SUFFICES ASSUME WebInit PROVE WebInv
    OBVIOUS
  <1> USE WebAssumption DEF WebInit
  <1>1. IsFiniteSet(queue) /\ Cardinality(queue) = 0
    BY FS_EmptySet
  <1>2. WebTypeOK
    <2>0. wsClosed \in BOOLEAN
      OBVIOUS
    <2>1. 0 \in 0..MaxSockets /\ 1 \in 0..MaxSockets
      OBVIOUS
    <2>2. queue \subseteq Invokes /\ Cardinality(queue) <= MaxQueue /\ replied \subseteq Calls
      BY <1>1
    <2>3. socket \in [Sockets -> {"new", "connecting", "open", "lost"}]
      OBVIOUS
    <2> QED
      BY <2>0, <2>1, <2>2, <2>3 DEF WebTypeOK
  <1>3. PageInv /\ NobodyWaitsInVain
    BY <1>1 DEF PageInv, NobodyWaitsInVain
  <1> QED
    BY <1>2, <1>3 DEF WebInv

\* The two halves of NobodyWaitsInVain.
InvokesFit ==
  \A i \in Invokes : invoke[i] = "pending" =>
    ws # 0 /\ (via[i] = ws \/ (i \in queue /\ status = "connecting"))
CallsFit ==
  \A r \in Calls : rcall[r] = "waiting" /\ r \notin replied =>
    handler[client[r]] \in {"reading", "removed"}

\* One more message in a queue that is not full.
LEMMA Enqueue ==
  ASSUME NEW Q, IsFiniteSet(Q), NEW n \in Nat, Cardinality(Q) < n, NEW x
  PROVE  IsFiniteSet(Q \cup {x}) /\ Cardinality(Q \cup {x}) <= n
  <1>1. Cardinality(Q) \in Nat
    BY FS_CardinalityType
  <1>2. /\ IsFiniteSet(Q \cup {x})
        /\ Cardinality(Q \cup {x}) \in {Cardinality(Q), Cardinality(Q) + 1}
    BY FS_AddElement
  <1> QED
    BY <1>1, <1>2

LEMMA StepWebInv == WebInv /\ [WebNext]_webVars => WebInv'
  <1> SUFFICES ASSUME WebInv, [WebNext]_webVars PROVE WebInv'
    OBVIOUS
  <1>0. IsFiniteSet({}) /\ Cardinality({}) = 0
    BY FS_EmptySet
  <1> USE WebAssumption
      DEF WebInv, WebTypeOK, PageInv, NobodyWaitsInVain, InvokesFit,
          CallsFit, Sockets, Handles, Lose, pageVars, callVars
  <1>1. CASE OnOpen
    BY <1>0, <1>1 DEF OnOpen
  <1>2. CASE OnClose
    BY <1>0, <1>2 DEF OnClose
  <1>3. CASE CloseWebSockets
    BY <1>3 DEF CloseWebSockets
  <1>4. ASSUME NEW n \in Sockets, ConnectSocket(n) \/ Drop(n) \/ Upgrade(n) PROVE WebInv'
    <2>1. WebTypeOK'
      BY <1>4 DEF ConnectSocket, Drop, Upgrade
    <2>2. PageInv'
      BY <1>4 DEF ConnectSocket, Drop, Upgrade
    <2>3. InvokesFit'
      BY <1>4 DEF ConnectSocket, Drop, Upgrade
    <2>4. CallsFit'
      <3>1. CASE ConnectSocket(n) \/ Drop(n)
        BY <3>1 DEF ConnectSocket, Drop
      <3>2. CASE Upgrade(n)
        BY <3>2 DEF Upgrade
      <3> QED
        BY <1>4, <3>1, <3>2
    <2> QED
      BY <2>1, <2>2, <2>3, <2>4 DEF WebInv
  <1>5. ASSUME NEW n \in Sockets, Track(n) \/ AddSender(n) PROVE WebInv'
    <2>1. WebTypeOK'
      BY <1>5 DEF Track, AddSender
    <2>2. PageInv'
      BY <1>5 DEF Track, AddSender
    <2>3. InvokesFit'
      BY <1>5 DEF Track, AddSender
    <2>4. CallsFit'
      BY <1>5 DEF Track, AddSender
    <2> QED
      BY <2>1, <2>2, <2>3, <2>4 DEF WebInv
  <1>6. ASSUME NEW n \in Sockets, RemoveSender(n) \/ HandlerEnds(n) PROVE WebInv'
    <2>1. WebTypeOK'
      BY <1>6 DEF RemoveSender, HandlerEnds
    <2>2. PageInv'
      BY <1>6 DEF RemoveSender, HandlerEnds
    <2>3. InvokesFit'
      BY <1>6 DEF RemoveSender, HandlerEnds
    <2>4. CallsFit'
      BY <1>6 DEF RemoveSender, HandlerEnds
    <2> QED
      BY <2>1, <2>2, <2>3, <2>4 DEF WebInv
  <1>7. ASSUME NEW n \in Sockets, FailCallsFor(n) PROVE WebInv'
    BY <1>7 DEF FailCallsFor
  <1>8. ASSUME NEW i \in Invokes, InvokeStarts(i) PROVE WebInv'
    <2>1. CASE UNCHANGED queue
      <3>1. WebTypeOK'
        BY ZenonT(40), <1>8, <2>1 DEF InvokeStarts
      <3>2. PageInv' /\ NobodyWaitsInVain'
        BY <1>8, <2>1 DEF InvokeStarts
      <3> QED
        BY <3>1, <3>2
    <2>2. CASE /\ status = "connecting" /\ Cardinality(queue) < MaxQueue
               /\ queue' = queue \cup {i} /\ invoke' = [invoke EXCEPT ![i] = "pending"]
               /\ UNCHANGED via
      <3>1. IsFiniteSet(queue') /\ Cardinality(queue') <= MaxQueue
        BY <2>2, Enqueue
      <3> QED
        BY <1>8, <2>2, <3>1 DEF InvokeStarts
    <2> QED
      BY <1>8, <2>1, <2>2 DEF InvokeStarts
  <1>9. ASSUME NEW i \in Invokes, GiveUpInvoke(i) \/ InvokeAnswered(i) PROVE WebInv'
    BY ZenonT(40), <1>9 DEF GiveUpInvoke, InvokeAnswered
  <1>10. ASSUME NEW r \in Calls, NEW n \in Sockets, CallPage(r, n) PROVE WebInv'
    BY <1>10 DEF CallPage, Registered
  <1>11. ASSUME NEW r \in Calls, NEW n \in Sockets, PageReplies(r, n) PROVE WebInv'
    BY <1>11 DEF PageReplies
  <1>12. ASSUME NEW r \in Calls, CallEnds(r) PROVE WebInv'
    BY <1>12 DEF CallEnds
  <1>13. CASE UNCHANGED webVars
    BY <1>13 DEF webVars
  <1> QED
    BY <1>1, <1>2, <1>3, <1>4, <1>5, <1>6, <1>7, <1>8, <1>9, <1>10, <1>11, <1>12, <1>13
    DEF WebNext, SocketStep

\* Page, sockets and handlers agree at every step.
THEOREM WebInductive == WebSpec => []WebInv
  BY InitWebInv, StepWebInv, PTL DEF WebSpec

\* No call waits for a socket, or a page, that is gone (scorix.js, web.go).
THEOREM WaitersAreServed == WebSpec => []NobodyWaitsInVain
  <1>1. WebInv => NobodyWaitsInVain
    BY DEF WebInv
  <1> QED
    BY <1>1, WebInductive, PTL

-----------------------------------------------------------------------------
(* All services together.  They share no state.                            *)

LEMMA ServicesStart ==
  ServicesInit => /\ SupInit /\ InstInit /\ AgentInit /\ LlmInit /\ DownloadInit /\ UpdInit
                  /\ McpInit /\ WebInit /\ StoreInit
  BY DEF ServicesInit

\* A step of the services is one of the service that is looked at, and leaves
\* the others alone.
LEMMA ServicesStep ==
  [ServicesNext]_servicesVars =>
    /\ [SupNext]_supVars /\ [InstNext]_instVars /\ [AgentNext]_agentVars
    /\ [LlmNext]_llmVars /\ [DownloadNext]_getVars /\ [UpdNext]_updVars
    /\ [McpNext]_mcpVars /\ [WebNext]_webVars /\ [StoreNext]_storeVars
  <1>1. CASE UNCHANGED servicesVars
    BY <1>1 DEF servicesVars
  <1>2. CASE ServicesNext
    BY <1>2 DEF ServicesNext
  <1> QED
    BY <1>1, <1>2

\* Each service behaves as its own specification says: what is proved of it on
\* its own holds when they are run together.
THEOREM EachKeepsToItsOwn ==
  ServicesSpec => /\ SupSpec /\ InstSpec /\ AgentSpec /\ LlmSpec /\ DownloadSpec
                  /\ UpdSpec /\ McpSpec /\ WebSpec /\ StoreSpec
  BY ServicesStart, ServicesStep, PTL
  DEF ServicesSpec, SupSpec, InstSpec, AgentSpec, LlmSpec, DownloadSpec, UpdSpec, McpSpec,
      WebSpec, StoreSpec

\* The variables of every service keep to their ranges: restarts, attempts and
\* queues to the counts that the code bounds them by.
THEOREM ServicesTyped == ServicesSpec => []ServicesTypeOK
  <1>1. ServicesSpec => []SupTypeOK
    <2>1. SupInv => SupTypeOK
      BY DEF SupInv
    <2> QED
      BY <2>1, EachKeepsToItsOwn, SupInductive, PTL
  <1>2. ServicesSpec => []InstTypeOK
    <2>1. InstInv => InstTypeOK
      BY DEF InstInv
    <2> QED
      BY <2>1, EachKeepsToItsOwn, InstancesInductive, PTL
  <1>3. ServicesSpec => []AgentTypeOK
    BY EachKeepsToItsOwn, RunTypes, PTL
  <1>4. ServicesSpec => []LlmTypeOK
    <2>1. LlmInv => LlmTypeOK
      BY DEF LlmInv
    <2> QED
      BY <2>1, EachKeepsToItsOwn, LlmInductive, PTL
  <1>5. ServicesSpec => []DownloadTypeOK
    BY EachKeepsToItsOwn, GetInductive, GetTypes, PTL
  <1>6. ServicesSpec => []UpdTypeOK
    <2>1. UpdInv => UpdTypeOK
      BY DEF UpdInv
    <2> QED
      BY <2>1, EachKeepsToItsOwn, UpdInductive, PTL
  <1>7. ServicesSpec => []McpTypeOK
    <2>1. McpInv => McpTypeOK
      BY DEF McpInv
    <2> QED
      BY <2>1, EachKeepsToItsOwn, McpInductive, PTL
  <1>8. ServicesSpec => []WebTypeOK
    <2>1. WebInv => WebTypeOK
      BY DEF WebInv
    <2> QED
      BY <2>1, EachKeepsToItsOwn, WebInductive, PTL
  <1>9. ServicesSpec => []StoreTypeOK
    <2>1. StoreInv => StoreTypeOK
      BY DEF StoreInv
    <2> QED
      BY <2>1, EachKeepsToItsOwn, StoreInductive, PTL
  <1>10. ServicesSpec => [](service \in Services)
    <2>1. ServicesInit => service \in Services
      BY DEF ServicesInit
    <2>2. service \in Services /\ [ServicesNext]_servicesVars => (service \in Services)'
      BY DEF ServicesNext, servicesVars
    <2> QED
      BY <2>1, <2>2, PTL DEF ServicesSpec
  <1>11. /\ service \in Services /\ SupTypeOK /\ InstTypeOK /\ AgentTypeOK /\ LlmTypeOK
         /\ DownloadTypeOK /\ UpdTypeOK /\ McpTypeOK /\ WebTypeOK /\ StoreTypeOK
         => ServicesTypeOK
    BY DEF ServicesTypeOK
  <1> QED
    BY <1>1, <1>2, <1>3, <1>4, <1>5, <1>6, <1>7, <1>8, <1>9, <1>10, <1>11, PTL
=================================================================================

------------------------------ MODULE Supervisor ------------------------------
(***************************************************************************)
(* The process supervisor (src/proc/proc.go) and the engines started with  *)
(* it (src/llm/llamacpp/server.go, src/llm/lemonade/server.go): a child is *)
(* launched, believed only while it is alive, restarted a bounded number   *)
(* of times, and stopped from another goroutine.                           *)
(*                                                                         *)
(* Children are numbered in the order they are launched.  A kill is a      *)
(* request: the child it names exits in its own time, like one that        *)
(* crashes, by ChildExits.                                                 *)
(***************************************************************************)
EXTENDS Naturals

CONSTANTS MaxRestarts,  \* spec.Restart.MaxRestarts
          Ports,        \* ports the engine's Start tries, one Process each
          MaxLaunches   \* bound on the children of one behaviour

ASSUME SupAssumption == MaxRestarts \in Nat /\ Ports \in Nat \ {0} /\ MaxLaunches \in Nat

VARIABLES supPc,     \* where the goroutine that launches and supervises is
          alive,     \* children that the operating system runs
          launched,  \* children launched so far; the latest has this number
          cmd,       \* p.cmd, the child that terminate() kills; 0 for none
          killed,    \* children that terminate() has killed
          restarts,  \* of the current supervision
          port,      \* attempts of the engine's Start
          told,      \* calls of OnExit(_, false)
          stopped,   \* p.stopped
          stopPc     \* where the goroutine in Stop is

supVars == <<supPc, alive, launched, cmd, killed, restarts, port, told, stopped, stopPc>>

Children == 1 .. MaxLaunches

SupTypeOK ==
  /\ supPc \in {"launch", "attach", "health", "reap", "watch", "backoff", "done", "failed"}
  /\ alive \subseteq Children /\ killed \subseteq Children
  /\ launched \in 0 .. MaxLaunches
  /\ cmd \in 0 .. launched
  /\ restarts \in 0 .. MaxRestarts
  /\ port \in 1 .. Ports
  /\ told \in Nat
  /\ stopped \in BOOLEAN
  /\ stopPc \in {"idle", "marked", "killed", "missed", "closed", "gaveUp", "lost"}

SupInit ==
  /\ supPc = "launch" /\ alive = {} /\ launched = 0 /\ cmd = 0 /\ killed = {}
  /\ restarts = 0 /\ port = 1 /\ told = 0
  /\ stopped = FALSE /\ stopPc = "idle"

\* Start has returned its Process: only then is a child restarted, and only
\* then does a caller hold something to stop.
Supervised == restarts > 0 \/ supPc \in {"watch", "done"}

Exited == launched \notin alive

\* What a failed launch leads to: the next port, for an engine whose port was
\* taken; an error of Start; or the end of a supervision, which tells OnExit
\* unless Stop is what made the launch fail.
LaunchFails(portTaken) ==
  \/ /\ Supervised
     /\ supPc' = "done"
     /\ told' = IF stopped THEN told ELSE told + 1
     /\ UNCHANGED port
  \/ /\ ~Supervised /\ portTaken /\ port < Ports
     /\ supPc' = "launch" /\ port' = port + 1 /\ UNCHANGED told
  \/ /\ ~Supervised /\ ~(portTaken /\ port < Ports)
     /\ supPc' = "failed" /\ UNCHANGED <<port, told>>

\* exec.Cmd.Start: the child runs before p.cmd names it.
Spawn ==
  /\ supPc = "launch" /\ launched < MaxLaunches
  /\ launched' = launched + 1 /\ alive' = alive \cup {launched'}
  /\ supPc' = "attach"
  /\ UNCHANGED <<cmd, killed, restarts, port, told, stopped, stopPc>>

SpawnFails ==
  /\ supPc = "launch" /\ LaunchFails(FALSE)
  /\ UNCHANGED <<alive, launched, cmd, killed, restarts, stopped, stopPc>>

\* p.cmd = cmd under the lock; without a Health the child is ready at once.
Attach ==
  /\ supPc = "attach"
  /\ cmd' = launched /\ supPc' \in {"health", "watch"}
  /\ UNCHANGED <<alive, launched, killed, restarts, port, told, stopped, stopPc>>

\* A healthy answer counts only from a child that is still there.
Healthy ==
  /\ supPc = "health" /\ ~Exited
  /\ supPc' = "watch"
  /\ UNCHANGED <<alive, launched, cmd, killed, restarts, port, told, stopped, stopPc>>

ExitedEarly ==
  /\ supPc = "health" /\ Exited
  /\ \E portTaken \in BOOLEAN : LaunchFails(portTaken)
  /\ UNCHANGED <<alive, launched, cmd, killed, restarts, stopped, stopPc>>

\* The ready timeout, or the end of Start's context: terminate, then <-exited.
GiveUp_NoWait ==
  /\ supPc = "health" /\ ~Exited
  /\ killed' = killed \cup {cmd}
  /\ \E portTaken \in BOOLEAN : LaunchFails(portTaken)
  /\ UNCHANGED <<alive, launched, cmd, restarts, stopped, stopPc>>
GiveUp ==
  /\ supPc = "health" /\ ~Exited
  /\ killed' = killed \cup {cmd}
  /\ supPc' = "reap"
  /\ UNCHANGED <<alive, launched, cmd, restarts, port, told, stopped, stopPc>>

\* The error of a timeout carries the log tail, so it may also say the port
\* was taken.
Reap ==
  /\ supPc = "reap" /\ Exited
  /\ \E portTaken \in BOOLEAN : LaunchFails(portTaken)
  /\ UNCHANGED <<alive, launched, cmd, killed, restarts, stopped, stopPc>>

\* Off by one: the last restart is not counted.
MayRestart_Once_More(r) == r <= MaxRestarts
MayRestart(r) == r < MaxRestarts

\* supervise receives from exited and reads p.stopped under the lock; a child
\* that ran for restartResetAfter starts the count of restarts again.
SeesExit ==
  /\ supPc = "watch" /\ Exited
  /\ \/ stopped /\ supPc' = "done" /\ UNCHANGED <<told, restarts>>
     \/ /\ ~stopped
        /\ \E r \in {0, restarts} :
             \/ MayRestart(r) /\ supPc' = "backoff" /\ restarts' = r + 1 /\ UNCHANGED told
             \/ ~MayRestart(r) /\ supPc' = "done" /\ told' = told + 1 /\ restarts' = r
  /\ UNCHANGED <<alive, launched, cmd, killed, port, stopped, stopPc>>

\* The backoff ends by its timer or by Stop's channel, and p.stopped is read
\* again before the next launch.
BackedOff_NoRecheck ==
  /\ supPc = "backoff"
  /\ supPc' = "launch"
  /\ UNCHANGED <<alive, launched, cmd, killed, restarts, port, told, stopped, stopPc>>
BackedOff ==
  /\ supPc = "backoff"
  /\ supPc' = IF stopped THEN "done" ELSE "launch"
  /\ UNCHANGED <<alive, launched, cmd, killed, restarts, port, told, stopped, stopPc>>

\* Stop marks the Process and closes stopCh.
StopMarks ==
  /\ stopPc = "idle" /\ Supervised
  /\ stopped' = TRUE /\ stopPc' = "marked"
  /\ UNCHANGED <<supPc, alive, launched, cmd, killed, restarts, port, told>>

\* terminate() kills p.cmd, which is the child that ran last: a launch that
\* has passed its look at p.stopped and not yet reached p.cmd = cmd is missed.
StopKills ==
  /\ stopPc = "marked"
  /\ killed' = killed \cup ({cmd} \ {0})
  /\ stopPc' = IF supPc \in {"launch", "attach"} THEN "missed" ELSE "killed"
  /\ UNCHANGED <<supPc, alive, launched, cmd, restarts, port, told, stopped>>

\* Stop returns nil when done is closed, or its context's error: which may be
\* of a child that it has not seen.
StopReturns ==
  /\ stopPc \in {"killed", "missed"}
  /\ \/ supPc = "done" /\ stopPc' = "closed"
     \/ stopPc' = IF stopPc = "killed" THEN "gaveUp" ELSE "lost"
  /\ UNCHANGED <<supPc, alive, launched, cmd, killed, restarts, port, told, stopped>>

ChildExits ==
  /\ \E c \in alive : alive' = alive \ {c}
  /\ UNCHANGED <<supPc, launched, cmd, killed, restarts, port, told, stopped, stopPc>>

SupNext ==
  \/ Spawn \/ SpawnFails \/ Attach \/ Healthy \/ ExitedEarly \/ GiveUp \/ Reap
  \/ SeesExit \/ BackedOff
  \/ StopMarks \/ StopKills \/ StopReturns \/ ChildExits

SupSpec == SupInit /\ [][SupNext]_supVars
-----------------------------------------------------------------------------
\* One supervisor, one child, however often it is restarted and whichever
\* port it is tried on; and when supervision has ended or Start has failed,
\* none (proc.go: <-exited after every terminate, before every relaunch).  A
\* supervision that ended by itself has told OnExit so, exactly once.
OneChild ==
  /\ alive \subseteq {launched}
  /\ supPc \in {"done", "failed"} => alive = {}
  /\ IF supPc = "done" /\ ~stopped THEN told = 1 ELSE told <= 1
  /\ told > 0 => supPc = "done"

\* A Stop whose kill does not fall between a relaunch's last look at p.stopped and
\* its p.cmd = cmd leaves, from then on and whenever it returns, no child that
\* nobody has killed and none that is about to be launched: in a backoff, a health
\* wait or a running child alike.  And a Stop that returned nil, even one whose kill
\* missed, leaves no child at all (proc.go:239-251).
StopLeavesNone ==
  /\ stopPc \in {"killed", "gaveUp"} => alive \subseteq killed /\ supPc \notin {"launch", "attach"}
  /\ stopPc = "closed" => alive = {} /\ supPc = "done"
===============================================================================

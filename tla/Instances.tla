------------------------------- MODULE Instances -------------------------------
(***************************************************************************)
(* Processes of one app on one machine: the single-instance lock           *)
(* (src/internal/singleinstance/singleinstance_unix.go), the order in      *)
(* which Run takes and gives it back (src/app/app.go), and the endpoint    *)
(* that the command line finds a running app by                            *)
(* (src/app/cli_attach.go).  A process is started once, and may crash at   *)
(* any step: the system then frees its lock and closes its sockets, and    *)
(* leaves the files where they are.                                        *)
(***************************************************************************)
EXTENDS Naturals

CONSTANTS Procs,   \* processes of the app that are ever started
          None,    \* no process
          Single   \* cfg.App.SingleInstance

ASSUME InstAssumption == None \notin Procs /\ Single \in BOOLEAN

VARIABLES main,      \* where Run is, per process
          taker,     \* where the goroutine in startCLI is, per process
          flock,     \* who holds the lock file
          sock,      \* whose listener made the activation socket's file
          live,      \* processes with an open activation listener
          endpoint,  \* whose server cli-endpoint.json names
          serving,   \* processes with an open command line listener
          cli,       \* processes whose a.cli is set
          cliStop    \* processes whose a.cliStop is closed or not made

instVars == <<main, taker, flock, sock, live, endpoint, serving, cli, cliStop>>

Running == {"start", "open", "run"}  \* between Acquire and the deferred closes
Ended == {"off", "activated", "exited"}

InstTypeOK ==
  /\ main \in [Procs -> Ended \cup Running \cup
                {"dial", "lock", "wait", "unlink", "listen", "drain", "stopped", "remove", "unlock"}]
  /\ taker \in [Procs -> {"none", "look", "clean", "listen", "write", "set", "tick", "over"}]
  /\ flock \in Procs \cup {None} /\ sock \in Procs \cup {None}
  /\ endpoint \in Procs \cup {None}
  /\ live \subseteq Procs /\ serving \subseteq Procs
  /\ cli \subseteq Procs /\ cliStop \subseteq Procs

InstInit ==
  /\ main = [p \in Procs |-> "off"] /\ taker = [p \in Procs |-> "none"]
  /\ flock = None /\ sock = None /\ live = {}
  /\ endpoint = None /\ serving = {} /\ cli = {} /\ cliStop = Procs

Goes(p, from, to) == main[p] = from /\ main' = [main EXCEPT ![p] = to]
Takes(p, from, to) == taker[p] = from /\ taker' = [taker EXCEPT ![p] = to]
lockVars == <<flock, sock, live>>
cliVars == <<taker, endpoint, serving, cli, cliStop>>
-----------------------------------------------------------------------------
(* singleinstance.Acquire and Release *)

Launch(p) ==
  /\ Goes(p, "off", IF Single THEN "dial" ELSE "start")
  /\ UNCHANGED <<lockVars, cliVars>>

\* A dial that is answered hands over the arguments: this process is done.
Dial(p) ==
  /\ Goes(p, "dial", IF sock \in live THEN "activated" ELSE "lock")
  /\ UNCHANGED <<lockVars, cliVars>>

TakeLock_Shared(p) ==
  /\ Goes(p, "lock", "unlink")
  /\ flock' = p
  /\ UNCHANGED <<sock, live, cliVars>>
TakeLock(p) ==
  /\ flock = None /\ Goes(p, "lock", "unlink")
  /\ flock' = p
  /\ UNCHANGED <<sock, live, cliVars>>

LockHeld(p) ==
  /\ flock # None /\ Goes(p, "lock", "wait")
  /\ UNCHANGED <<lockVars, cliVars>>

\* The holder may be about to listen: dialed again until it answers, or until
\* the two seconds are over.
Redial(p) ==
  /\ \/ sock \in live /\ Goes(p, "wait", "activated")
     \/ Goes(p, "wait", "exited")
  /\ UNCHANGED <<lockVars, cliVars>>

\* A crashed process leaves its socket's file; only the holder removes it.
Unlink(p) ==
  /\ Goes(p, "unlink", "listen")
  /\ sock' = None
  /\ UNCHANGED <<flock, live, cliVars>>

Listen(p) ==
  /\ \/ /\ sock = None /\ Goes(p, "listen", "start")
        /\ sock' = p /\ live' = live \cup {p} /\ UNCHANGED flock
     \/ /\ sock # None /\ Goes(p, "listen", "exited")
        /\ flock' = None /\ UNCHANGED <<sock, live>>
  /\ UNCHANGED cliVars

\* Release: the listener is closed, which removes its file, the file is
\* removed once more, and only then is the lock given back.  Without
\* SingleInstance there is nothing to release.
CloseListener_Unlocks(p) ==
  /\ Goes(p, "stopped", IF Single THEN "remove" ELSE "exited")
  /\ live' = live \ {p} /\ sock' = IF Single THEN None ELSE sock
  /\ flock' = IF flock = p THEN None ELSE flock
  /\ UNCHANGED cliVars
CloseListener(p) ==
  /\ Goes(p, "stopped", IF Single THEN "remove" ELSE "exited")
  /\ live' = live \ {p} /\ sock' = IF Single THEN None ELSE sock
  /\ UNCHANGED <<flock, cliVars>>

RemoveSocket(p) ==
  /\ Goes(p, "remove", "unlock")
  /\ sock' = None
  /\ UNCHANGED <<flock, live, cliVars>>

Unlock(p) ==
  /\ Goes(p, "unlock", "exited")
  /\ flock' = IF flock = p THEN None ELSE flock
  /\ UNCHANGED <<sock, live, cliVars>>
-----------------------------------------------------------------------------
(* The command line endpoint *)

\* openCLI runs startCLI itself, and goes on when that has returned.
OpenCLI(p) ==
  /\ Goes(p, "start", "open") /\ Takes(p, "none", "look")
  /\ UNCHANGED <<lockVars, endpoint, serving, cli, cliStop>>

\* With no server of its own a process waits to take over, until cliStop.
OpenedCLI(p) ==
  /\ taker[p] \in {"tick", "over"} /\ Goes(p, "open", "run")
  /\ cliStop' = IF taker[p] = "tick" THEN cliStop \ {p} ELSE cliStop
  /\ UNCHANGED <<lockVars, taker, endpoint, serving, cli>>

\* awaitCLI: a tick counts only if the stop channel is not closed.
Tick(p) ==
  /\ main[p] # "open"
  /\ Takes(p, "tick", IF p \in cliStop THEN "over" ELSE "look")
  /\ UNCHANGED <<main, lockVars, endpoint, serving, cli, cliStop>>

\* cliEndpointLive: what the file names is dialed.
LookLive(p) ==
  /\ Takes(p, "look", IF endpoint \in serving THEN "tick" ELSE "clean")
  /\ UNCHANGED <<main, lockVars, endpoint, serving, cli, cliStop>>

\* removeDeadCLISocket dials once more, and removes only what is dead.
RemoveDead(p) ==
  /\ Takes(p, "clean", "listen")
  /\ endpoint' = IF endpoint \in serving THEN endpoint ELSE None
  /\ UNCHANGED <<main, lockVars, serving, cli, cliStop>>

ListenCLI(p) ==
  /\ \/ Takes(p, "listen", "write") /\ serving' = serving \cup {p}
     \/ Takes(p, "listen", "over") /\ UNCHANGED serving
  /\ UNCHANGED <<main, lockVars, endpoint, cli, cliStop>>

\* The file is written, or the listener closed and the error logged.
WriteEndpoint(p) ==
  /\ \/ Takes(p, "write", "set") /\ endpoint' = p /\ UNCHANGED serving
     \/ Takes(p, "write", "over") /\ serving' = serving \ {p} /\ UNCHANGED endpoint
  /\ UNCHANGED <<main, lockVars, cli, cliStop>>

SetCLI(p) ==
  /\ Takes(p, "set", "over")
  /\ cli' = cli \cup {p}
  /\ UNCHANGED <<main, lockVars, endpoint, serving, cliStop>>

\* closeCLI: a.cli is taken and cliStop closed under the lock; with no server
\* to close it returns, else the listener and its own endpoint file go.
CloseCLI(p) ==
  /\ cli' = cli \ {p} /\ cliStop' = cliStop \cup {p}
  /\ \/ /\ p \in cli /\ Goes(p, "run", "drain")
        /\ serving' = serving \ {p}
     \/ /\ p \notin cli /\ Goes(p, "run", "stopped")
        /\ UNCHANGED serving
  /\ UNCHANGED <<lockVars, taker, endpoint>>

\* removeOwnEndpoint compares the token; then the calls drain.
RemoveOwn(p) ==
  /\ Goes(p, "drain", "stopped")
  /\ endpoint' = IF endpoint = p THEN None ELSE endpoint
  /\ UNCHANGED <<lockVars, taker, serving, cli, cliStop>>
-----------------------------------------------------------------------------
\* An error of Run after Acquire, or a crash: the deferred Release runs in the
\* first case only.
StartFails(p) ==
  /\ Goes(p, "start", "stopped")
  /\ UNCHANGED <<lockVars, cliVars>>

Crash(p) ==
  /\ main[p] \notin Ended
  /\ main' = [main EXCEPT ![p] = "exited"]
  /\ taker' = [taker EXCEPT ![p] = "over"]
  /\ flock' = IF flock = p THEN None ELSE flock
  /\ live' = live \ {p} /\ serving' = serving \ {p} /\ cli' = cli \ {p}
  /\ UNCHANGED <<sock, endpoint, cliStop>>

\* The goroutine of startCLI ends with its process.
TakerStep(p) ==
  /\ main[p] \notin Ended
  /\ \/ Tick(p) \/ LookLive(p) \/ RemoveDead(p)
     \/ ListenCLI(p) \/ WriteEndpoint(p) \/ SetCLI(p)

InstNext == \E p \in Procs :
  \/ Launch(p) \/ Dial(p) \/ TakeLock(p) \/ LockHeld(p) \/ Redial(p)
  \/ Unlink(p) \/ Listen(p) \/ CloseListener(p)
  \/ RemoveSocket(p) \/ Unlock(p)
  \/ OpenCLI(p) \/ OpenedCLI(p) \/ CloseCLI(p) \/ RemoveOwn(p)
  \/ StartFails(p) \/ Crash(p) \/ TakerStep(p)

InstSpec == InstInit /\ [][InstNext]_instVars
-----------------------------------------------------------------------------
\* With SingleInstance a process that runs holds the lock, and the socket's
\* path leads to its listener: a second launch always finds it, whatever an
\* earlier process removed late or left behind in a crash.
PrimaryReachable ==
  Single => \A p \in Procs : main[p] \in Running =>
              flock = p /\ sock = p /\ p \in live

\* With SingleInstance the endpoint file names the server of the process that
\* runs: no command goes headless beside it or to a dead process.
CommandsFindTheApp ==
  Single => \A p \in Procs : main[p] \in Running /\ p \in cli =>
              endpoint = p /\ p \in serving

\* The comment at src/app/cli_attach.go:94: when a tick of the takeover and
\* the close land together closing wins, so a process whose modules are being
\* stopped has no command line server.
ClosingWins == \A p \in Procs : main[p] = "stopped" => p \notin cli
===============================================================================

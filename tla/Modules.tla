------------------------------- MODULE Modules -------------------------------
(***************************************************************************)
(* module/manager.go and app/modules.go: the modules of an app are loaded, *)
(* then started, in the order they were registered, and stopped, then      *)
(* unloaded, in the reverse order.  A start that fails half way unwinds    *)
(* what it did.  One goroutine does all of this, the one that calls Run;   *)
(* a hook and the state the manager notes for it are one step.             *)
(***************************************************************************)
EXTENDS Naturals

CONSTANTS
  NMods,       \* the modules are 1..NMods, in registration order
  Defaults,    \* those that DefaultModule holds back until the start
  Enabled,     \* those the configuration enables
  MaxAttempts  \* bound of the model: calls of startModules

Mods == 1..NMods

ASSUME ModulesAssumption ==
  /\ NMods \in Nat
  /\ Defaults \subseteq Mods /\ Enabled \subseteq Mods
  /\ MaxAttempts \in Nat

VARIABLES
  started,    \* App.started
  registry,   \* Registry.modules
  state,      \* Manager.states; "absent" where it has no entry
  life,       \* what each module has been through: the hooks that ran
  boot,       \* which loop of startModules or stopModules runs
  at,         \* how far that loop is
  unwinding,  \* stopModules runs because startModules failed
  attempts    \* calls of startModules

moduleVars == <<started, registry, state, life, boot, at, unwinding, attempts>>

Boots == {"idle", "loading", "starting", "up", "stopping", "unloading", "down", "panicked"}

ModulesTypeOK ==
  /\ started \in BOOLEAN /\ unwinding \in BOOLEAN
  /\ registry \subseteq Mods
  /\ state \in [Mods -> {"absent", "registered", "loaded", "started", "stopped"}]
  /\ life \in [Mods -> {"down", "loaded", "running", "stopped"}]
  /\ boot \in Boots
  /\ at \in 1..(NMods + 1)
  /\ attempts \in Nat

ModulesInit ==
  /\ started = FALSE /\ unwinding = FALSE /\ attempts = 0
  /\ registry = Mods \ Defaults
  /\ state = [m \in Mods |-> IF m \in Defaults THEN "absent" ELSE "registered"]
  /\ life = [m \in Mods |-> "down"]
  /\ boot = "idle" /\ at = 1

Note(m, s) == state' = [state EXCEPT ![m] = s]
Becomes(m, l) == life' = [life EXCEPT ![m] = l]
Loop(name) == boot' = name /\ at' = 1
Advance == at' = at + 1 /\ UNCHANGED boot

-----------------------------------------------------------------------------
(* startModules.                                                           *)

\* Defaults that the manager does not know, and so registers now.
Missing == {m \in Defaults : state[m] = "absent"}

StartModules ==
  /\ boot = "idle" /\ ~started
  /\ attempts < MaxAttempts
  /\ Missing \intersect registry = {}
  /\ started' = TRUE
  /\ attempts' = attempts + 1
  /\ registry' = registry \union Missing
  /\ state' = [m \in Mods |-> IF m \in Missing THEN "registered" ELSE state[m]]
  /\ Loop("loading")
  /\ UNCHANGED <<life, unwinding>>

\* The registry still holds a module of that name: "duplicate registration".
StartPanics ==
  /\ boot = "idle" /\ ~started
  /\ attempts < MaxAttempts
  /\ Missing \intersect registry # {}
  /\ started' = TRUE
  /\ attempts' = attempts + 1
  /\ boot' = "panicked"
  /\ UNCHANGED <<registry, state, life, at, unwinding>>

\* Load of the next module.
SkipDisabled ==
  /\ boot = "loading"
  /\ at \in Mods \ Enabled
  /\ Advance
  /\ UNCHANGED <<started, registry, state, life, unwinding, attempts>>

Load ==
  /\ boot = "loading"
  /\ at \in Enabled
  /\ Becomes(at, "loaded")
  /\ Note(at, "loaded")
  /\ Advance
  /\ UNCHANGED <<started, registry, unwinding, attempts>>

Unwind == Loop("stopping") /\ unwinding' = TRUE

\* A failure of OnLoad that is logged and passed over.
LoadFails_Ignored ==
  /\ boot = "loading"
  /\ at \in Enabled
  /\ Advance
  /\ UNCHANGED <<started, registry, state, life, unwinding, attempts>>

\* OnLoad returns an error or panics, or strict_modules refuses the module.
LoadFails ==
  /\ boot = "loading"
  /\ at \in Enabled
  /\ Unwind
  /\ UNCHANGED <<started, registry, state, life, attempts>>

AllLoaded ==
  /\ boot = "loading"
  /\ at = NMods + 1
  /\ Loop("starting")
  /\ UNCHANGED <<started, registry, state, life, unwinding, attempts>>

\* Start of the next module.
SkipUnloaded ==
  /\ boot = "starting"
  /\ at \in Mods
  /\ state[at] # "loaded"
  /\ Advance
  /\ UNCHANGED <<started, registry, state, life, unwinding, attempts>>

Start ==
  /\ boot = "starting"
  /\ at \in Mods
  /\ state[at] = "loaded"
  /\ Becomes(at, "running")
  /\ Note(at, "started")
  /\ Advance
  /\ UNCHANGED <<started, registry, unwinding, attempts>>

StartFails ==
  /\ boot = "starting"
  /\ at \in Mods
  /\ state[at] = "loaded"
  /\ Unwind
  /\ UNCHANGED <<started, registry, state, life, attempts>>

AllStarted ==
  /\ boot = "starting"
  /\ at = NMods + 1
  /\ Loop("up")
  /\ UNCHANGED <<started, registry, state, life, unwinding, attempts>>

-----------------------------------------------------------------------------
(* stopModules.                                                            *)

\* The module a loop over the reverse order visits; and over the order itself.
Turn_Forward == at
Turn == NMods + 1 - at

\* Run's deferred call.
StopModules ==
  /\ boot = "up"
  /\ Loop("stopping")
  /\ UNCHANGED <<started, registry, state, life, unwinding, attempts>>

Stop ==
  /\ boot = "stopping"
  /\ at \in Mods
  /\ state[Turn] = "started"
  /\ Becomes(Turn, "stopped")
  /\ Note(Turn, "stopped")
  /\ Advance
  /\ UNCHANGED <<started, registry, unwinding, attempts>>

SkipUnstarted ==
  /\ boot = "stopping"
  /\ at \in Mods
  /\ state[Turn] # "started"
  /\ Advance
  /\ UNCHANGED <<started, registry, state, life, unwinding, attempts>>

AllStopped ==
  /\ boot = "stopping"
  /\ at = NMods + 1
  /\ Loop("unloading")
  /\ UNCHANGED <<started, registry, state, life, unwinding, attempts>>

\* Unload is a no-op for a module that was only registered; and for one that was
\* never started.
Unloads_StoppedOnly(m) == state[m] = "stopped"
Unloads(m) == state[m] # "registered"

Unload ==
  /\ boot = "unloading"
  /\ at \in Mods
  /\ Unloads(Turn)
  /\ Becomes(Turn, "down")
  /\ Note(Turn, "absent")
  /\ Advance
  /\ UNCHANGED <<started, registry, unwinding, attempts>>

SkipRegistered ==
  /\ boot = "unloading"
  /\ at \in Mods
  /\ ~Unloads(Turn)
  /\ Advance
  /\ UNCHANGED <<started, registry, state, life, unwinding, attempts>>

\* The end of stopModules: after a failure, resetStarted lets the caller retry.
AllUnloaded ==
  /\ boot = "unloading"
  /\ at = NMods + 1
  /\ Loop(IF unwinding THEN "idle" ELSE "down")
  /\ started' = ~unwinding
  /\ unwinding' = FALSE
  /\ UNCHANGED <<registry, state, life, attempts>>

-----------------------------------------------------------------------------
Booting ==
  StartModules \/ StartPanics \/ SkipDisabled \/ Load \/ LoadFails \/ AllLoaded
    \/ SkipUnloaded \/ Start \/ StartFails \/ AllStarted

Stopping ==
  Stop \/ SkipUnstarted \/ AllStopped \/ Unload \/ SkipRegistered \/ AllUnloaded

-----------------------------------------------------------------------------
(* Properties.                                                             *)

\* A module is up whenever one that was registered after it is: a module may rely
\* on those before it through its whole life, also while a failed start unwinds.
StackOrder ==
  \A m, n \in Enabled : m < n =>
    /\ life[n] = "running" => life[m] = "running"
    /\ life[n] # "down" => life[m] # "down"

\* Whenever no start and no stop is under way and the modules are not up, none of
\* them is left loaded or running, wherever a start failed.
NothingLeft == boot \in {"idle", "down"} => \A m \in Mods : life[m] = "down"

\* module.go on OnStart: "after all modules loaded".
StartsAfterAllLoaded ==
  [][\A m \in Mods : life[m] # "running" /\ life'[m] = "running" =>
       \A n \in Enabled : life[n] # "down"]_moduleVars

\* modules.go on a failed start: "unwind and clear started so a later call can
\* retry".
RetrySurvives == boot # "panicked"
=============================================================================

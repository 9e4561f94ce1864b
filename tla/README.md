# A verification project for the Scorix runtime

Scorix is a Go framework for desktop, mobile and web apps whose user interface is a web page. A page
calls Go handlers over a JavaScript bridge; modules (a key-value store, a database, a language model,
an updater and so on) live inside the app; the same commands are also served to a command line and to
agents over sockets. This directory holds TLA+ modules translated from that code, TLC configurations
that check them on small instances, and proofs, checked by the TLA+ proof system, for instances of
every size.

    tlc -config Lifecycle.cfg Lifecycle      # one run
    tlapm LifecycleProofs.tla                # one proof module

Contents: 1 inventory, 2 plan, 3 the modules and the code, 4 the runs, 5 bounds, 6 fairness,
7 proofs, 8 disagreements between code and comments, 9 what is not modelled.

## 1. Inventory

### Parts, their state and their operations

| part | code | state | operations |
|---|---|---|---|
| ipc dispatcher | `internal/ipc/native.go`, `registry.go` | `closing`, `pending` (cancel function by id), `calls` (stream by id), wait group, two slot semaphores | `Handle` (open, data, end, cancel, start, event), goroutine of each call, `finishRPC`, `Close` |
| raw stream | `internal/ipc/stream.go` | queue, `closed`, `overflow`, a one-place wake-up channel, context | `push`, `closeSend`, `Recv`, `Send` |
| page bridge | `app/scorix.js` | id counter, `pending` and `streams` maps, in web mode a send queue and a WebSocket | `invoke`, `serverStream`, `duplex`, `emit`, timeout, cancel, `dispatch`, reconnect |
| module manager | `module/*.go`, `app/modules.go` | registry, state by module, order, `started` | register, load, start, stop, unload, unwind after a failure, retry |
| app lifecycle | `app/app.go`, `app/window.go` | runtime, windows, bridges, count of close drains | `Run`, `RunWeb`, `OpenWindow`, close handler, `Quit`, teardown |
| reverse calls | `app/call.go`, `app/app.go` | a queue of 64 frames per client, pending calls | `Emit`, `EmitTo`, `Call`, reply, disconnect |
| command line socket | `app/cli_attach.go`, `cli_exec.go` | endpoint file, listener, the wait to take over from another instance | open, takeover, serve, close |
| agent socket | `app/mcp.go`, `mcp_peer.go` | server, approved clients, settings file, tools switched off | open, enable, disable, consent, close |
| mcp core | `internal/mcpcore/core.go` | chain of turns, calls under way | serve, batch, dispatch, cancel, shutdown |
| process supervisor | `proc/proc.go` | the process that runs, restarts | start, health wait, restart with backoff, stop |
| store module | `module/store/module.go` | map, file | get, set, delete, save |
| agent | `llm/agent/agent.go`, `llm/budget.go`, `llm/retry.go`, the streams of the drivers | conversation, steps, tools declined | `Run`: fit, request, answer, tool calls, stop |
| llm settings | `module/llm/module.go`, `llm/registry.go` | saved records, registered providers, bindings of slots | load, save, delete, bind, unbind, register, unregister |
| downloads | `fetch/fetch.go`, `llm/model/store.go` | part file, offset and hash, final file | fetch, resume, restart, verify, rename, sweep |
| updater | `module/updater/module.go` | floor, app, backup and staged copy on disk | check, download, raise the floor, swap, undo, relaunch |
| single instance | `internal/singleinstance` | lock file, activation socket | acquire, activate, release |
| secrets, drivers, code generator, wrappers of system services | `secrets/`, `internal/driver/`, `internal/cli/`, `module/*` | see PROJECT.json | see PROJECT.json |

### How they interact

A window's driver delivers the page's frames, in order, to one `Dispatcher`; its frames go back through one
serialized `PostMessage`. A handler runs in a goroutine of its own, holds a slot, reads a raw stream and uses
modules. `App.Run` brings the modules up, opens the sockets, runs the event loop on the UI thread, and at the
end must bring every goroutine it admitted to rest before the modules go down: a window that closes earlier
drains in a goroutine that `Run` waits for. The sockets run the same handlers, and a page's command can switch
the agent socket off and on while it serves.

### What is hard

Cancels, the end of a handler and `Close` race for the same table entries; slots must come back on every path; a
wake-up must not be lost; the two channels between page and dispatcher make every cancel and timeout cross an
answer; drains have deadlines and handlers may never return; a start can fail at any hook of any module and be
retried; windows close while the app quits. PROJECT.json lists each hazard at its line, with the properties that
watch it, or the reason none does yet. Around the bridge it is crashes that make things hard: of the app half way
through an update, a download or a save; of another instance that leaves its files; of a child process; and of a
network that ends in the middle of an answer.

### What makes each part correct

- dispatcher: one terminal frame at most, and last; silence after a withdrawal that came in time; `Close` or a cancel
  under way reaches every handler and, when `Close` succeeds, nothing is left running; no table entry or slot outlives its call.
- raw stream: frames in order without a gap; an end of stream only after the last frame; a handler that waits is woken.
- page and dispatcher together: every call of the page settles; a cancel hits the call it was meant for.
- module manager: modules go up and down as a stack, also through failures; a failed start leaves nothing behind.
- app lifecycle: no call meets modules that are down, but for those a deadline gave up on; quitting ends.
- web mode and reverse calls: nothing of the page or of Go waits on a connection that is lost.
- sockets: one live endpoint; closed means closed; no tool without a consent, and a refusal that was given is kept.
- mcp core: calls run in arrival order, a cancel finds its call, shutdown ends.
- supervisor: never two processes, none after `Stop`, restarts bounded.
- agent: calls and results always go together, a tool runs once, and only when it may.
- llm settings: what is live is what is saved. Store: what was reported as saved is kept, also by a save that fails.
- downloads: only what was described reaches its name. Updater: a whole app is on disk at every step.
- single instance: the process that runs is found by the next.

## 2. Plan

Done, in this order: `CallContract`, `Dispatcher`, `RawStream`, `Session` (composes page and dispatcher),
`Modules`, `Lifecycle` (composes the modules with `Run`), `Surface` (what `Lifecycle` assumes of a dispatcher, shown
of both sides); then the services around the bridge, `Supervisor`, `Instances`, `AgentRun`, `LlmSettings`, `Download`,
`Updater`, `McpAgent`, `Web`, `Store`; and the proofs of every safety property that a passing run checks, and of what
avoids each disagreement of section 8.

Left, in the order of what they would add:

| next | composes | question |
|---|---|---|
| `RunWeb` around `Web` | `Shutdown`, `waitWebSockets`, modules | a socket that is upgraded while the server shuts down |
| settings of the agent socket | `McpAgent` and the saved switch | two switches that cross |
| two updates, two downloads at once | `Updater`, `Download` twice | what one destroys of the other |
| `Instances` without the lock | takeover between instances that may run together | at most one live endpoint, and how long there may be none |

## 3. The modules and the code

A critical section under a mutex is one step, and what the code does between two of them is a step of its own.
Payloads, names, errors' wording, tracing and logs are left out. Definitions keep the names of the functions they
stand for, and PROJECT.json maps each to its lines. An operator `X_Suffix` just above `X` is the same code with a
plausible mistake; nothing uses it, it is there to show that a property notices.

**CallContract** is the abstract promise to the frontend, per request: messages, at most one terminal frame, and
none at all after a withdrawal, unless the request is of a kind whose answer a withdrawal does not suppress.

**Surface** is the abstract promise to the app: a gate and a count of goroutines. Work is taken on only before the first
`Close`, and a `Close` that reports success found none left.

**Dispatcher** has one action per critical section of `native.go`. `RejectUnknown` to `DispatchEvent` are what
`Handle` does with a frame; `FeedFindsNothing`, `CancelRPC` and `Cancel` are the other frames, and `CallCancel` is the call
of the cancel function that the last two hold in a local, here `toCancel`, when they let the lock go: a `Close`, a `Send`
or the end of the handler may come in between, but not the next frame (`AtNextFrame`). `AcquireSlot`,
`GiveUpWaiting`, `RejectOverload` are the select on the two semaphores; `BeginSend` and `EndSend` are the check and
the write of `Send`; `HandlerReturn`, `FinishClaim`, `FinishFence`, `FinishEmit`, `CommandReply` the end of a call;
`CloseBegin` to `CloseDeadline` are `Close`. `pending` and `calls` are the tables of the same names, `inflight` is
the wait group, `live` and `victim` are locals of `finishRPC`. `wire` is what the call's own goroutines sent. The
registry is `KindOf`: a name leads to a unary or streaming call, a command, an event or nothing. `Leaky` calls leave
a goroutine that goes on sending after the handler returned. `KeepsContract` says that this implements CallContract,
under the mapping `Phase`, and `KeepsSurface` that it implements Surface: the gate is `closing` and what `closer` reported,
the count is that of `inflight`.

**RawStream** is the receiving half of a stream: `Push` is `push` up to its unlock, `Wake` the non-blocking send
into `sig`, `FindNothing` and `LookAgain` the two sides of the select in `Recv`.

**Session** adds the page: `Issue` numbers a call, `Withdrawal` is a stream's cancel or an invoke's timeout, `Deliver`
is `dispatch` in scorix.js, `Serve` hands the dispatcher the next frame. `up` and `down` are the ordered channels.
`ReloadSpec` adds `location.reload()`, after which a new page counts from 1 over the same dispatcher.

**Modules** is `startModules` and `stopModules` with the manager's four loops, one module per step. `state` is
what the manager notes, `life` what the hooks did; `registry` and `state` are both kept because they can disagree,
which is what a retry finds.

**Lifecycle** is `Run` around it. `OpenServers` opens the sockets at boot; where another instance has the command line,
`Takeover` is `awaitCLI`, which opens it at a later moment, possibly behind `closeCLI`. A surface (a window or a socket) is a `gate` and the number `busy` of handlers at
work; `WindowsAreSurfaces` says that a window is used as Surface allows and no otherwise, under the mapping `WindowGate`,
which tells from the drains and the teardown whether every `Close` that began has reported success. `OpenWindow` is
`attachWindow`, `EventClose` its close handler, `Drain` the goroutine it starts; `LoopEnds` to
`WaitForCloses` are what follows `rt.Run()`; `CloseServers` are the deferred closes in their order; `DeferStop` is the
deferred `stopModules`. `late` names the surfaces a deadline gave up on, `orphans` the calls of an agent socket that
was switched off under them. `EventClose` removes the bridge and counts the drain in one step, although the code lets the
lock go in between: the close and the end of the event loop are both on the UI thread, so `Run` looks at the bridges and
waits for the drains before the one or after the other. `DisableMCP` and `EnableMCP` need a window handler at work, because only a page sends
`sys:mcp:enable`.

The modules below share no state with these or with one another. Each has a process, or a file and its crashes.

**Supervisor** is `proc.Start`, `supervise` and `Stop`. `Spawn` and `Attach` are the two halves of `launch` between
which a child runs that `p.cmd` does not name; `Healthy`, `ExitedEarly`, `GiveUp` and `Reap` the health wait;
`LaunchFails` what an error of it leads to, for an engine also another port. `stopPc` tells how a `Stop` fared: `missed` is
a kill that fell between a relaunch's last look at `p.stopped` and `p.cmd = cmd`; and a `Stop` that returned had either seen
the supervisor's end (`closed`) or given up waiting, after a kill that missed (`lost`) or one that did not (`gaveUp`).

**Instances** has any number of processes of one app. `Dial` to `Listen` are `Acquire`, step by step; `CloseListener`
to `Unlock` are `Release`. `main` is where `Run` is, `taker` where the goroutine in `startCLI` is, first called by
`openCLI` itself and then by `awaitCLI`. `Crash` may come anywhere.

**AgentRun** is `agent.Run` over `Fit`, `Retry` and a driver's stream. A message is its role, the calls of an assistant
turn, or the call a result answers. `Fitted` is what `Fit` may keep, whatever the tokens come to. `Finish`, `EndOfBody`
and `Breaks` are the three ways in which the drivers' `readStream` ends.

**LlmSettings** has one step per operation of the module, since each holds `m.mu` throughout; `Rebind` and `Resync` are
the functions of these names, and each operation has a disjunct for a save that fails. A request that resolves a slot in
the middle of one, when a change is live and not yet saved, is not covered: the registry has a lock of its own. `Edited` lets another build or a
hand write any file while the app is down.

**Download** is `Store.Get` over `Fetch`. A file is blocks that know their position and whether they are of the version
the source described, so that a splice shows. `Open` rehashes the part; `Partial`, `Full`, `WrongLength`,
`NotSatisfiable` and `Refused` are the answers that `transfer` tells apart. `WriteBreaks` is a write that stored part of its
bytes and failed: what it stored is on disk, what was hashed is not more than before. `overran` is a history of one that
did so behind the file's end. `AnotherDay` is a crash or a later retry.

**Updater** is `FullUpdate` with the macOS and the Linux installer, one step per change of the disk, and `Ends` between
any two. The floor is written with best effort: `RaiseFloor` and `RestoreFloor` may leave the old one or none
(`FloorAfter`), and `unrestored` is a history of one that could not be put back. `PutBack` is the user who renames the `.old` copy back.

**McpAgent** is one program with several connections: `Arrive` to `CancelTool` are `dispatchCall` and its turns,
`CheckTool` to `RunTool` are `mcpRun` with the two questions to the user, `SwitchOn` and `SwitchOff` the socket's server.
`denied` and `dropped` are histories: the servers on whose dialog Deny was clicked, and those where such a click met a call
that was cancelled or whose client had left, and was not remembered.

**Web** is a page's reconnecting socket, the handler on the other end, and the calls Go makes to the page. A connection is
lost as a whole: a failed write that leaves the reader open for a while is not modelled.

**Store** is `Set` and `Delete` with their save, cut where the locks and `os.WriteFile` cut it. A write may fail half way,
and the process may die anywhere; `unsaved`, `broke` and `lost` are histories of what changed since the last good save, of
a write that failed since, and of a process that ended and left a torn file.

**MCServices** puts these nine into one run: a variable says which of them a behaviour is about.

## 4. The runs

| run | expected | what it shows |
|---|---|---|
| `dispatcher` | pass | pairs of calls that meet in a slot, a table or `Close`, with cancels and a `Close` at every moment: contract, surface, drain, tables, slots; a canceled call leaves and `Close` ends |
| `raw_stream` | pass | four frames into a queue of two, with half-close and cancel: order, completeness, wake-ups; the handler is told of the end |
| `session` | pass | a page with two ids: cancels, timeouts, overload and late data cross, and every call settles |
| `lifecycle` | pass | three modules, two windows, both sockets and a takeover: failed starts, one retry, closes before and after the loop ends, stuck handlers; windows are surfaces |
| `services` | pass | the nine services, section 3: one child and none after `Stop`; the running instance is found; conversations stay whole and tools run once; live settings are the saved ones; only verified files; always a whole app; turns and consent; nobody waits on a lost connection; saves are kept |
| `late_message` | violation | see section 8 |
| `session_notice` | violation | see section 8 |
| `session_reload` | violation | see section 8 |
| `module_retry` | violation | see section 8 |
| `close_veto` | violation | see section 8 |
| `orphaned_call` | violation | see section 8 |
| `cli_takeover` | violation | see section 8 |

Deadlock is not checked: a connection whose calls are over, an app whose `Run` returned and a process that exited stop
for good.
What must still happen is stated as liveness instead.

## 5. Bounds

- `dispatcher`: `PairIssued` lets two calls at a time be made, out of four pairs that share something; with one
  slot per budget two calls already contend, and no property relates three calls. `MaxMsgs = 1` message per call puts
  one frame before and one after every other event, and `OneTalks` gives one call of each contending pair a message. Each
  call has an id of its own, as on one page load.
- `raw_stream`: four frames against a queue of two fill it, overflow it, drain it and meet the overflow flag again.
- `session`: two ids with two possible uses each, one data frame: enough for a frame of one call to meet the other.
- `lifecycle`: three modules make a middle one, here disabled; the default one comes last, so that others are
  unloaded before a retry; two attempts are one retry; one handler per surface is the difference between idle and
  busy; two drains per window is a close whose veto lets a second one happen.

- `services`: two restarts are a first and a further one, two ports one retry, five launches all of both. Three processes
  are an old one that releases late, the one that runs and the next. Two steps of an agent with two calls each give a
  declined, a cut and a finished call in one answer, and the histories of `MCHistories` put a system message and old
  turns where trimming meets them. Two ids and two slots, one of them local, give a wrong and a right provider for each.
  Two blocks and one more that is not of the file show a splice and a file too long; one retry. Three versions are the
  running one, an offer and a newer offer. Two connections with two calls, and the socket switched on twice. Two
  sockets are one reconnection; a queue of one overflows. Three writers of two keys are one who saves, one who waits
  and one who changes.

The proofs need none of these bounds, section 7.

## 6. Fairness

- dispatcher: the Go scheduler runs every goroutine (weak); a slot that keeps coming free reaches each waiter (strong:
  Go channels serve blocked senders in order); a handler whose context is canceled returns, as `Recv` and `Send` make it,
  and the waits of `Close` are served. Nothing makes a handler return that was not canceled, a page send a frame, or a
  deadline pass.
- raw stream: the read loop finishes its frame, and a handler in `Recv` runs.
- session: both channels deliver, goroutines run, and every handler returns: without the last, a call without a timeout
  has no reason to settle.
- lifecycle: `Run` and the drains are scheduled, hooks return (the code waits for them without a deadline), and the
  deadlines of drains pass. Nothing makes a handler return: `QuitReturns` holds with every handler stuck.
- the services state safety only. What they should eventually do depends on a child, a network, a user or another
  process, and the code puts a deadline or a context where it cannot wait; `NobodyWaitsInVain` says as a safety property
  that whoever waits still has somebody who will answer.

## 7. Proofs

All hold for every value of the constants that the modules' assumptions allow. Every invariant that a passing run
checks is a theorem, and so are its action properties and its refinements; the inductive invariants below were first
checked by TLC, on the instances of the runs.

- `CallContractProofs`: the contract alone implies that a terminal frame is last.
- `DispatcherProofs`: `TypeOK`, `CloseReachesEveryHandler`, `DrainedIsQuiet`, `NoStaleEntry`, `SlotsBounded`, and that
  Dispatcher implements CallContract, whence `TerminalIsLast`, which the run therefore leaves to `KeepsContract`. Two hypotheses are named there: no two calls share an id
  (`IdsUnique`), and no handler leaves a sender behind (`Leaky = {}`). The inductive invariant says which stage of a
  goroutine owns which table entry, slot and wait-group count, that a context not yet canceled is within reach of its
  id, and that what `Close` has not canceled is still in its snapshot, or in the hand of the read loop: `CloseReachesEveryHandler`
  excepts the one call whose cancel function `cancelRPC` has taken out of the table and is about to call, and that call
  alone. That it implements Surface needs neither
  hypothesis, only `CountInv`: who is in the wait group, and how far `Close` is.
- `RawStreamProofs`: `TypeOK`, `NoGap`, `EOFIsComplete`, `NoLostWakeup`. The invariant numbers the received and the queued
  frames on end, and says that a handler that found nothing has a wake-up in the channel or a feeder about to put one there.
- `SessionProofs`: `SessionTypeOK`, `WaitingIsServed`, `CancelHitsOwnCall`. `SInv` follows a call through the channel up,
  the dispatcher and the channel down: an open frame on its way is the only one of its call, and its call is new to the
  dispatcher; a cancel on its way is of a call the page withdrew; what the page waits for is on one of the three.
  The page numbers its calls, so `IdsUnique`, a hypothesis of `DispatcherProofs`, is an invariant here:
  `SessionRefinesDispatcher` shows each step of a session to be a step of `Dispatcher` or none, and
  `SessionKeepsContract` that the contract holds with `Leaky = {}` as the one hypothesis left. `NilReturnIsDone` speaks of
  every call whose done was ever sent, so also of one whose goroutine is gone and whose frame is still on its way.
- `LifecycleProofs`: of `Modules` the invariant `MInv`: how far each loop is determines what every enabled module went
  through; the manager's note agrees with it; a disabled module is never touched. Of `Lifecycle` `TypeOK`, `StackOrder`,
  `NothingLeft`, `WindowCallsHaveModules`, `ServerCallsHaveModules`, `StartsAfterAllLoaded`. `LInv` says who answers for a
  window: while it takes calls it is a bridge, or `Run` has yet to close it, or a drain is counted for it; while it has
  handlers it is open, or being drained, or being closed, or a deadline gave up on it; and past the teardown none of
  these is left. `WindowCallsHaveModules` alone is not inductive: it says nothing of the drain that a close after
  `LoopEnds` still owes. `WindowsKeepToSurface` is the other half of the joint with `Dispatcher`: what `BridgeClosed` and
  `DrainEnds` take for granted of a `Close` is what `Surface` promises, and `SurfaceKept` shows that the dispatcher keeps it. `ServerCallsHaveModules` holds of the
  command line socket opened at boot or by a takeover that ended before `closeCLI`; one opened behind it (`Stray`) is
  excepted, and `cli_takeover` shows that it exists.
- `FilesProofs`: `SavedIsKept`, by `StoreInv`: saves that overlap write the same bytes, because the read lock keeps the map
  as it is; a torn file has somebody who is about to fill it, or a write failed, and then the map still has all that was
  reported. It ends where a process leaves a torn file (`lost`): the next start is empty, and nothing in the code prevents
  that. `AlwaysAnApp`, by `UpdInv`: where the whole app is at each step,
  that what is put in its place is the offer, and what the floor was raised from; its second
  part, that a version may be tried again, needs that no process ended in the middle and that every floor to be put back
  was. `LiveIsSaved`, by `LlmInv`: each provider
  that is not the app's own is the saved one unless it did not open, and each slot is bound to what is saved for it or to
  nothing; `Rebind` and `Resync` restore this from any providers and any bindings (`RebindFollows` and the lemmas after
  it). `OnlyVerified`, by `GetInv`: the blocks of a part are in their places, what was hashed is the part, but for what a failed
  write left behind it, and the next block of a body belongs behind what was hashed. Length and digest are claimed unless
  such a write went past the file's end (`overran`).
- `AgentProofs`: `ToolsRunOnce`, `ConversationIsWhole`. Lemmas about `Fit` first: what it
  may leave out, an answer with its results or all that stood before a user turn, keeps calls and results together. `RunInv` then says that the conversation is whole but for the
  answer whose tools are run, of which the first `nextCall` have their results; that a tool that ran is of an earlier
  answer or an earlier call; and that a yes was given to the call about to run or to one that ran.
- `ServicesProofs`: `OneChild` and `StopLeavesNone` (`SupInv`: `Stop` has seen every child but the one its last look
  missed; after a kill that missed, only a wait that saw the supervisor end is conclusive); `PrimaryReachable` and `CommandsFindTheApp` (`InstInv`: whoever is between the lock and its release holds it, so
  that every step that could take away its socket or its endpoint would be its own); `TurnsInOrder` and `DeniedIsFinal`
  (`McpInv`: the calls that arrived are a prefix of their connection, each behind the one before; the call with a dialog
  is the one its server's `asking` names; and it is not refused before its own answer is in; so each server asks one question
  at a time, none after a Deny that it recorded, and one after a click of Deny only where that click was dropped); `NobodyWaitsInVain`
  (`WebInv`). `EachKeepsToItsOwn` shows that the composition of the nine services is each of them, and `ServicesTyped`
  follows. `Web` and `Supervisor` need little more than the property itself.

For each disagreement of section 8 a theorem says what it takes to avoid it, so that the counterexample is known to be
the only way into it:

| disagreement | theorem | what it assumes or says |
|---|---|---|
| `late_message` | `NoLateMessageWithoutLeaks` | no handler leaves a sender behind |
| `session_notice` | `NilIsDoneWithoutLateData` | no data frame reaches a stream whose entry is gone (`NoLateData`), no sender left behind |
| `session_reload` | `NeverForeignOnOnePage` | one page load, no sender left behind |
| `module_retry` | `PanicIsOfARetry` | a panic is of a second attempt, and needs an enabled default module |
| `close_veto` | `ServedUntilAVeto` | no close is vetoed (`NoVeto`) |
| `orphaned_call` | `ToolCallsServedUnlessOrphaned` | the agent socket is not switched off under a call (`NobodyOrphaned`) |
| `cli_takeover` | `ClosingWinsBetweenTicks` | no close comes while a takeover is at work (`CloseBetweenTicks`) |

The assumptions about constants are those of the modules. Most say that a bound is a number, a positive one where the
code's own value is, or that a mark is not among the values it marks. Two say more: `AgentRun` takes histories that
are whole, open with a user turn and have one, as a caller of `Run` must pass them, and allows an answer at least one
call, because a server that does not stream answers with one object, calls included; `Updater` numbers versions from 1, so
that a missing floor, 0, is below each.

Only model-checked: the liveness properties (`CanceledLeaves`, `CloseReturns`, `HandlerIsTold`,
`EveryCallSettles`, `QuitReturns`), because the prover does not treat fairness and ENABLED.
No recursion is used, and no proof needs induction over data: what speaks of sequences of any length is stated of their
positions.

## 8. Where code and comments disagree

Section 7 has a theorem for each of these that says what avoids it.

- `late_message`: `Send` looks at the context, then writes; a goroutine that outlives its handler can write behind the
  terminal frame, which the comment in `stream.go` excludes.
- `session_notice`: `finishRPC` removes the entry before it answers, so a data frame that arrives in between is answered
  with an error first, and a stream whose handler returned nil ends with an error for the page.
- `session_reload`: a reloaded page counts from 1 again over the same dispatcher, and settles its calls with frames of
  the old page's, which the comment in `scorix.js` excludes.
- `module_retry`: a failed start unloads what it loaded and forgets it in the manager but not in the registry, so the
  retry that a comment in `modules.go` provides for registers a default module twice and panics.
- `close_veto`: the close handler of `attachWindow` tears the bridge down whether or not another handler vetoes the
  close, so the window that stays open, as `event.go` promises, is no longer served.
- `orphaned_call`: switching the agent socket off forgets its calls; a quit that follows stops the modules under them,
  which a comment in `app.go` says must not happen.
- `cli_takeover`: the takeover of the command line socket looks whether the app is closing before it opens, not after, so
  a close in between leaves a server that commands reach while the modules stop.

Met while modelling, and without a run of their own: the first two are in the models, and the property that they touch
excepts them by a history variable; the others are left out by an assumption that the modules' comments name, or excepted.

- `mcp.go:485`: a Deny is recorded only if the call was not cancelled and the client is still there when the dialog returns;
  otherwise the next call asks again, although the comment at `mcp.go:102` says "not asked again until MCP is switched off
  and on". `DenyKept` shows that this is the only way: a server that asks after a Deny has dropped one (`dropped`).
- `fetch.go:249`: a write that fails may have stored part of its bytes. Where a body overran the described size, the retry's
  range is not satisfiable at exactly that size, which goes on to verify length and digest of what was hashed; the part is
  renamed with the tail that the failed write left, although the package comment says that a file that arrives wrong
  never reaches its final name. `StoredIsVerified` shows that it takes such a write (`overran`).
- `proc.go:201`, `244`: a `Stop` between the last look at `p.stopped` and `p.cmd = cmd` kills the old child, and the new
  one may outlive it. `StopLeavesNone` claims nothing of this window (`stopPc` `missed`, and `lost` when the wait ran out).
- `proc.go:191`: after some thirty restarts in a row the shifted backoff overflows and is no backoff.
- `store/module.go:126`: a crash in the middle of a save loses every key at the next start; `SavedIsKept` claims nothing from
  then on (`lost`).
- `updater/module.go`: two concurrent `FullUpdate` calls destroy each other's backup; a crash after `writeFloor`, or a
  `restoreFloor` that fails, retires a version that was never installed (`crashed`, `unrestored`).
- `fetch.go`, `model/store.go`: two concurrent `Get` calls of one file share its part.
- `module/llm/module.go:706`: deleting a saved record also unregisters a provider of the app's own under the same id.
- `mcp.go:796`: two switches that cross leave the setting on without a server. `mcp.go:394`: a tool switched off while the
  user is being asked about it still runs. `mcp.go:445`: the approval is read before the lock, so a second call may ask
  again just after an Allow. `core.go:403`: a cancel for a call that waits for its turn finds nothing.
- `scorix.js:174`: `init()` while the page's own socket is closing opens another, which the old `onclose` then forgets.
- `app.go:723`: `RunWeb` may stop waiting before `closeWebSockets`, which runs in a goroutine of `Shutdown`, has begun.

## 9. Not modelled

- The end of `RunWeb`: what `Shutdown`, `closeWebSockets` and `waitWebSockets` do to the modules (section 2).
- `OpenWindow` waiting for an event loop that ended, a second caller of `startModules` while the first is loading, and a
  second `Run` after one that completed: listed as hazards.
- Carrying out a command over the command line socket, the agent's stdio proxy, identification of a peer, listings and
  batches of the MCP core; in `Lifecycle` both sockets are gates. The per-tool switch is a free choice in `McpAgent`.
- `Emit` and `EmitTo`, which write to a queue and forget.
- The Windows variants of the lock and of the installer, which are a kernel object and a hand-over to msiexec.
- What a hook or a handler does with a module; configuration; permissions, which are pure look-ups.
- Translation to and from the JSON of the model servers, retrieval, hardware probing, file formats: functions without
  state, whose tests compare outputs.
- Drivers, wrappers of operating-system services, the mobile hosts: bindings to foreign interfaces whose behaviour is
  not in this repository. They are more than a tenth of the code.
- The command line tool (`internal/cli`, a quarter of the Go code) with its generators and templates: one pass from
  input files to output files.

This is why the map covers a small share of the repository's lines: the code that is left out is mostly long and keeps
little state from one call to the next.

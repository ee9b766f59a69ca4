# KeySidekick in TLA+

KeySidekick turns a second USB keyboard into a macro pad. It opens the device with WinUSB, reads its HID reports and,
by the mapping of the active profile, injects keys into the system (basic mode), posts them to the window of one
application (targeted mode), fires a macro, or switches the profile. A dashboard served on localhost edits the profiles,
which are kept in `config.ini`.

This directory holds TLA+ modules of the parts of the program in which order, failure and concurrency matter, TLC
configurations that check them on small instances, and theorems that TLAPS proves for all instances. `PROJECT.json` maps
every definition to the lines it is translated from, and lists runs, mutants, hazards and theorems.

    tlc -config MCBasicRouting_main.cfg MCBasicRouting.tla      # model-check an instance
    tlapm BasicRoutingProofs.tla                                # check the proofs

Contents: 1 the system; 2 the modules; 3 the runs; 4 bounds; 5 fairness; 6 proofs; 7 where documentation and code
differ; 8 what is left out; 9 plan.

## 1. The system

Threads of the agent process (`src/src/sidekick.cpp`): the *main thread* owns the device, the routing, the message
window and every edit but one; the *accept thread* hands connections to a pool of *HTTP workers*; each page that follows
the events has an *SSE thread*; the console handler runs on a thread of Windows. They share the profiles
(`g_csProfile`), two ledgers of held keys (`g_csLedger`), the revision and the registry of pages (`g_csRevision`), and a
few atomic flags. A *supervisor* process may run the agent as its child; other *launches* of the program find the agent
by a named mutex.

| component (source) | state | operations | what is hard | what makes it correct |
|---|---|---|---|---|
| Report routing, basic (`ProcessReport`, `BasicReinject`, `SendOneScan`, `ReleaseAllKeys`, `input_ledger`, `report_diff`) | previous report, active profile, ledger of injected keys, identify window | a report, a profile switch, a release, the identify window | `SendInput` and its ledger entry are two steps; workers release in between | a key that is down is in the ledger; released keys come up; nothing is left down at exit |
| Report routing, targeted (`SendHoldableKeyToTarget`, `ReleaseTargetedUsage`, `DispatchTargetedRepeats`, `targeted_input`) | ledger of held keys with the identity of their window, repeat timer | the same, and the timer | window handles are reused; a release overtakes a repeat; two threads share one timer | each key-down gets its key-up, unless the window refuses it; held keys repeat; a window sees a key down only while it is held |
| Dashboard operations (`RunDashOp`, `WM_DASH_OP`, `WriteConfig`) | the operation on the heap, its event and flags, memory and file, `g_csProfile` | post, apply, persist, answer, time out; create an application and import on the worker | the caller gives up while the main thread completes; workers edit and write beside it | freed once and never used afterwards; the file holds what is in memory; every caller gets an answer |
| Supervisor (`supervisor.cpp`) | policy (backoff, crash window, health), child, heartbeat, shutdown event | start, watch, restart, stop | crash, hang, failed call and shutdown in any order | restarts are bounded; no child left or forgotten; a shutdown ends it |
| Runtime state (`runtime_state.cpp`) | snapshot with revision, waiters | transitions, updates, stop, wait for a revision | a change during the test or the timeout of a waiter | no wake-up missed; an answer fits its snapshot; a revision per change |
| Command queue (`command_queue.h`) | queue, outcome of each command, sleepers | enqueue, pop, fulfil, cancel, shut down | notifications after the mutex | no lost wake-up; every accepted command completes |
| Live updates (`BumpRevision`, `NotifySseClients`, `SseClientThread`, `web/app.js`) | revision, registry of sockets, page state | bump, push, connect, leave, poll, refresh | who closes a socket; pushes out of order; a page with unsaved edits | each socket closed once, though handles are used again; an attentive page becomes current |
| HTTP server (`HttpThread`, `HttpWorkerThread`, `HandleHttpConnection`, the end of `main`) | permits, workers, sockets, critical sections | accept, hire, read, dispatch, hand over, drain | failing calls, slow clients, shutdown at any time | permits and sockets never lost or owned twice; nobody is at work after a drain that found nobody |
| Device loop (`main`, `ReadLoop`, `ReconnectDevice`, `OpenDevice`) | handle, overlapped read, flags, pending messages | find, open, wait, read, abort, reconnect | unplugging, resume, activation and shutdown around an outstanding read | no read outlives its bookkeeping; a device that is there gets opened; shutdown ends |
| Storage (`runtime_storage.cpp`, `LoadConfig`, `WriteConfig`) | `config.ini`, temporary file, backup, memory | load, edit, write, reload | any call fails; the machine stops at any step; two writers | no partial file; a save reported as done stays; a save is atomic |
| Profiles (`domain_model.cpp`, `config_domain_bridge.cpp`, `config_v3.cpp`, the operations of `WM_DASH_OP`) | domain, runtime profiles, file | the twenty edits, save, load | three forms of the same data, converted back and forth | the forms agree; an edit is local; what is saved is what is loaded |
| Single instance (`app_instance.cpp`, `main`) | named mutex and event, window, progress of each process | launch, acquire, ask the agent, end, be killed | a launch meets an agent that starts, ends or dies | one agent; a launch opens the dashboard of the agent that runs |
| Window targets (`windows_targets.cpp`, the lookups of `sidekick.cpp`) | none: functions of the desktop | filter, score, resolve, three lookups | empty and unreadable parts; three lookups that should agree | keys reach the window that is meant, and no other program |
| Auto-switch and tray (`AutoSwitchOnForegroundChange`, `ShowTrayMenu`) | what was in front at the last tick, the open menu | tick, open, pick, dismiss | the menu is modal: ticks and dashboard operations run under it | nothing is switched that nobody meant; the profile follows the program in front |
| Mappings and layers (`FindMappingForUsage`, the operations on keys, the bridge) | the list of one profile, in three forms | add, remove, change, move, copy, save, convert, load | the order of the list decides, and is not kept | the same keys do the same, whatever the list went through |
| Capture and identify (`capture/*`, `input/identify`, `ProcessReport`, `RecordIdentifyEvent`) | armed flag, captured key, start of the window, feed | arm, poll, open the window, a report, a press | atomics written and read one by one by workers and the main thread | a page sees a key pressed for it; the window is quiet and closes; the feed tells what was pressed |
| Request checks (`http_security.cpp`, the routes) | token, configured and bound port, the open page | start, import, open, ask | pages outlive the program; routes and list are kept apart | no change without the token; a page gets what it asks |

How they interact: an HTTP worker *posts* an operation to the main thread and *waits* for its event; the main thread
*pumps* messages inside `ReadLoop` and inside the wait of `main`; edits *bump* the revision, which is *pushed* to the
pages; a profile switch *calls* the releases of both ledgers; suspension, removal of the device and exit do the same
through `CloseDevice`. The routing *asks* window targets and mappings what a press does; the auto-switch and the tray *switch* the
profile as a key does. The remaining components (action grammar, driver set-up, packaging) are in `PROJECT.json` with the
reason why they are not modelled.

## 2. The modules

An action is what a thread does while it holds a lock, or one call of the system, or one message; its comment names the
function. `MCx` instantiates module `x`, `xProofs` proves theorems about it (`ProcessProofs`, `LibraryProofs`, `ServerProofs` and `MainThreadProofs` about two
modules or more; those of ConfigStorage are in `LibraryProofs`). Five MC modules instantiate two or three modules that
share no state: `MCLibraries` (RuntimeState, CommandQueue), `MCProcesses` (Supervisor, AppInstance), `MCPages` (SseHub,
Listening, IdentifyFeed), `MCDesktop` (Desktop, KeyMap), `MCHttpServer` (HttpServer, RequestChecks). There a variable chooses the part
that a behaviour uses; the others stay in an initial state, and the fairness of a part is required while it is in use. Such a
run is the union of the runs of its parts, not their product.

**ReportRouting** holds what both modes share: usages, actions, the effect of an action on the active profile
(`ExecuteAction`). Two modules extend it.

**BasicRouting.** `prev`, `report`, `prof` are `g_prevKeys`, the report at hand and the profile it was begun with;
`owned` is `g_injectedKeys`, `osDown` what the system believes to be down. `BeginReport`, `Gate`, `Dispatch`, `EndDispatch`,
`NextKeys`, `EndReport` are `ProcessReport`; `CheckUp`, `SendUp`, `SendDown`, `Record` are `SendOneScan` and the downs
of `BasicReinject`; `RelSnapshot`, `RelSend`, `RelRecord`, `RelReturn` are `ReleaseAllKeys`, on any thread; `WorkerCall` …
`StoreTick` are the routes that release keys. Two history variables name the exceptions the properties need: `raced`, a key
injected while a worker had it in its copy of the ledger, and `missed`, a key swallowed with a report by the identify
window or by an edit of the profile's mode.

**TargetedRouting.** `held` is `g_targetedKeys`, `timer` the repeat timer, `ident` the window behind each handle, `winDown` what
each window believes. `Press`, `PressPost`, `Enter`, `ScheduleRead`, `ScheduleSet` are `SendHoldableKeyToTarget`;
`Vanish` is the release of a usage that left the report; `TimerFires` … `EndRepeat` the repeats; `Rel*` the release on any
thread; `WindowChanges` lets any window go and its handle be taken over, at any step. A window that is there may refuse any message
(`PostMessage` fails when its queue is full or it belongs to an elevated process), `SetTimer` may fail, and there may be no message window
(`MsgWindow`). The code reports neither to anybody, so keys are lost: `stray` has, window by window, the keys the ledger has lost track of, until
their key-up arrives after all; `timer` is "failed" while the timer should run and could not be set.

**OperationService** is what a caller of the dashboard is promised: an operation is performed at most once, and an answer that is
not a timeout tells how. **DashOp** is the code: `Post`, `WaitSucceeds`, `WaitExpires`, `Collect`, `DeleteOp`,
`Abandon` on workers (`RunDashOp`), `Take`, `Apply…`, `Persist`, `ReadTimedOut`, `Signal`, `Dispose` on the main thread. Two
requests do their work on the worker: the import writes the file (`WriteImport`) and then posts a reload, the creation of an application edits
the domain (`CreateEdit`) and then writes the file (`CreateSave`). They need `g_csProfile`, which the main thread holds in "apply" (2452), in
"persist" (5737) and in "reload" (5532) and leaves between these (`LeaveForReload`, `Reenter`); a worker's own region under the lock is one step, taken when
the main thread is outside (`LockFree`). DashOp implements OperationService (property `ServiceSpec`, theorem
`ImplementsService`). A configuration is the set of operations whose edits it contains.

**SupervisorPolicy** is `Policy::Observe`, event by event, as operators; **Supervisor** is `WindowsSupervisor::Run` around it,
with a child that beats, falls silent and exits as it likes.

**AppInstance** has a process per launch: `CreateMutex`, `CloseOpened`, `CreateEvent` (`Acquire`), `CreateMsgWindow`, `LeaveLoop`, `CloseHandles` and
`Exit` for one that becomes the agent, `OpenEvent`, `SignalEvent`, `PostToWindow` (`RequestOpenDashboard`) for the others. The mutex
and the event are the sets of processes that have a handle; `Kill` takes any process at any step.

**RuntimeState** is the class of that name with the `condition_variable` of `mingw_threading.h`, whose deadline is
a 32-bit tick count (`Wrap`). **CommandQueue** is the header of that name. Tests are the only callers of both so far; they
are modelled as the classes they are.

**SseHub** joins the pushers and SSE threads to the page of `web/app.js`: `Bump`, `Notify`, `Drop`; `Connect`, `Admit`, `Greet`,
`Register`, `Look`, `Check`, `Leave`, `CloseErased`; `Receive`, `Poll`, `Refresh`, `Answer`, `Show`, `Fail`, `Edit`, `Save`,
`Select`, `Lost`. The registry is the set of its sockets: a socket listed twice, which the vector of the code could hold, would show in the count.
A handle that was closed may be the next connection's, while the thread that had it still sleeps on it.

**Listening** has the tabs that capture a key (`StartCapture`, `Arm`, `PollCapture`) or identify a device (`StoreListening`, `StoreStartTick`),
each store a step of a worker, against the steps of a report (`StoreKey`, `Disarm`, `ReadClock`, `Gate`, `CloseWindow`).
**IdentifyFeed** is the ring of presses that `WM_INPUT` fills meanwhile, under its lock.

**HttpServer** is the life of a connection from `Accept` to `GiveBack` or `HandOver`, and of the program's end: `StopServing`,
`DrainSse`, `DrainWorkers`, `Join`, `DeleteSections`. Each of the three waits may end with its condition met or with its 3 s over, at any
moment; `drained` remembers whether the one for the workers found none.

**RequestChecks** is what a request meets after it was read: `Validate` (`ValidateDashboardRequest`), `Judge` (those checks and the
routes of `HandleHttpConnection`), asked by a page with the token and the port it was served with, and by others; `StartProgram` makes
a new token and binds the configured port, `Configure` imports another.

**WindowTargets** has `IsWindowCandidateAllowed`, `ScoreTargetCandidate`, `ResolveTarget` and the lookups of `sidekick.cpp` as operators over a desktop.
**Desktop** changes the desktop (`WindowOpens`, `WindowCloses`, `Focus`) under the timer of the auto-switch, the modal menu of the tray
(`BuildTrayMenu`, `PickProfile`, `DismissMenu`) and the dashboard. The timer may fail to read the process in front at any moment.

**KeyMap** is one profile's list of mappings (`keys`), its form in the domain (`mappings`) and in `config.ini` (`file`), with every operation that edits
it and `FindMappingForUsage`. Modifiers are the eight bits of a report.

**DeviceLoop** is the main thread as the owner of the device. `irp` is the overlapped read as WinUSB knows it, `readPending` as `ReadLoop`
believes it; `posted` are the messages that matter; the bus, the console and the timer are the environment. The console's message may fail to
be posted (`ConsolePost`).

**AtomicFile** is a file whose content changes at one instant. **ConfigStorage** is `AtomicWriteUtf8` call by call under
`WriteConfig`, with loads, failures and crashes; it implements AtomicFile (property `WritesAreAtomic`, theorem
`ImplementsAtomicFile`). What the disk keeps of a file that was not flushed is a choice; a file that
`ReplaceFileW` left half exchanged is one of its outcomes.

**ProfileDomain** has the pure part: the operations of `ProfileService` and the conversions domain → runtime
(`ProjectDomainToRuntime`), runtime → domain (`SyncRuntimeToDomain`), domain → file (`Serialize` and the legacy writer) and file → domain. Where
the code walks through a map in the order of its keys, the model has a recursive function over that order. **ProfileStore**
has the operations of the dashboard over the three forms. Three definitions name what the properties except: `Unambiguous`, `OwnsTarget`
and `Storable`, a name, an application and a profile that the three forms can tell apart. `IsSound` is what the lookups of the code rely
on. Of the demands of `validateDomainModel`, which only tests call, it has the built-in profile (617), the unique ids and names of
profiles (601-606) and the links (494-510). Four others are stated and fail (section 7); the rest is about what the model leaves out.

## 3. The runs

Every passing run explores its whole state space; every property has a mutant in `PROJECT.json`, a plausible bug in
a mapped definition that violates it under the same configuration. TypeOK is a conjunct of one property of a run or
is proved (section 6).

| run | asks | properties |
|---|---|---|
| `basic_main` | a worker releases while reports, switches, edits of a mode and the identify window run | `NoLostKey`: a key that is down is in the ledger, being entered, or raced. `NothingLeftAtExit`: after a clean exit only raced keys are down. `DownKeysAreHeld`: at rest no key is stuck and none survives a switch to a targeted profile. `ReleasedKeyComesUp` (liveness) |
| `targeted_main` | the same for targeted mode, with the timer, keys fired from the Live screen, windows that replace each other and refuse messages, a timer that cannot be set | `OpenedIsAccounted`: each key-down has a key-up to come, or was lost when its window refused that or a repeat. `HeldKeysRepeat`: held keys imply a timer that runs or could not be set. `LedgerIsTrue`: held means physically down, in a targeted profile, or fired; and a window sees a key down only if the ledger will release it or has lost track of this very key |
| `dash_main` | edits, fired actions, created applications and imports, with timeouts, failing posts, reads and writes, and the lock of the profiles | `OpsAreLive`: no use after free, no double free. `FileHoldsMemory`: between messages the file is what the program runs on, but for an import before its reload and a creation before its write. `EveryCallReturns` (liveness): every request is answered, though the lock is held and the main thread stuck or gone. `ServiceSpec` (refinement) |
| `process_main` | a supervised child that crashes, falls silent, resists, under a shutdown; three launches of the program, any of them killed | `RestartsAreBounded`: per window, whatever mixture of failures. `NothingLeftRunning`. `RunMovesOn` (liveness): a shutdown makes `Run` return, silence makes it act. `OneAgent`. `LaunchOpensDashboard` (liveness) |
| `library_main` | two waiters against changes, a stop and timeouts; two callers and two owners of commands | `WaitsAreTrue`: nobody sleeps over news, and an answer fits its snapshot. `StopIsHeard` (liveness). `NoLostWakeUp`. `EverythingEnds` (liveness) |
| `pages_main` | two pages, three threads and two handles for one place; a page whose refreshes fail and overlap under two pushers; two tabs capture and identify while reports come; a feed that overflows | `RegistryIsExact`: an open socket has one record or is in the hand of one thread, each record is watched, the counter counts them. `AttentivePageIsCurrent`: a page that missed and ignored nothing, and whose last refresh did not fail, has shown the present state, and shows it unless that refresh crossed another. `ListeningServes`: `WindowHolds` and `CaptureServes`. `FeedIsTrue` |
| `http_main` | two connections and one worker, every call fails, stop at any time; every route asked by pages and scripts over starts and imports | `PoolIsKept`: permits, workers and sockets are accounted for, and one thread closes a socket. `DrainedIsQuiet`: if the drain found no worker, no request is at work afterwards. `WorkersComeBack` (liveness). `RequestsAreJudged` |
| `desktop_main` | windows of four kinds come and go under the timer, the menu and the dashboard; edits, saves, conversions and restarts of a list of mappings | `KeysReachTheTarget`. `SwitchesAreMeant`, for a menu whose profiles did not change. `FocusIsFollowed` (liveness), for a process that could be read. `LayersAreKept` |
| `device_main` | two devices come and go, get activated and configured; resume, abort, end | `DeviceIsKept`: no read under way when the device is freed or another read begins, and no activation forgotten. `DeviceIsOpened`, `ShutdownEnds` (liveness), the latter unless the console's message was lost and no timer ticks |
| `storage_main` | two writers, failures and crashes at each call, short loads, a reload in between | `StorageInv`: neither file is ever partial, one writer at a time. `AckedEditsSurvive`. `WritesAreAtomic` (refinement) |
| `profile_main` | any three operations on the profiles, with switches, reloads, failed saves and restarts | `ProfilesAgree`: profiles are unique, link what exists and are in step with the runtime profiles, and what is saved is what is loaded. `EditsAreLocal`: an edit touches its profile only |
| `profile_reload` | a reload that cannot read the file | `ActiveExists` is **violated** (section 7) |

## 4. Bounds, and why they are enough

| constant | value | reason |
|---|---|---|
| routing: `Usage`, `Profile`, `Worker` | two usages `s` and `k` (one switches, one does not), a basic and a targeted profile, one worker | the code treats usages one by one and only distinguishes a switch key from another; two profiles give every combination of modes; releases of two workers do not add to a race with the main thread, and the theorems hold for any number |
| `Modifier = {}` in the main configurations | modifiers as keys occur in `MCBasicRouting_switch.cfg` | a modifier is a key that is never dispatched |
| `EdgeSet <- SwitchAloneEdges` | a report that presses a switch key changes nothing else | without it `SwitchReleasesInjected` and the first part of `LedgerIsTrue` fail (section 7) |
| `Handle`, `Identity` | one handle, two windows | one handle is enough to be taken over; posts to different handles do not interfere |
| `FiredUsage`, `Fired` | the usage that is held; a key and every switch | a fired key for a usage that is also pressed |
| `Worker`, `Op`, `MaxCalls` 3 (DashOp) | two workers, an operation of each of four kinds, any three of which are called | two callers can have one operation each while the main thread works on what a third left to it |
| supervisor: `InitialBackoff` 1, `MaxBackoff` 2, `HeartbeatTimeout` 2, `HealthyReset` 3, `CrashWindow` 3, `MaxCrashes` 2, `Horizon` 4 | ticks | one doubling and the cap of it, a window that an attempt can leave, a silence shorter than the healthy time; an age above `Horizon` is older than every limit |
| runtime: `Wrap` 8, `MaxTicks` 1, `MaxReport` 1, `MaxRevision` 2, `Timeout` 1 | ticks and changes | a change before and one during a wait, timeouts that end before, with and after it; the wrap of the counter has a configuration of its own |
| queue: `Capacity` 1, `MaxId` 2 | commands | full and empty, and a second command while the first is under way |
| SSE: `Cap` 1, `Loads` 2, `MaxRevision` 2, three pages, of which `Followed` is one, three threads, two handles | | the cap is met by two pages, and a third thread still has a handle they use; two revisions can be pushed in the wrong order; two refreshes can cross. Three screens share these: two pages compete for the sockets, of which nothing but the socket is followed, and the state changes once; the page that is followed has two refreshes under way; or it edits and has one. It is served by one thread at a time |
| HTTP: `Pool` 1, two connections | | the second finds the pool full |
| requests: `Port` {80, 8765}, `MaxStarts` 2 | | a port that browsers write and the one they leave out; a page of the start before. Every route is asked; of the headers the combinations the checks tell apart |
| processes: three | | an agent that ends, one that starts meanwhile, and a launch at any point of that |
| desktop: two handles, three profiles, four kinds of window, three targets | | two windows of one class, of which one belongs to another program, cannot be read or is hidden; two profiles that name one program |
| mappings: `MaxKeys` 2, two usages, two actions, four layers over two groups of modifiers | | a key with two layers, a neighbour to move past; the layers of a key compare in pairs |
| listening: one key, two tabs, `Window` 2, `Wrap` 8, `MaxTick` 3 | | a tab that takes the other's key; a window that is open, ends and is opened again. The theorems of the routing have any number of keys |
| feed: `Ring` 2, `MaxPress` 4, a device with ids and one without | | the ring overflows twice |
| device: `Tries` 1, `Backoff` 2, `MaxEvents` 3, two devices | | one failed attempt of a reconnect is like the next; two seconds are more than the period of the timer; three events outside the main thread meet one read |
| storage: `Edit` three edits, one worker | | each thread edits, and one edits again after a crash or a reload |
| profiles: `MaxOps` 3, eight ids, three names, two targets; `NewId`, `NewName`, `NewTarget`: requests give two of the ids, two of the names and one target | | a clash of ids needs one profile and one request; three operations, each with its save, connect create, link and delete; one of the ids is refused by the current format, three are those the legacy parser makes; one of the names is the runtime name of the built-in profile; the profile that is there has the third name, which has a dot, and the other target, and a new mapping has the one action that refers to a profile. 450,000 states |

Also bounded by the form of the model: handles are given to pages only. A thread that still has a handle which meanwhile is that of
some other request is not followed: until the handle is listed it can only read from it, and no record is found.

## 5. Fairness

Nothing outside the program is fair: no key is released, no page leaves, no device is plugged by necessity.

- BasicRouting: once begun, a report and a release run to their end. The code between waits only for `g_csLedger`, held
  for one operation on the ledger.
- DashOp: each step of a worker. The main thread is *not* fair: it may be stuck between any two steps, or gone; workers are
  saved by their timeout. Only where it holds `g_csProfile` does it go on (`Locked`): what it does there computes, or reads or
  writes one file, and waits for no other thread. A worker that waits for the lock is not starved, for the requests are finitely many.
- Supervisor: `Run` and time. The child owes nothing, not even to die: a `TerminateProcess` that does not help ends in
  a failure.
- RuntimeState, CommandQueue: a thread that is awake goes on, a sleep with a deadline ends, a notification under way is sent; owners
  of the queue keep popping and complete what they popped. Nobody has to enqueue, wait or stop.
- AppInstance: a launch that asks goes on with its calls, and an agent in its loop takes its messages; nobody has to start or to end.
- Desktop: the timer of the auto-switch ticks (one second, on the main thread, also under the menu). No user does anything by necessity.
- HttpServer (`LiveSpec`): workers go on, `recv` and `send` return or time out, time passes. The accept thread, the main thread and
  the browsers owe nothing.
- DeviceLoop: the main thread and the console thread go on, time passes, an abort takes effect at last.

The fairness is weak throughout: nothing needs a lock or an event to be granted to one thread again and again.

## 6. Proofs

The proof modules hold for every value of the constants that satisfies the assumptions beside their declaration: any
number of usages, profiles, workers, windows, operations, waiters, edits. Those assumptions say that sentinels differ from
values, that there is a default profile, that capacities are positive, that callers, owners, threads of pages, sockets and groups of
modifiers that are counted are finitely many.

| module | theorems | inductive invariant, and why it is needed |
|---|---|---|
| BasicRoutingProofs | `TypeCorrect`, `NoKeyIsLost`, `ExitReleasesEverything`, `NoKeySticks`, `NothingIsExcepted` | `LedgerInv`: besides `NoLostKey`, a key whose up was sent and not yet recorded is up (`UpsAreUp`), and while the main thread releases, its copy covers the ledger, which others only shrink (`MainReleaseCovers`); without these the step that records an up, and the last step of a release, could lose a key. `HeldInv` follows a report from the dispatch of its edges to the last key (`DispatchInv`, `DownInv`), and relates the ledger to the system at every step (`ExactInv`): a key of the ledger is down or on its way up, and no worker's copy has the key that is being entered |
| TargetedRoutingProofs | `TypeCorrect`, `EveryPressIsAccounted`, `HeldKeysKeepTheTimer`, `WindowKeysStayHeld`, `HeldKeysStayDown`, `LedgerStaysTrue` | `TargetedInv`: what a thread has left to post, which entry is due (`HandoverInv`), and where the timer is off although keys are held (`TimerInv`): only while some thread is between killing and setting it. `WindowInv`: a key a window sees down is held, being entered, in the hands of a thread that will post its key-up to that window, or astray. `DownInv` and `PhaseInv`: a held key is in the report at hand or in the set of those that left it, by the stage of `ProcessReport`, and where a switch may have happened |
| ServerProofs, HttpServer and RequestChecks | `HttpInvariant`, `PoolStaysExact`, `DrainedStaysQuiet`, `ChecksAndRoutesAgree` | `HttpInv`: besides the counts (`Permits`), which thread has a socket at each point of its life (`Life`), so that a step that moves a permit or closes a socket moves exactly one. `DrainInv`: once the main thread has left its loop the program is to stop, so that who is hired later closes at once. `ChecksAndRoutesAgree` needs no strengthening: an answer was given with the token and the port that still are the program's, because a start forgets it |
| ServerProofs, SseHub | `RegistryStaysExact`, `AttentivePageStaysCurrent` | `HubInv`: an open socket is listed or in the hand of one thread, a record is watched, a socket in hand is not listed (`Records`), so that a step that lists, drops or closes a socket moves one record and the count by one (`Tallied`); whose handle it was before does not matter. `PageInv`: nothing on its way to a page is newer than the revision (`NoneAhead`); a page that a push reaches, or passes by between greeting and registration, has seen the revision, will be answered with it, has it in its channel, or a pusher still holds it, or a refresh failed (`LinkedIsFresh`); and a refresh that was alone shows what it was answered (`Alone`) |
| ServerProofs, IdentifyFeed | `FeedStaysTrue` | `FeedTyped`, and `FeedIsTrue` itself: the ring after a press is the last of the ring before it (`RecordStep`) |
| DashOpProofs | `TypeCorrect`, `NoUseAfterFree`, `ImplementsService`, `FileAndMemoryAgree` | `DashInv`: each operation has one worker, is queued once (`QueueInv`), and which of the two threads will free it at each pair of program points (`WorkerInv`, `MainInv`, `ObjectInv`). `ImplementsService` maps each step to a step of OperationService or a stutter, under that invariant. `FileInv` says what `FileHoldsMemory` becomes while a message is handled: nothing between an edit of the main thread and its write, and an import excuses its own reload |
| ProcessProofs, Supervisor | `TypeCorrect`, `ChildIsEnded`, `OneChild`, `CrashLoopIsCutOff` | `SupervisorInv`: where `Run` may be while the child runs, and what the policy believes there (`WatchInv`). `AnswerInv` bounds the restarts: every attempt but the present one is answered by a crash the policy remembers that is no older, so attempts within the window are at most the crashes within it, and pruning keeps those (`PruneKeeps`) |
| ProcessProofs, AppInstance | `SingleAgent`, `MutexIsAccounted` | `HandlesAreAccounted`: the handles of the mutex are those of the agent and of launches that have just found it; one agent follows because the one that creates it finds no handle at all |
| LibraryProofs, RuntimeState | `TypeCorrect`, `ErrorCurrent`, `WaitersAreServed`, `Revisions`, `RealTimeout` | `RuntimeInv`: the type, `ErrorIsCurrent`, `SleepersHaveNoNews`, `AnswerIsRight` are inductive together. `TimeInv` relates deadline, start and ticks |
| LibraryProofs, CommandQueue | `NoWakeUpIsLost` | `NoLostWakeUp` is inductive as it stands: a command comes with a caller that will notify, a notification turns a sleeper into an owner that is up, and an owner that is up takes a command before it sleeps again (`WakeUpStep`). The work is to count: one thread more or less in each set |
| MainThreadProofs, DeviceLoop | `DeviceStaysKept` | `DeviceInv`: besides the property, that no handle means no device behind it, that `ReconnectDevice` has closed before it opens (`ClosedIsClosed`), and that what `FindDevicePath` found is a device (`PathIsFound`) |
| MainThreadProofs, Listening | `ListeningAlwaysServes` | `WindowInv`: the stored tick is that of the last window, and a report at each of its steps knows what it should see of it. `CaptureInv`: what a page is shown was pressed for it (`KeysHeard`), one page at most is alone (`OneIsSole`), and its key is not lost between two stores (`SoleIsServed`) |
| MainThreadProofs, Desktop | `KeysAlwaysReachTheTarget`, `SwitchesStayMeant` | `DesktopInv`: the type, and that an open menu whose profiles did not change lists them in their order (`MenuInv`). That the lookup is right for a desktop of any size is `TargetIsReached`: every window that fits has the same score (`ScoredIsMeant`), so that the least handle decides, and there is a least one |
| MainThreadProofs, KeyMap | `LayersStayKept` | `KeyMapInv`: the lists have one mapping for each key and layer, with both sides of its groups, and the domain has the list in use. Each edit keeps that (`WithoutIsListed`, `AppendIsListed`, `SortedIsListed`, ...); and two lists of the same mappings then serve a press alike (`SameMappingsServe`), because of the layers that match one asks for most (`BestIsFound`) |
| ProfileStoreProofs | `DomainStaysSound`, `ProfilesStayAgreed`, `EditsStayLocal` | `StoreTyped`: besides a sound domain and the runtime profiles of its names, that `config.ini` is a file which loads without a clash of ids or names, whichever writer wrote it (`FileIsGood`), for the domain after a reload is made of it. `Synchronous`: unless the main thread is between an edit and its save, the runtime profiles are those a projection of the domain would make (`Follows`), and each that has a target has an application to hold it (`Covers`), so that the projection of the next edit gives back what was there. `Saved` says of a clean state what the file holds, profile by profile |
| LibraryProofs, ConfigStorage | `FilesStayWhole`, `SavedEditsStay`, `ImplementsAtomicFile` | `StorageIInv`: how far the temporary file is at each call (`WriterInv`), and that an edit not yet reported is in memory or overtaken by a reload (`EditInv`). `ImplementsAtomicFile` shows the steps around `ReplaceFileW` to be one step of AtomicFile: what the disk can give back changes once |

Six theorems have an assumption of their own. `NoKeySticks` assumes `SwitchAlone`, that a report which presses a switch key changes
nothing else; section 7 shows what becomes of it otherwise (`SwitchReleasesInjected`). It excepts the keys that were raced or missed, which
`NothingIsExcepted` finds to be none if `Worker = {}` and `NoEdits`. `HeldKeysStayDown` and `LedgerStaysTrue` assume `SwitchAlone`, for any number of
workers: it is needed for `HeldKeysAreDown`, the half that speaks of the keyboard; the
other half, `WindowKeysStayHeld`, does not need it. `RealTimeout` assumes `NoWrap`, and `ListeningAlwaysServes` assumes `MaxTick < Wrap`: that
the millisecond counter does not wrap, which is to say that the machine is up for less than 49.7 days; `MCLibraries_wrap.cfg` shows what happens
to a wait when it does, and section 7 says what happens to the window. `BasicRoutingProofs`, `LibraryProofs`
and `ProcessProofs` also prove properties no run lists (`LedgerIsExact`, `ErrorIsCurrent`, `RevisionsTell`, `NoChildDropped`).

The proofs of SseHub corrected its property. With one refresh at a time, as a run once had it, an attentive page shows the present
state; with two, TLC finds the page that shows the older answer because it came last (`app.js:174`). `AttentivePageIsCurrent` now says what is
true of both, with the history variables `newest` and `crossed`, and the run has overlapping refreshes.

Existence over data of any size is proved from a least counterexample (`WFMin` of the library): `Least`, that a set of numbers has a
least member, and `FiniteIsEnumerable`, that a finite one can be put in order. So Desktop walks through a map by `InOrder` and KeyMap
sorts by `Sorted`, which say what the order is; of `SelectSeq`, `SortSeq`, `FoldLeft` and `SetToSortSeq` the provers know nothing.

The conversions of the profiles are folds: over the runtime profiles at a save, over the profiles of a file at a load. ProfileDomain has
them as recursive functions on `0..n`. That such a function exists, and meets its equations, is proved from the least number at which no
finite stretch of it exists (`SieveFolds`, `SyncFolds`, `LoadFolds`); what it computes, by going upwards from 0 (`Upwards`). From these
come the lemmas the invariant rests on: what a save leaves alone (`SyncedCovered`), what a load makes of a file, and that the two undo each
other (`LoadedReturns`).

Two things about the disk and the desktop idealise. A rename counts as done, also under a crash of the machine, once the call has
returned: `MoveFileExW` asks for that (`MOVEFILE_WRITE_THROUGH`), `ReplaceFileW` with its flags of 0 (`runtime_storage.cpp:220`) does not, and
its new directory entries may be lost with the power: the old file would be back, whole, and an edit reported as saved be gone. `AckedEditsSurvive` speaks of crashes of the program, and of the machine after the entries were written. And the lookup of a
target takes the path of a window's process as readable or not for as long as the window exists (`windows_targets.cpp:121`); the
timer of the auto-switch does not (`AutoSwitchOnForegroundChange`).

Two assumptions about the profiles idealise: ids the legacy parser makes are hashes of lower-case names, and `FileAssumption` has
no two names with one hash; and `config.ini`, at the first start, is a file the program has written (`ProfileStoreAssumption`).

The proof corrected the module as well. It asked for a profile called "basic", which the requests of the
configuration had not made: such a profile stands in for the built-in one among the runtime profiles, lends it its
mode at the next save, and is loaded into it at the next start. `EditsAreLocal` now excepts names that are not `Unambiguous`, the part of
`ProfilesAgree` about a save speaks of what is `Storable`, and the run has the name; TLC finds a counterexample when either exception is left out.

Only model-checked: every liveness property (the provers here have no rule for fairness and ENABLED). Every safety invariant and action property of
a passing run, and both refinements, are theorems, with the assumptions named above.

## 7. Where documentation and code differ

The passing runs check what the code does. What a comment or a document says beyond that is stated as a property of its own, next to
the others in the module; TLC shows the counterexample. One of them is a run (`profile_reload`). The others: use the configuration
named, or, if it is a `_main` one, replace its properties by the one named.

| what is said | what the code does | property, configuration |
|---|---|---|
| `src/src/sidekick.cpp:5537`: a reload sets the active profile to the default | when `config.ini` cannot be read it returns at 5464 before doing so; the active profile is one that no longer exists, and every report is dropped at 1351 | `ActiveExists`, `MCProfileStore_reload.cfg` (run) |
| `docs/FAQ.md:81`: a profile switch releases the keys | a report that presses the switch key and another goes through two passes (1404, 1429); the second injects the other key with the old profile's mode after the release | `SwitchReleasesInjected`, `MCBasicRouting_switch.cfg` |
| `sidekick.cpp:1093`: the ledger has the keys to release | a key injected between the copy and the erasure of a worker's `ReleaseAllKeys` (5929–5960) is down and no longer in the ledger | `DownKeysAreOwned`, `MCBasicRouting_main.cfg` |
| `CHANGELOG.md:26`: a key is not delivered to the wrong window | the identity is checked and then used (2088, 867); a handle taken over in between receives the message | `NoStranger`, `MCTargetedRouting_main.cfg` |
| `docs/FAQ.md:55`: a held key is released with the physical key | a window that refuses the key-up, or a repeat, keeps the key down: it has left the ledger, and no key-up is tried again (2137–2143, 2165, 2185) | `NothingAstray`, `MCTargetedRouting_main.cfg` |
| `sidekick.cpp:2098`: a held key repeats from the timer | when `SetTimer` fails (2114) or there is no message window (2099), keys are held and nothing repeats them until the next key is pressed or released | `HeldKeysAlwaysRepeat`, `MCTargetedRouting_main.cfg` |
| `docs/FAQ.md:55`: a held key is released with the physical key | a key fired from the Live screen (2645) is held for a usage no report will release, until that key is pressed and released or everything is | `HeldUntilReleased`, `MCTargetedRouting_fire.cfg` |
| `sidekick.cpp:575`, `3404`: an abandoned operation is deleted by the main thread | `timedOut` is read (2887) before the event is set; a caller that gives up in between leaves the operation to nobody | `NothingLeaks`, `MCDashOp_main.cfg` |
| the import route writes the file and loads it (4430) | an edit processed between the write and the reload writes memory over the imported file, and the reload succeeds | `ImportIsLoaded`, `MCDashOp_main.cfg` |
| the policy's tests: a crash is not a clean exit | when the exit code cannot be read `lastExitCode` is the previous child's (849) | `CrashIsNotClean`, `MCProcesses_main.cfg` |
| a wait lasts its timeout | `GetTickCount() + ms` wraps (`mingw_threading.h:157`): near 2^32 the wait ends at once | `TimeoutIsReal`, `MCLibraries_wrap.cfg` |
| `README.md:59`: no manual refresh is needed | the first revision is sent (3513) before the page is registered (3520); a change in between is not pushed. And the page takes a revision for seen (`app.js:1633`) before it has fetched the state; when that fails (`app.js:174`) it is not tried again | `QuietPageIsCurrent`, `MCPages_gap.cfg` |
| `sidekick.cpp:3422`, `3562`: a thread follows its own record only | records are known by their handle (3556, 3567); a thread that sleeps while a pusher closes its socket (3442) takes the record of the next page with that handle for its own, and may end that page's stream | `OneWatcher`, `MCPages_main.cfg` |
| `sidekick.cpp:3658`: a truncated read is never processed | when the server stops, the read loop ends without a verdict (3674), and what has arrived so far is dispatched, without its body. (A client that closes its side within the headers is dispatched too, 3683, and refused for want of a host) | `WholeRequestsOnly`, `MCHttpServer_main.cfg` |
| `CHANGELOG.md:118`: critical sections are deleted after the drain | the waits have time limits (6372, 6373, 6375), after which they are deleted under a thread that uses them; nor is a page counted that is greeted but not yet listed | `SectionsOutliveUsers`, `MCHttpServer_main.cfg` |
| `sidekick.cpp:6270`: the backoff is a net for a missed event | with auto-switch on, its timer of one second ends every wait (6304), which starts again: the backoff never runs out | `BackoffIsANet`, `MCDeviceLoop_main.cfg` |
| `sidekick.cpp:5969`: on an end from the console a message makes the main thread abort the read | when it cannot be posted, or there is no window yet (5973), and auto-switch has no timer, the main thread waits until the keyboard reports something | `StopIsHeard`, `MCDeviceLoop_main.cfg` |
| `README.md:188`: the menu of the tray icon has the profiles | a command is a position in the profiles of the moment it was picked (3011); when they changed under the menu, another than the one clicked becomes active | `MenuTakesTheClicked`, `MCDesktop_main.cfg` |
| the auto-switch follows the program in front | the window counts as seen before its process was read (2284); if that fails for a moment, it is not tried again while the window stays in front | `FocusIsAlwaysFollowed`, `MCDesktop_main.cfg` |
| `sidekick.cpp:4344`, `CHANGELOG.md:58`: an answer "ok" means saved | between the edit of `POST /applications/create` and its `WriteConfig` the lock is free; a reload in between drops the edit, and the write succeeds | `CreatedIsSaved`, `MCConfigStorage_main.cfg` |
| `domain_model.cpp:619`: the active id is a profile's | 5726 stores a runtime name there; the projection after the next edit falls back to basic | `ActiveIdIsAProfile`, `ActiveIsKept`, `MCProfileStore_main.cfg` |
| `domain_model.cpp:580`: the ids of applications are unique | `POST /applications/create` makes the id from the name (4332), and the save of a targeted profile of that name makes it again (5698) without looking; a lookup finds the first, and the current format then refuses the model | `ApplicationsAreUnique`, `MCProfileStore_main.cfg` |
| `domain_model.cpp:495`: an application is linked once | the built-in profile and one called "basic" that is loaded into it link the same (`config_domain_bridge.cpp:126`) | `LinksAreUnique`, `MCProfileStore_main.cfg` |
| `domain_model.cpp:482`: the built-in profile is a basic one | a profile called "basic" lends it its mode at a save (5679) | `BuiltInIsBasic`, `MCProfileStore_main.cfg` |
| a save keeps every profile | a model with an id the current format refuses is written by the legacy writer, which merges the basic profiles into the built-in one; and the parser takes no section whose name has a dot (`config_v3.cpp:741`) for a profile's | `SavedProfilesReturn`, `MCProfileStore_main.cfg` |
| `README.md:59`: no manual refresh is needed | the token is made anew with each start (6247); a page that was open is refused every change until it is loaded again. With port 80 a browser writes no port, `Host` is completed (3765) but `Origin` is not (`http_security.cpp:169`): no page can change anything | `OpenPageIsServed`, `MCHttpServer_main.cfg` |
| `sidekick.cpp:1283`: exactly the modifiers that are held, else the mapping without any | of the mappings whose modifiers are all held, the one with most (1324): Ctrl+Shift finds the layer of Ctrl | `ExactOrBare`, `MCDesktop_main.cfg` |
| a mapping that is moved stays where it was put (2687) | `config.ini` is written and read sorted (`config_v3.cpp:1190`, 1025); of two layers that ask for equally much, another serves after a restart | `OrderIsKept`, `MCDesktop_main.cfg` |
| the feed shows the device of a press | when its name cannot be read (1984), the working copy still has the device before | `FeedNamesTheDevice`, `MCPages_main.cfg` |

Met while reading, and represented in the models as what they are, or left out with what they touch:

- Routing: the identify window releases the keys on a worker and starts listening afterwards (4927); a report in between injects
  keys whose release it swallows (`missed`). The repeat timer copies the due keys and posts them later (2137): after a
  worker's release it posts one repeat too many, of a key that is then down in its window and nowhere else (`stray`). A repeat that the
  window refuses ends the hold without a key-up (2137–2143), and a key-up that it refuses is only logged (2165) or not even that (2185). The modifier of the Fn layer (`layerModMask`) is edited, saved and shown, and no lookup reads it.
  A copied mapping takes the first layer of its key, although the page sends one (`app.js:259`, 2722). The page shows the mask of Shift as
  Ctrl+Shift (`app.js:165`).
- Capture and identify: two tabs that capture share one flag and one key: one takes the other's, which then waits until it gives up. A report that read the
  clock before the window was opened closes it again (1390). The flag is not cleared when nothing is pressed; after 49.7 days the window would seem open
  again (`Wrap`). `GET /api/capture/poll` takes the captured key and is not in the list that covers "all paths that change state" (`http_security.cpp:198`).
- Single instance: a launch that meets an agent which is ending, or the passing handle of another launch, ends without an agent being started.
  `ConsumeOpenDashboardRequest` is never called, so the event is set and nobody waits for it; the message is what opens the dashboard.
- Windows: a target that has no executable falls back to any window of its class (1031). `autoStart` starts the program at every press until its window
  exists (1036).
- Auto-switch and tray: the active profile is passed over when profiles are compared with the program in front (2313), so that of two
  profiles that name one program the other becomes active at every return. The window is remembered before it is known whether its process
  could be read (2284), and not tried again. The menu's command is a position that is looked up after the menu has closed (3011); profiles
  that were deleted meanwhile take `std::advance` past the end. While the menu is open `ReadLoop` does not run. The tooltip is
  refreshed by switches only.
- Supervisor: a `Run` that cannot terminate its child (746, 757) returns a failure and leaves it running.
- SSE: the cap is tested when the thread starts and applied when it registers (3487): more pages than the cap may be
  served for a while. In the page, `refresh` (`app.js:174`) shows whichever answer arrives last, and a page with unsaved changes
  ignores a revision (`app.js:1633`) and is not told again when it leaves the editor (`app.js:180`).
- Device: an abort sent by a resume (2397) is lost if no read is outstanding; the flag is seen at the next wake-up.
  `ReconnectDevice` keeps the main thread for ten seconds and more while callers wait fifteen. An activated device is appended to
  the patterns (2547), and the first match of the enumeration is opened, which may be another. A reload changes the
  patterns (5400) and not the open device.
- Storage: when `ReplaceFileW` fails or the machine stops half-way, `config.ini` may be missing while its backup is whole; the next start
  then runs on defaults. A short read is taken for the whole file. An edit after a failed read writes over the file.
- Profiles: a target that was cleared is not saved (5671); of an application that two profiles share the last profile's
  target remains; sides of modifiers are widened; the order of mappings, and with it the effect of moving one, is lost in a conversion;
  a deleted profile takes applications with it that the user made (2774). A profile called "basic" replaces the built-in one in `g_profiles`
  (306), lends it its mode at a save and becomes part of it at the next start (`config_domain_bridge.cpp:99`).

## 8. What is left out

- *Between modules.* The two ledgers are in two modules: no action of the code reads both, and a switch or a release performs the two
  releases one after the other. The ledger modules take the device, the dashboard and the window messages as choices, the device loop
  takes the routing as a step that ends.
- *Routing.* The ledger modules take the mapping of a press and its window as a choice, and leave out the capture; KeyMap,
  WindowTargets and Listening have them. The deadlines of repeats (any held key may be due when the timer fires); a timer
  message that arrives after `KillTimer`; a mode that a reload changes. What `!app` and macros type is not told apart.
- *DashOp.* The event of an operation cannot be created; which of the twenty edits an operation is (ProfileStore and KeyMap have them).
- *Supervisor.* Command lines, names of events, handles.
- *CommandQueue.* A completion is named after the thread that gave it; the overflow of the 64-bit id.
- *Live updates.* The texts of events, activity rows, and what refresh draws.
- *HttpServer, RequestChecks.* HttpServer takes the decision of the checks as a choice; what a route answers, and the
  spelling of headers (case, blanks, queries), are left out. A page that is open reaches only the port it came from.
- *Windows.* Upper and lower case, the quoting of command lines, the icons; a macro that names an application by its display name.
- *Mappings.* Names of modifiers, usages above 255, files edited by hand with two mappings of one trigger.
- *Capture and identify.* The 15 s are two ticks; what the user types elsewhere.
- *DeviceLoop.* A read that completes at once, a failing `CreateEvent` for the read, names and probing of interfaces.
- *Storage.* `MigrateLegacyConfigIfNeeded`, which only tests call; creation of directories; temporary files that a crash leaves behind.
- *Profiles.* The order of mappings (KeyMap has it) and the layer modifier, the case of ids, the legacy default profile, a file that does not parse, the
  operations that move a mapping or activate a device (saves without an edit of the domain), an application created
  under an id that exists; names, launch policy and paths of applications, ids, orders and destinations of mappings, and so the demands of
  `validateDomainModel` about them (466, 512-557, 582, 607): of these at least the names of applications may be double. A name that ends in ".keys" or
  ".mappings", whose section the legacy parser takes for another profile's. That the legacy writer leaves out the target of the built-in profile (5597). The name "basic" is given to new profiles in one spelling; "Basic", which the wizard gives (`app.js:1234`), is another runtime name and the same at the next start. The branch of
  `SyncRuntimeToDomain` for a runtime profile that the domain lacks (5655) is unreachable, which `DomainIsSound`, a part of `ProfilesAgree`, says.
- *Not modelled at all:* `action_parser`, whose functions turn characters into tokens that the routing takes as parsed; the driver set-up and
  `probe_device`, one-shot calls of Windows without state of the program's own; the wizard and the layout of the page; the scripts that build and pack.

## 9. Plan

Done, in this order: routing with its theorems; operations of the dashboard; supervisor; runtime state and queue; live updates; HTTP and
shutdown, with its theorem; device loop; storage with its refinement; profiles; single instance, with its theorem; windows, auto-switch and tray;
capture and identify; mappings and layers; request checks.

Next:

1. A module that composes DashOp with ConfigStorage, so that the refinement chain ends at the disk.
2. The grammar of actions at the level of tokens, against a reference definition.

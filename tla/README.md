# KeepMeAlive: TLA+ models and proofs

KeepMeAlive is a Windows utility (C#, WPF) that keeps a machine awake, runs one
scheduled shutdown, restart or sleep, stores its preferences in a file, and can
sign in to a small account service (TypeScript, `backend/`). The repository also
carries the scripts that operate and accept that service, and a set of design
tools (`.agents/skills/design-taste-frontend`). This directory models the parts
whose correctness depends on interleaving, failures, crashes and time.

Paths below are relative to the repository; `Services/`, `ViewModels/` and
`Models/` stand for the directories of that name in `KeepMeAlive/`, `scripts/`
for `backend/scripts`, `tools/` for `.agents/skills/design-taste-frontend`.

## 1. Inventory

| Component | State | Operations | Interacts with |
| --- | --- | --- | --- |
| Scheduler, `Services/ScheduledActionService.cs` | armed schedule, generation, timer, `LastError`, lock | `Schedule`, `Cancel`, `Restore`, `Dispose`, `OnTimer` | settings store (reads and disarms), executor (call), settings editor (event) |
| Engine, `Services/KeepAliveEngine.cs` with `KeepAwakeService`, `WindowsSessionMonitor` | `_running`, `_keepAwake`, the power request | `RunAsync`, `SetKeepAwake` | dashboard (event posted to the UI thread), Windows |
| Dashboard and tray, `ViewModels/DashboardViewModel.cs`, `MainViewModel.cs` | token source, run task, `IsRunning`, toggle, drafts | `Start`, `Stop`, toggle, `ApplySettings`, `DisposeAsync` | engine, settings store, messenger |
| Settings store, `Services/SettingsService.cs`, `AtomicFile.cs` | `settings.json`, `.bak`, `.damaged-*`, `_current`, `_preserveDamagedPrimary` | `Load`, `Save`, `MigrateStorage` | runtime mode, secret store |
| Storage mode, `Services/AppRuntimeModeService.cs` | bootstrap file | get and set the configured mode | settings store, secret store |
| Preference transaction, `ViewModels/SettingsViewModel.cs` | draft | `TrySave` with rollback | settings store, scheduler, startup registration, theme |
| Secrets, `Services/SecretStore.cs` | `session.bin`, `license.bin`, recovery copies, per mode, each with a `.bak` | save, delete, `CopyTo` | authentication, migration |
| Account, `Services/AuthenticationService.cs`, `AccountService.cs`, `ViewModels/AccountViewModel.cs` | access token, saved session, profile, semaphore | sign in, refresh, sign out, update profile | secrets, account service, browser |
| Callback listener, `Services/LoopbackCallbackListener.cs` | port, deadline, outcome | wait for the callback | browser, whoever else connects |
| Host, `ApplicationHost.cs` | mutex, pipe task, startup task | start, activate, synchronise, dispose | everything |
| Account service, `backend/src` | request map, connections of the pool, the database | quota, account, profile | desktop program |
| Account pages, `backend/src/pages.ts` | flags of the page, continuation | consent, login, registration, verification, reset | sign-in provider, service |
| Operation scripts, `scripts/` | remote configuration, three local files, bundles, schema version | configure-auth, configure-smtp, deploy, migrate, build-native-outage | management API, database |
| Acceptance scripts, `scripts/` | grants, sessions and a client they made; the proxy's tunnels | test-oauth, test-browser-oauth, create-native-fixture, native-test-proxy | staging |
| Design tools, `tools/scripts`, `tools/assets` | profiles of Chrome, pending requests, downloads and credits, sheets and histories of draws, labels of charts, reveals | inspect, scenes, assets, draw, charts, base | Chrome, picture sources, the user's project |
| Small parts | none to speak of | startup registration, update check, input strategies, idle monitor, license key | Windows |
| Presentation and tooling | none | views, themes, converters, window placement, diagnostics, installer | none |

What makes each of them correct:

- **Scheduler.** An armed action is not lost and not carried out twice, early,
  too late, or after it was replaced; it is disarmed on disk before it happens.
- **Session.** One run at a time; the power request lives no longer than its
  run; stop reaches the run; window and tray end up telling the truth;
  the exit does not hang.
- **Settings, migration, secrets.** A save is all or nothing over crashes; the
  previous file and damaged files are kept; the location the bootstrap file
  names is complete before it is named; a signed-out session is nowhere.
- **Preference transaction.** All of the draft or nothing of it, whatever fails.
- **Account.** What happens after a sign-out belongs to nobody.
- **Listener.** Whatever connects, the wait ends and frees its port.
- **Host.** One process is the application, and it answers the others.
- **Account service.** A subject gets its quota and no more; no user sees
  another's rows, and no broken transaction goes back to the pool.
- **Scripts.** Stopped or failing anywhere, they leave what the next run can
  repair or says it cannot, and they say "passed" or "verified" only of what they did.
- **Design tools.** No run takes another's folder, no event is missed, every
  picture has its credit, draws keep their word over a history, labels do not
  overlap.

Every hazard found in the code is listed with its line in `PROJECT.json`, with
the properties that cover it or the reason why none does.

## 2. Modules

| Module | What it is |
| --- | --- |
| `OneShotAction` | What a scheduler of one action promises: pending, taken up inside its window, carried out at most once |
| `ScheduledActionService`, `...Proofs` | The scheduler, its timer callbacks, the users of the service, the machine; its safety and its refinement of `OneShotAction`, proved |
| `KeepAliveSession`, `...Proofs` | Engine, power request, session commands, posted statuses, exit; its safety, proved |
| `SettingsFile` | Load and Save of one settings file over crashes and damage; safety proved in `StorageProofs` |
| `StorageMigration` | Settings, sessions, recovery copies and bootstrap file of two locations; safety proved in `StorageProofs` |
| `PreferenceTransaction` | `TrySave` and its rollback, crossed by the scheduler's callback; proved in `DesktopProgramsProofs` |
| `LoopbackCallbackListener` | The wait for the callback of a sign-in; its types proved in `DesktopProgramsProofs` |
| `HostLifetime` | The processes of one Windows session, mutex and pipe; proved in `DesktopProgramsProofs` |
| `AccountSession`, `...Proofs` | Sign-in, refresh, sign-out and profile commands around the gate, token rotation, exit; its safety, proved |
| `RateLimiter`, `AccountService` | The quota of the account service; its routes, transactions and pool around it |
| `AuthPages` | The hosted pages in one browser tab |
| `ConfigureAuth`, `ReleaseScripts`, `NativeOutage` | The scripts that configure, require verified addresses, deploy, migrate, and build the outage rehearsal |
| `NativeTestProxy`, `BrowserAcceptance`, `OAuthAcceptance` | The fault proxy and the two acceptance programs |
| `BrowserProfiles`, `DevToolsClient`, `Inspection`, `ScrollScenes` | Chrome's folders, the DevTools client, the loop of `inspect.mjs`, the scenes and their judge |
| `AssetSearch`, `AssetSources`, `AssetDownloads` | Search, sources and downloads of `assets.mjs` |
| `DirectionDraw`, `DirectionSheet` | What `draw.mjs` deals over a history, and what stands on a sheet |
| `ChartLayout`, `BaseMotion` | Where `charts.js` puts its texts; reveals and header ink of `base.js` |
| `ServiceProgramsProofs` | Proofs about `RateLimiter`, `AccountService` and `AuthPages` |
| `NodeToolsProofs` | Proofs about the scripts and the acceptance programs |
| `DesignToolsProofs` | Proofs about the design tools, and about the types and every step of all programs |
| `MCDesktopPrograms` | Composition of the settings file, migration, preferences, listener and host for TLC |
| `MCNodePrograms` | Composition of everything that Node or a page runs for TLC |
| other `MC...` | The modules TLC is run on |

Operators whose name ends in an underscore and a suffix (`NextDelay_Unclamped`)
are mutants: the definition that follows, with a plausible mistake. Each
property of a passing run is violated when its mutant takes the place of the
original, so each is known to be able to fail.

Several properties are conjunctions of named ones, one name for each thing
that could go wrong: `PowerHeld` is `PowerOnlyInSession`, `AtMostOneLatePulse` and
`ExitReleases`; `CommandsReach` is `NeverRejected`, `StopReachesSession`,
`ToggleFollowed` and `SettledView`; `ServiceSound` is `QuotasKept`, `ServiceKept`
and, of the pages, `ConsentSafe`, themselves conjunctions; `OperationsSafe`,
`AcceptanceSound`, `ToolsSound`, `AssetsSound`, `DesignsSound`, `ChartsSound` and
`StepsSound` name theirs in `MCNodePrograms`. The conjuncts
have their own mutant operators beside the definitions they change, and each was
seen to be violated by one of them.

### ScheduledActionService

`generation`, `isScheduled`, `action`, `dueAt`, `lastError` are the fields of
the class; `timer` is the countdown of `_timer`, `queue` the callbacks that the
pool has not run yet, `callback` and `claim` the callback that holds `_gate`
and its locals, `arming` a `Schedule` call that is past its argument check and
before its lock, `saved` the three fields of `AppSettings` on disk. `now` is the
wall clock. Timers count running time, so `Suspend` moves `now` and not them.

- `Schedule` is two steps because its check of the time (lines 50-54) precedes
  its lock (56). `Cancel`, `Dispose` and the parts of `Restore` are single
  steps that need the lock free. `Restore` after its own `Cancel` is atomic: no
  callback is current then, and the caller is the only UI thread.
- `OnTimer` is `OnTimerStale`, `OnTimerEarly` or `OnTimerClaim`; after a claim
  the callback holds the lock through `PersistFails`, `PersistMissed`,
  `PersistDue`, `Execute` and `ExecuteFails`. Its two readings of the clock
  (136 and 142) are one instant: a suspension between them equals one before.
- `TryPersistDisarmed` takes the settings it will write at the claim and writes
  them later. `SaveSettings`, the save of a view model, needs no lock of the
  scheduler and can fall between.
- `Crash` at any step loses everything but `saved`. Time that the process is
  down passes with `Tick` and `Suspend`.
- `Actions` stands for `ScheduledAction`, `Grace` for the 30 seconds and
  `MaxDelay` for the minute. `Unreadable` is a saved time that does not parse
  or falls in a clock transition.

### KeepAliveSession

Each session has a place in the code (`pc`): the steps of `RunAsync`, then those
of the `finally` of `StartAsync`. Up to its first delay a run is on the UI
thread (`uiCall = "start"`), after it on pool threads, where every step
interleaves with the UI thread and with Windows locking the session. Statuses
are always posted: WPF hands out a new synchronisation context for each
operation, so the comparison in `Dispatch` never holds after the first one.
The dispatcher runs posted callbacks before user input (`TakesInput`).
`Start` is open to the tray as well, which tests only its own flag, because
`AsyncRelayCommand.Execute` does not ask `CanExecute`.
An exception of a command reaches `OnUnhandledException`, which shuts down
(`uiCall = "exiting"`).

`PulseFallsDue` stands for the interval and its jitter: a pulse may fall due at
any time. The end of `StartAsync` is three steps on a pool thread: `DisposeToken`,
`CompareToken` (the `ReferenceEquals` of line 157) and `ForgetToken` (159); a
`Start` between the last two loses its own token source (`overlapped`).

### SettingsFile

`primary`, `backup` and `copies` are the files; a file holds settings that pass
`Validate` (`Values`), contents that do not parse (`Broken`), contents that
parse and do not validate (`OutOfRange`), or does not exist. `Start` is `Load`
from `OnStartup`; `BeginSave` sets a damaged file aside and `Commit`,
`SaveFails` or `Crash` end the save, each with every outcome of `File.Replace`:
untouched, done, or the old file renamed and the new one not. `Damage` spoils
either file at any time and `Start` may find either locked.

### StorageMigration

`configured` is the bootstrap file, `stored` the settings of each location,
`session` and `recovery` its `session.bin` and `migration-recovery.bin`, each a
pair of the file and its `.bak`. A token is a family (one interactive sign-in)
and a serial that a renewal raises. `Migrate`, `CopyReads`, `CopyReplaces`,
`CopyUndoes` and `CommitMove` are `MigrateStorage` with `CopyTo` write by write:
each may fail cleanly, stop half way (`Torn`: the old file renamed, the new one
not) or find the process gone (`Dies`). A session is saved, renewed and deleted
meanwhile, because `SecretStore` is not told of the migration (`raced`). `SignOut`
deletes and redacts every copy it recognises by family; `TryReadProtected` takes a
copy that cannot be read for one that is not there, so any set of copies may be
left without a word (`spared`), and if the active session is among them nobody
knows whose copies to look for. `SignOutFails` is the same stopped after the active
file. Damage to the bootstrap file is left out, but a
bootstrap file that cannot be read back after a commit is not (`unread`).

### PreferenceTransaction

`task` is where `TrySave` or its catch block stands; each call it makes is a step
that succeeds or fails (`SetStartup` before or after it writes). `Fires` and
`Disarms` are the callback of the scheduler on its own thread, which holds the
scheduler (`Schedule` and `Restore` wait for it) and saves what it read before
(`callback.read`). `Schedule` is two steps here as well, `SchedulesDraft` with the
look at the clock and `ArmsDraft` with the lock, and so is the one inside `Restore`
(`RestoresSchedule`, `Rearms`); `late` remembers that a time came between the two.
`agreed` becomes false where the code tells the user that the
recovery failed or the two threads have crossed.

### LoopbackCallbackListener

A wait claims a free port of the list, accepts connections up to a deadline,
reads each, answers, and ends. `visits` says who connects: the browser with the
callback, somebody with another request, a silent or a broken connection. A
silent connection consumes the deadline of the whole wait, a broken one throws:
both end it. The module is checked for its types; what it says of the outcome of a
wait follows from how the wait is written, so no property of it is stated.

### HostLifetime

Each process is at a stage from launch over the mutex to running, closing and
gone; `pipe` is its activation server. A process that does not get the mutex
connects to the pipe of whoever has it, for three seconds, and leaves. A process
may be killed anywhere; the mutex of a killed process is a new one for the next
launch (`createdNew`) unless another process still holds a handle of it, in which
case the launch only asks the dead host and leaves.

### AccountService and RateLimiter

`requests` is the map of `app.ts`; `Request` is the middleware from the verified
token to the handler, during which JavaScript does not yield; `Tick` is
`Date.now()`. A call of `AccountService` goes on to take a connection, begin,
name its user, read or write, and commit; a statement may fail, a connection
break, and a `COMMIT` take effect without an answer. `admitted` is a ghost: per
subject the set of its admissions, each with its instant and a number. The
connection remembers whose
transaction is open on it, which is what must not go back to the pool.

### The other programs of Node and of pages

Each module has the awaits of its program as places, the answers that can come
at each as alternatives, and what remains outside between two runs (remote
resources, local files, folders, histories) as state that a crash keeps.

- `AuthPages`: `pending`, `continuation` and the requests under way; answers in
  any order; a page that leaves runs on until it is replaced.
- `ConfigureAuth`: requests that fail before or after they took effect, and
  `fs.writeFile`, which truncates first, so that a failure or a kill leaves a
  `TornFile`: a torn `neon.json` ends every run at its start until it is put back by
  hand (`RestoreRecord`). The console may change provider and clients at any step;
  `others` remembers what was changed after the run had read or set it, and the
  properties except exactly that.
- `ReleaseScripts`, `NativeOutage`: writes that fail, several operators, kills; the
  console may change the mail settings between the test and the requirement
  (`overtaken`).
- `NativeTestProxy`: a tunnel is two sockets; a destroyed socket tells its
  listeners only later, when the proxy may be on again.
- `BrowserAcceptance`, `OAuthAcceptance`: what was made and must be undone, the
  finally blocks, callbacks that come twice or late. `test-oauth.mjs` takes any
  status from 400 on for a refusal and an error of get-session for a session that
  has ended: `vague` collects what was alive when its check passed, `failed` what
  the cleanup, which swallows its failures, did not undo; `CutShort` is a kill in it.
- `BrowserProfiles`: folders with owner files, runs that sweep, are killed at any
  step, and whose Chrome may outlive them; a claim may fail and leave a damaged
  file. `unnamed` are the runs whose Chrome no readable owner file names. `DevToolsClient`: requests with timers, events,
  a load event ahead of the listener's await, dialogs. `Inspection`: widths,
  pictures, report and exit code, over several runs on one folder: the picture is
  written when the width is measured, listed when it is judged, and `report.json` is
  written last, so a run that is broken off leaves pictures and an older report;
  what is measured is one of a few findings, and
  the merge of the passes is a set, because nothing asks for its order.
  `ScrollScenes`: builds per media, cleanup, throws, and the judge's two visits.
- `AssetSearch`: sources with deadlines, duplicates, checks a few at a time; the
  width that counts in the end is that of the file, unless the source gave that of
  an original of which the file is a rendition (`WidthKnown`). A picture that drops out leaves its place empty; the code closes the gap, which
  changes neither what is shown nor its order.
  `AssetSources`: the second question to Openverse, rows fetched concurrently
  (each answer at the place of its row), the copies of a film.
  `AssetDownloads`: folder, posters, and the credits, for each file its record and
  its place in the list. A clip is chosen a name, fetched, opened, streamed, given a
  poster and credited in steps of their own, between which the user adds and deletes
  files; every write may fail or be cut off, also that of `credits.json`, which is
  then unreadable and counts as empty. `uncovered` are the files of downloads that
  did not end well and those whose credits were torn.
- `DirectionDraw`: sheet and history as two writes, recent looks avoided.
  `DirectionSheet`: slots, blueprints by role, redraws in any order.
- `ChartLayout`: the backtracking of `lane` step by step, an option outside the
  chart being passed over; its sort is stated by counting who comes before. Ticks
  and picks as functions. `BaseMotion`: frames, queued entries, the reader scrolling between;
  `inks` is, frame by frame, the chapters of which an entry tells.

### AccountSession

Four commands of the page and the synchronization at startup are the tasks. A
task is at an await (`pc`): waiting for `_gate` on behalf of one of the three
methods that take it, at the browser, at an exchange with the token endpoint or
the API, or about to change the cache (`forget`) or the page (`apply`). Code
that runs under the gate up to the next await is part of the step that takes the
gate or receives the answer, so `Exchanged` and `Refreshed` write `store`, as
`AcceptTokensAsync` does before it asks the API. `browser` covers the listener and
the exchange of the code. `store` is `session.bin` of the active mode, `access`
and `fresh` are `_accessToken` and `_expiresAt`, `current` the cached profile,
`shown`, `status` and `busy` what the page shows.

- A token is its grant (one interactive sign-in) and its rotation. `server`
  says whose the grant is, its last rotation and whether it is valid.
- `Throws` ends a task at an await: cancelled by the page, by the host or by
  `HttpClient` on a timeout, or failed; `ClearThrows` is a `DeleteSession` that
  fails before or after the file itself is gone. `lost` remembers the grants one
  of whose rotations the desktop never saved: the answer was lost, was
  unusable, could not be written, or the process ended first. A save may also fail
  after it has renamed `session.bin` (`SaveThrows`): nothing is stored then, and the
  access token of the session before is still in memory (`torn`).
- `Quit` cancels every task and blocks the UI thread until they have ended
  (`Closed`); the synchronization gives up its callback to that thread.
- Left out: the metadata and the checks of the callback, a session file that
  does not parse or is another client's, a request that the server carries
  out after the desktop has abandoned it, and the disposal of the
  services while a request is at its timeout.

## 3. Runs

| Run | Checks | Bounds |
| --- | --- | --- |
| `scheduler` | types, `NoLostWakeup`, `DisarmedBeforeExecution`, `NoSilentSkip`, `PromiseKept` | 2 actions, clock 0..4 that may be set back, users stop at generation 3 or 2 executions |
| `scheduler_liveness` | `EventuallyResolved`, `FreshArming` | 1 action, clock 0..4 that is not set back |
| `scheduler_late` | violated: `NeverAfterWindow` | as above |
| `scheduler_twice` | violated: `NeverTwice` | as above |
| `session` | types, `PowerHeld`, `CommandsReach`, `StopStops`, `PowerFollows`, `ExitCompletes` | 2 sessions, 2 posted statuses |
| `settings_file` | types, `Durable`, `FallbackIsPrevious`, `RejectedPreserved`, `StartsDespiteDamage`, `RestartFinds`, `SignedOutGone`, `SavedOrUndone`, `HostKept` | settings: 3 values, 3 faults, any number of saves and crashes; migration: 2 locations, 2 preferences, 2 families of 2 serials, 2 moves; preferences: clock 0..2, 2 saves; listener: 2 ports, backlog 2, 4 visits, 2 waits; host: 3 processes, 5 launches |
| `settings_out_of_range` | violated: `RecoversPrevious` | 3 settings, 3 faults |
| `account` | types, `NoResurrection`, `RotationKept`, `AccessBacked`, `NeverStuck` | 2 accounts, 2 sign-ins, 1 rotation of each, 2 tasks at once, any number of crashes and restarts |
| `account_liveness` | `CommandsEnd`, `ExitCompletes` | 1 account, 1 sign-in, no rotation, 2 tasks at once |
| `account_logout` | violated: `ProfileForgotten` | 1 account, 1 sign-in, no rotation, 2 tasks at once |
| `node_programs` | types, `ServiceSound`, `OperationsSafe`, `AcceptanceSound`, `ToolsSound`, `AssetsSound`, `DesignsSound`, `ChartsSound`, `StepsSound` | two or three of everything that can meet its like (calls, connections, subjects, operators, builds, callbacks, browser runs, tunnels), see `NodePrograms.cfg` |
| `downloads_credited` | violated: `EveryPictureCredited` | 2 pictures, 1 clip, 3 downloads, names taken twice at most |

`settings_file` and `node_programs` are unions: a variable that is chosen in the
initial state and never changes says which part, or which program, runs, and the
others stay where they start. The parts of one union share no state while they
run, so nothing is lost by taking them one at a time, and the union's behaviours
are those of the parts. A property of a union speaks of the part that runs.

Why the bounds are enough. A grace of one instant and timers of two give
schedules that need no, one and several wake-ups, and windows that are hit, just
hit and missed, by running on and by suspending; two executions and three
generations give a stale callback, a replacement of a replacement and a second
execution. Two sessions are what it takes for the end of one to interfere with
the start of the next; two posted statuses let the view be one whole session
behind; the safety of the session is also proved for any number of each. The
bounds on generations and executions stop the users of the scheduler, never the
scheduler itself. A file, a backup and three settings tell the last, the
previous and an older save apart, and a fault happens at most once for each of
the three faulty contents. Two moves between two locations come back to the
first one with what the first move left in it; two families of two serials tell
the session that is signed out from its renewal and from another one. Two saves
of the preferences with a clock of three instants give a schedule that falls due
in the first, in its rollback, between and in the second. Four visits with a
backlog of two and two waits put every kind of connection before and after the
callback and into the next wait. Three processes give a start that is shown by
the first while a third one waits; five launches give each a successor. Two
tasks at once are every pair of tasks of the account, each with any number of
successors; two sign-ins tell a token of an earlier session from a later
session, and one rotation a stale token from the current one. Two windows of two
instants fit in the limiter's clock; with a quota of two and counts to three a
subject is limited while the other one fills the map of one beside it, so that both
refusals, `rate_limited` and `busy`, are reached, and a span takes three requests,
the most that `TwoQuotasPerSpan` allows. Three downloads of a picture and two
clips are a second try over what the first left, with another record of the same
name before, between or after them; the runs on one
folder follow one another. Two runs of the inspector are one that finds the pictures
and the report of another. A picture of a source is wide, narrow or of unknown width,
a rendition or not, and the same one may come from both sources. Two
calls over two connections give a failed transaction whose connection the other
call takes over. The charts have up to three of six notes, which include two
that exclude each other and one that must give way.

Deadlock is looked for in every run but the two unions and `downloads_credited`,
whose programs really are finished after their last run, visit or launch. The
liveness properties say what must not stop in the others.

### Fairness

`FairSpec` of the scheduler: the clock ticks, a due timer is queued, queued
callbacks run to their end, a `Schedule` call past its check gets the lock.
`System.Threading.Timer`, the thread pool and the monitor justify these; nothing
is asked of users, crashes or suspensions. `FairSpec` of the session: each run
goes on, the dispatcher delivers, `Cancel` and the wait of `DisposeAsync`
continue. No user command, lock or pulse has to happen. `FairSpec` of the
account: a task that waits for the network or the dispatcher goes on, because
every request has a timeout (30 seconds, five minutes for the browser); a task
that waits for the gate gets it when it is free again and again, because a
`SemaphoreSlim` serves its waiters in order; the host closes when it can. No
request has to succeed. The unions state safety only.

### What the violated runs show

- `scheduler_late`: `README.md:29` says that missed actions are discarded
  "instead of unexpectedly executing after the PC returns"; a suspension
  between the decision (line 142) and the execution (157) does just that.
- `scheduler_twice`: the time is checked before the lock is taken, so saving a
  schedule again in the second it falls due can carry it out twice.
- `settings_out_of_range`: `InvalidDataException` is not among the exceptions
  `Load` catches, so a file with an interval of 5 keeps the application from
  starting although the backup is good.
- `account_logout`: a refresh that holds an access token reads the profile outside
  the gate; if the answer arrives after the sign-out has cleared the cache, the
  profile of the signed-out account is cached and shown again, although there is
  no session (`IAccountService.cs:19`). The next refresh clears it.
- `downloads_credited`: the list of credits keeps the first entry of a picture and
  drops it when its file is gone, although the same picture is still there under
  another name; `assets.mjs:8` says that every picture is credited.

### Statements of the repository that the code does not keep

The models have these as well. Each is one interleaving or one input, seen when the
exception a property makes for it is taken away; none has a run of its own.

- `DashboardViewModel.cs:272-273` says that `DisposeAsync` "Cancels the session" and
  is "completed after the engine releases its power request". A session started
  while the run before it is between the comparison and the assignment of lines
  157-159 has its token source forgotten: neither Stop nor the exit cancels it, and
  the exit waits for a run that nobody ends (`overlapped` in `StopReachesSession` and
  `ExitCompletes`). A token source that is disposed and not yet forgotten makes
  `DisposeAsync` throw instead, and the idle monitor is not stopped (`ExitReleases`:
  no power request stays).
- `cdp.mjs:40-42` says that a profile left by a killed run is removed only when
  neither its process nor its Chrome is alive. Between the start of Chrome (99) and the
  second claim (101), or when that claim fails, the owner file does not name
  Chrome, and the folder of a run that has ended is swept under a Chrome that lives
  on (`unnamed` in `LiveKeepsProfile`).
- `README.md:39` of the backend says that configure-auth "preserves other resource
  identifiers". One that is registered at the console between the reading
  (`configure-auth.mjs:11`) and the PATCH (16) is taken away (`late` in
  `ResourcesPreserved`).
- `base.js:6` says that content is never left hidden. An element near the end of a
  page or taller than nine views may stay hidden (`InViewIsShown` excepts both).
- `charts.js:64` says that the labels picked fit the width. Those of a clock axis may
  crowd (`PicksFit` is about the others).

### Observations

What the models show or had to make room for, and no document denies.

Desktop program:

- The compare-and-swap in `RunAsync` never refuses anybody as long as posted
  statuses precede input (`NeverRejected`).
- The engine reads the toggle and the lock state at different instants, so a
  toggle and a lock that alternate can keep a request open that neither wants;
  this is why `PowerFollows` speaks of each alone.
- A `settings.json` that is damaged while the program runs becomes the backup at
  the next save, and the good backup is gone.
- An API that answers 401 or 403 to a rotated token makes `AcceptTokensAsync`
  delete the session, and the page says offline with a cached account although
  there is no session to come back with.
- A sign-in that is cancelled while the API checks its token has already saved
  its session, and the page says signed out; the next refresh or start signs the
  account in.
- After a second sign-in whose check with the API was cut off, the access token in
  memory is still the first session's while the stored session is the second's;
  `AccessBacked` says that it goes no further than this, but for a save that fails
  after it has renamed the old file: then no session is stored and the access token
  stays in memory until it expires.
- A session saved between `CopyTo` and the new bootstrap file stays behind in the
  old location (`RestartFinds` excepts it).
- A `session.bin` whose replacement stopped half way leaves only the `.bak`, which
  `ReadProtected` never reads: the user has to sign in again.
- A bootstrap file that cannot be read right after it was committed makes
  `MigrateStorage` report that the original location is retained; the process
  stays there, and the next start uses the new one.
- A sign-out that fails after the active file is gone leaves copies in other
  places; the next sign-out no longer knows whose they are. One that succeeds leaves
  what it could not read (`SecretStore.cs:166-170`), and if it runs between `CopyTo` and
  the new bootstrap file, such a copy may be the session in use afterwards.
- `ApplySettings`, `TrySave` and the scheduler's callback save whole settings
  each: what one of them changed between another's reading and saving is lost.
  Where the callback falls between `Save` and `Schedule` of `TrySave`, the settings
  and the timer may disagree until the next save.
- When `SetStartup` fails in the rollback, `Restore` is not called; the user is
  told. A crash between the save and `SetStartup` leaves a registration that
  disagrees with the settings until the next save.
- A silent or reset connection ahead of the callback ends the sign-in, and a
  failed write of the answer loses a callback that was received.
- A process that waits for the pipe of a killed host keeps its mutex alive, and the
  launches that come meanwhile leave without a host.
- An activation that comes while the first instance shuts down, or finds it
  silent for three seconds, is lost. `_pendingShow` can hardly be set: the window
  exists when the pipe is first served.
- An `UnauthorizedAccessException` of the pipe server would end its task.

Account service and scripts:

- configure-smtp, run again with a provider that fails while verification is
  already required, leaves it required.
- The buttons of the consent page are enabled again in `finally` while the page is
  leaving. Two concurrent configure-auth runs may create two clients. The local files
  are not written atomically: a torn `neon.json` has to be put back by hand, and if
  that is done wrong the next run makes its client the desktop's.
- What is saved at the console between the mail test and the requirement is not
  tested (`overtaken` in `RequiredAfterTest`).
- The browser acceptance answers 200 before it has looked at the answer to its
  revocation; test-oauth ignores the answer to the second user's (line 169), and a run
  of it that passes may have taken an error for a refusal (`vague`).
- Two outage builds at once may mix their bundles; the verified one is kept.

Design tools:

- `seen` is tested before `fits`, so a picture that does not fit hides the same
  picture from a source where it would. Concurrent `--get` runs may lose credits;
  a `credits.json` that was cut short is replaced, and the earlier credits are gone; a
  poster overwrites a file of its name, and a clip one that appeared while it was
  fetched. A download that fails may leave a file without a credit.
- A torn `direction.json` blocks further draws. When a run of the inspector is
  aborted, `report.json` is that of an earlier run and lists pictures that were swept.
- A scene that throws while it is built keeps `is-live` (`scenes.mjs:77` reads that
  as alive). `--redraw hero` keeps the motion of the old hero (`draw.mjs:255`), and
  `--redraw section:<role>` reaches the first section of a repeated role only.
- The last attempt of `lane` takes what it can without looking back. Two films whose
  names begin alike are one film to `assets.mjs:528`. The ink of the header stays that
  of a chapter that was scrolled back over. The sheet repeats a blueprint when those
  of a role run out (`Scarce` in `NoBlueprintTwice`).

## 4. Proofs

The proof modules hold for all values of the constants, under the assumptions
the modules state: that bounds and times are natural numbers, that what stands for
nothing is none of the things, that what is counted is finite
(`TimeAssumption`, `BoundAssumption`, `SessionAssumption`,
`ContentAssumption`, `MigrationAssumption`, `PreferenceAssumption`,
`ListenerAssumption`, `HostAssumption`, `AccountAssumption`, `LimiterAssumption`,
`ServiceAssumption`, `ProxyAssumption`, `ConfigureAssumption`,
`ReleaseAssumption`, `OAuthAssumption`, `InspectAssumption`, `ScenesAssumption`,
`ClientAssumption`, `DownloadAssumption`, `SearchAssumption`,
`SourcesAssumption`, `DrawAssumption`), and what a library, a chart or a page is
made of: the shells a style names are shells of the library (`SheetAssumption`), a
plot has the 70 pixels below which it is not drawn and the powers of ten reach its
values (`ChartAssumption`), the chapters of a page come in order, the first at its
top (`MotionAssumption`). TLC evaluates each of them on the
instances. Every argument has the same shape: an inductive invariant, a lemma
that it holds at the start, one that every step keeps it, and theorems that draw
the checked properties from it.

**Scheduler.** `IInv` adds to the checked invariants: while a callback holds a
claim nothing is armed (`ArmedAlone`), every armed schedule is awaited by a
timer or a queued callback of its generation (`Awaited`), a schedule carried
out was due by then (`PastDue`, while the clock is not set back), and a claim
was taken in its window (`ClaimInTime`). None of the checked properties is
inductive by itself: that a callback may execute depends on what was true when
it claimed. From `IInv` follow `TypeCorrect`, `WakeupNeverLost`,
`ExecutionDisarmed`, `SkipReported`, `CarriedOutStaysPast` and `Refinement`, the
last one by mapping each action to one of `OneShotAction` or to a stutter.

**Session.** The checked properties of `PowerHeld` and `CommandsReach` are not inductive:
that a stale view never starts a second session depends on what is still posted.
`SessionInv` says that the session started last is the only one that can be active,
its task the one `DisposeAsync` waits for and its token source, unless it was started
while another was about to be forgotten, the one that is held (`OneActive`),
that the power request and the toggle belong to it (`PowerInv`), that a late pulse
was allowed before the lock (`PulseInv`), that until the exit the end of a session
is the last status posted and the views follow it (`ViewInv`: the tray's flag, or
what will be its flag once everything is delivered, is on as long as a session
is active), and that every finished session was announced or its announcement is
on the way (`CountInv`, a cardinality). `NothingRuns` is the heart: whoever may
start, nothing is active. From it `SessionTypeCorrect`, `PowerIsHeld` and
`CommandsReachSession` follow for any number of sessions and any lag.

**Settings.** `IInv` says how memory and disk are related: a file that is valid
is what is in memory (`MemoryMatches`), in an undamaged world memory is exactly
what a restart would load (`CleanMemory`), the file that may have to be set
aside is still there (`SavingAlone`), and what was passed over is set aside or
in place (`PassedOverKept`). `Durable` needs all of it, because whether a save
is durable depends on what the load before it made of the files. From it follow
`TypeCorrect`, `Durability`, `BackupKept`, `Preservation` and `StartsAnyway`. `Durability`
also justifies `saved` in `ScheduledActionService`, one variable that a save
changes at once or not at all.

**Account.** `CoreInv` adds three facts to the checked properties: a task at an
await under the gate is the one that holds it (`GateExclusive`), whoever is
about to replace the session or has just done so works with the session that is
stored (`HeldStored`), and every token in use was issued (`Issued`). The first two
carry the weight: `NoResurrection` alone says nothing of a refresh that is under
way, which is harmless only because a sign-out cannot get the gate meanwhile.
Each step of a task is a `TaskOutcome`, which says what the step may do to the
gate, the store and its token; `TaskStep` shows once that such a step preserves
the invariant, and the lemmas on the actions show that each is one. `IdleWhenDown`
is what a new process needs. From `IInv` follow `TypeCorrect`, `SignOutIsFinal`,
`RotationIsKept`, `AccessIsBacked`, `PageNeverStuck` and `MutualExclusion`, for any
number of accounts, sign-ins, rotations and tasks at once.

**Migration.** `MigrationInv` says that the settings and the session of the
location in use are the last ones (`SettingsFollow`, `SessionFollows`), that the
location a move is about to name has them by the time it is named, that a family that
was signed out is in no file, backup or copy and in nothing that a copy in progress
has read, unless some copy could not be read at the sign-out (`GoneNowhere`), and that
even then it is neither in use nor about to be, unless a move overtook the sign-out
(`StaysOut`: a move copies the location in use, where a sign-out leaves nothing). From it
follow `MigrationTypeCorrect`, `MovedDataIsFound` and `SignedOutIsGone`.

**Preferences.** `PreferenceInv` says how far `TrySave` (`DraftDone`) or its rollback
(`OriginalBack`) has come, that between two calls the system is as the settings
say (`Settled`), and that what is armed was not carried out before, unless its time
came between the check of `Schedule` and its lock (`ArmedAhead`).
From it follows `AllSavedOrUndone`.

**Host.** `HostInv` says which stages hold the mutex (`MutexHeld`) and that the pipe
of a running process is served (`PipeServed`); `HostTypeCorrect` and `HostIsKept`
follow. `DesktopTypeCorrect` is the type invariant of the four desktop parts beside
the settings file in their union; that of the listener is part of it.

**Account service.** `QuotasKept` counts requests in spans of time, and what a
span holds depends on windows that are over. `LimiterInv` says what every subject
has had (`WindowsKnown`): with an open window, what its slot counts since the
window opened and at most one quota within a window's length before; without
one, at most one quota in the last window and nothing at this instant. The
admissions are numbered, so that the spans are finite sets and their sizes add
up (`Numbered`). `ServiceInv` adds the calls: the connections in the pool are
clean and no connection has two holders (`PoolKnown`), how far a transaction
has come tells what its connection carries (`TransactionsKnown`), and an update is
durable exactly if its user was told so or its answer was lost (`CallsKnown`).
`PagesInv` says that a consent page has verified its client only once the metadata
came, and that nothing begins where the link was ambiguous. From them follow
`QuotasAreKept`, `LimitedOnlyIfSpent`, `ServiceIsKept`, `ServiceIsSound`,
`ProfileIsShown` and `ContinuationIsKept`; `ServiceImplementsLimiter` says that
the service with its calls implements the limiter alone.

**Scripts.** `ScriptsInv` is one invariant per program. `ProxyInv`: a tunnel that
is not counted is cut, on both sides. `ConfigureInv`: what the run has done so far
is done at the provider and in the files, except what `others` says was changed at
the console since, and a client was made once, unless it was made there.
`ReleaseInv`: who is past the test has a working provider, unless the console
overtook the run, a deployment waited for is there, and only the holder of the
advisory lock is between `BEGIN` and `COMMIT`. `OutageInv`: a build past the check has a verified
bundle to go back to and fills the file alone. `BrowserInv`: one callback is in hand
at a time. `OAuthInv`: what a step obtained is noted before the next request, and
of what was asked about, what is alive is in `vague`, through the 34 steps. From it follow
`OperationsAreSafe`, `AcceptanceIsSound`, and of steps `ConfigurationIsKept`,
`MailIsTested` and `RecoveryIsKept`.

**Design tools.** `ToolsInv` again is one invariant per tool. `ProfilesInv` ties the
owner file to the step of the launch, and `unnamed` to the two; `InspectInv` ties the
pictures in the folder to the widths measured, those listed to the widths judged, and
the report to the run that wrote it; `ClientInv` says that one navigation
was asked for and nothing happened before; `ScenesInv` what each visit has seen.
`DownloadInv` says that every file is credited or in `uncovered` (`Covered`), that
after a torn `credits.json` all are in it (`Unreadable`), and that the clip in progress
holds its name from the opening on (`HoldsClip`); `SearchInv` says that the results of
all sources are usable, have different keys and were seen by a check if they have one
(`FilesSeen`); `SourcesInv` that the rows are distinct and each answer is about its own,
and that the first copy kept of a film is the best one. `DrawInv` says that what was redrawn away is avoided
and that the options are distinct and out of what is left; `OptionsSuffice`
needs a pigeonhole lemma. `SheetInv` says how each section came to its slot;
`MotionInv` that what is no longer observed was shown and that the chapters under
the header are known, the last ink being the lowest while the reader has not
scrolled back. From it follow `ToolsAreSound`, `AssetsAreSound`, `DesignsAreSound`
and, with the steps of the service and the scripts, `StepsAreSound`.

**Charts.** `ChartInv` says of the search in `lane` that the labels laid so far are
clear of each other and of what was there (`LaidClear`), each at a place it may
have, and that nothing was missed (`NothingMissed`): a choice of places that has
room for all labels comes after the one tried now, in the order of the search,
unless the search was cut. That is what makes a dropped label mean something, and
it is inductive where the checked property, which speaks of the end of the search,
is not. Ticks, picks and heads are arithmetic: products of variables (a
grid line times a step) get lemmas of their own. From it follows `ChartsAreSound`.

**Types.** `ProgramsTypeCorrect` takes what `TypesInv` adds to the invariants above:
the length of the history of looks, the slots and screens of a
sheet, the elements and chapters of a page. The rest of each module's types is in
its own invariant.

Each module of a union is proved about its own next-state relation; `ServiceOrPages`,
`Scripts` and `Tools` say once that a step of `ProgramsNext` is a step of one
program and leaves the others alone, and the theorems about `ProgramsSpec` use
that. Facts about all lists or numbers (the first picture of a kind, the best
copy, the distinct options) are proved through a least counterexample
(`LeastNumber`), because the induction theorems of the library cannot be used.

Only model-checked:

- the liveness properties (`EventuallyResolved`, `StopStops`, `PowerFollows`,
  `ExitCompletes`, `CommandsEnd`): the prover has no fairness reasoning to offer;
- the violated runs, which are counterexamples.

## 5. Not modelled

- `tools/scripts/lib/probe.mjs`, `rules.mjs` and the lint: measurements and
  judgements of one rendered page, each a formula over geometry and colours
  without state or order. Parts of other tools that are of that kind (ranking and
  formats of `assets.mjs`, its `--no-check` and its cap per title, drawing and
  measuring of `charts.js`, the contents of the library that `draw.mjs` deals from,
  the film of `inspect.mjs`) are left out of the modules that model the rest.
- Themes, views, converters, window placement, diagnostics, packaging and the
  installer: presentation and build tooling.
- The license key (reads and writes without decisions; it moves as the session
  does), the idle monitor (a timer that publishes a number), the input strategies
  (native calls in a row), the update check (one request and a comparison).
- Startup registration only as a step that may fail; which commands an
  installation owns is a comparison of strings.
- Cryptography, the checks of tokens and of callback parameters, the isolation of
  transactions (PostgreSQL's), rendering.
- A sign-out that waits for the gate and is cancelled by the exit
  (`AuthenticationService.cs:110`): the session is there at the next start, and
  nothing in the repository says which of the two should win.

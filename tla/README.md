# ps5upload: specification and proofs

TLA+ models of the parts of ps5upload where several tasks, requests, tabs or
machines share state, the TLC runs that check them on small instances, and
TLAPS proofs of what matters most for instances of every size.

## The system

ps5upload has three programs. The **client** (TypeScript, `client/`) is a desktop
app or a web UI. It talks HTTP to the **engine** (Rust, `engine/`), which does the
work and talks AVA1 over TCP to the **helper** (C, `payload/`) on the console.

| part | state | operations | what makes it hard |
|---|---|---|---|
| engine queue (`queue_api.rs`) | a list of items, a driver per console, holds, a file | add, pause, resume, remove, move, hold, release; drive, run, follow, finish; save; restart | a driver's awaits against requests, saves that overtake each other, crashes, dropped requests, drivers that end early |
| busy count, helper stop (`helper_stop.rs`) | jobs per console | enter, drop, stop | a stop between two jobs |
| queue leader (`queueLeader.ts`) | a lease in localStorage, one claim per tab | claim, heartbeat, storage event, relinquish | tabs between each other's read and write, throttled timers, restored and killed pages |
| app upload queue (`uploadQueue.ts`) | rows, run scope and drain loops per console, a saved queue | add, start, stop, pause, send now, cancel, retry, move; run, recover, install; save, reload | calls of the person between a loop's awaits, late answers of a stopped loop, jobs that outlive the page |
| turn taking (`engineQueue.ts`) | the app's hold of a console | ask, renew, retake, release | a renewal after a release, a hold that lapses unnoticed |
| AVA1 sessions (`pool.rs`, `mgmt.rs`) | idle sessions, a gate per console | check out, return, call, retry | a session that died while idle, a retry of what was done |
| transfers (`upload.rs`, `download.rs`, `seq.rs`, `c2c.rs`) | sequence numbers, what the console has | send, acknowledge, resume | reconnects, resume by `tx_id` |
| install (`install/`) | one install per console | start, follow, stop | losing track of an install the console goes on with |
| event bus (`event_bus.rs`) | a ring of events | publish, subscribe | a subscriber that lags |
| mesh documents (`meshCrdt.ts`, `meshShare.ts`, `mesh.c`) | a stamped map per device, a document per console | change, sync, compare and swap | changes during a sync, merges in any order, wall clocks that differ |
| take-over (`takeover*.c`, `ava1_stop.c`) | the old and the new helper | flag, stop, bind | both alive at once |
| console jobs (`fs_jobs.c`, `mgmt_fs.c`) | a job table | start, poll, cancel | slots, late polls |

Formats (pkg, PFS, UFS2, archives), screens, translations, the site and scripts
are data or presentation and stay out. `third_party/ava1` is a submodule whose
source is not in the tree.

The client, the engine and the console's document store meet in three places,
and a module stands for each. `TurnTaking` is the client and the engine's queue
on one console. `UploadQueue` is the client with the engine's jobs. `MeshShare` is
several clients with several consoles.

## Modules

| module | models |
|---|---|
| `EngineQueue` | `queue_api.rs`, with `helper_stop.rs`'s busy count as an obstacle |
| `ConsoleTurns` | what `EngineQueue` promises others who use a console, as a specification |
| `QueueLeader` | `queueLeader.ts`, and how the store in `uploadQueue.ts` follows it |
| `UploadQueue` | `uploadQueue.ts` for one console, with `queueOps.ts`, `uploadRecovery.ts` and `uploadLeftovers.ts` |
| `TurnTaking` | `engineQueue.ts`, with `ConsoleTurns` as the engine |
| `MeshCrdt` | `meshCrdt.ts`: stamps, clocks, merge |
| `MeshShare` | `meshShare.ts`, with the documents of `mesh.c` |
| `MCEngineQueue`, `MCQueueLeader`, `MCUploadQueue`, `MCMeshShare` | the values of constants for TLC |
| `EngineQueueProofs`, `EngineQueueSaves`, `EngineQueueTurns`, `QueueLeaderProofs`, `TurnTakingProofs`, `MeshMapProofs`, `MeshShareProofs` | theorems |

Operators whose comment starts with "Mutant:" are the definition after them with
a plausible bug. No specification uses them. Each property of a passing run is
shown to fail when one of them takes the place of the definition.

### EngineQueue

The state is `Book` (`line`, `status`, `intent`, `kept`, `holds`, `waitingFor`,
`drivers`, `settled`), the file (`disk`, `generation`, `pending`), and what the
tasks in flight remember: `drv` for each console's driver, `req` for each request.
`job` is the job an item's route started and `obstacles` is what else uses the
console; both belong to the rest of the engine. `mayRun` is a history variable:
the items someone added or resumed since their route was last called.

An action is one stretch of code between two points where another task can run.
`next_step` is three of them, since it awaits the probe and the console's task
list: `LookAtLine`, `Probe`, `StartHead`. `run_item` and `follow` are `CallRoute`,
`RouteAnswers`, `Follow` and `Poll`. A handler is its section under the lock
(`AddItem`, `PauseItem`, `ResumeItem`, `RemoveItem`, `MoveItem`), the snapshot of
its save (`RequestSaves`) and the rest (`Answer`). `CancelItem`, `Hold` and
`Release` have no await. `finish`, with its hold of later items and its prune, is
one step, as in the code.

Abstractions:

- An item is an id with its console, its kind up to what the queue tells apart
  (installs, kinds that resume, others), `stop_on_failure`, and whether it has a
  secret. Labels, URLs, progress and messages are left out.
- An id that left the list keeps its place in `line` with the status `gone` and
  every operator skips it. Ids are used once (uuid v4).
- `generation` counts the saves since the one in the file, and a snapshot in
  flight carries the same difference; 0 is one that was overtaken.
  `write_snapshot` only compares generations, so the difference is all it uses.
  The state space is finite without a bound on saves. A write that fails leaves
  the difference in place, so `MaxBehind` bounds how far failing writes get.
- Time is three facts: a console's settle time has passed or not, a hold lasts or
  has lapsed, a tick may come at any moment.
- `HasFile` is `Inner.path`: the engine runs without a data folder too. Runs that
  are not about saving use that, and have far fewer states.

Faults are switched on by `Faults`. `crash` ends the process at any point and
starts it from the file. `drop` is the HTTP server dropping the handler of a
client that has gone, at the await of its save. `panic` ends a driver early, which
`DriverEnd` handles. `write` makes a save fail.

### QueueLeader

A tab reads the lease (`Heartbeat` or `OnStorage`), writes it (`Write`), sleeps
(`settle`) and reads it back (`ReadBack`). Read and write are two steps, since
tabs are processes and localStorage is not locked. `relinquish` is two steps for
the same reason (`PageHide`, `Remove`). `Conclude` is `set` with what its
`onChange` makes the store do; `runs` is the store's `isLeader` once loaded.

The clock ticks. `Stalls` lets a tick come while a tab has an event to handle or a
write to do. `Throttled` lets it come while a settle is due, as browsers do with
hidden tabs. Heartbeats may be late in every run. `BackForward` lets a left page
be restored, and `StorageFails` lets `setItem` throw.

### ConsoleTurns

Two variables per console: the item of the queue that runs there and who holds it.
An item starts only on a console that is free and not held, and a hold is given
only while nothing of the queue runs. `EngineQueue` implements it with the mapping
`at` = the running items, `held` = the holds that have not lapsed.

### TurnTaking

A run of the app's queue (`holdConsoleFromEngineQueue`) asks until it is granted
(`Begin`, `Asked`, `AskAgain`), renews by a timer and on progress (`Renew`,
`Renewed`), takes the hold again before a job if it may have lapsed (`Retake`,
`Retaken`, `RetakeAgain`), and gives it back (`GivesBack`). `current` is
`held.get(host)`, the record the page finds for a console, which may be another
run's. Requests are a set: they overtake each other, take up to `MaxDelay` ticks,
and a release can be lost. The engine's side is `ConsoleTurns` plus the time left
of each hold. A tick is half a minute. `TTL` = 5 is `HOLD_TTL_S`, `RenewBy` = 2 the
one minute after which a browser fires a hidden tab's timer at the latest, and
`MaxDelay` = 1 the half minute within which a request or its answer arrives.
The client waits longer, 60 s (`ENGINE_TIMEOUT_MS`, `engineFetch.ts` 7). With
`MaxDelay` = 2, `RenewBy + 2 * MaxDelay < TTL` is false. So for a hidden tab
and answers that take the whole limit nothing is claimed.

`late` remembers that a timer was later than that, or that a request failed.
Renewals then may not save the hold, and an ask that failed counts as granted.
`NeverTogether` is about behaviours without it, `ConsoleComesFree` and `TurnComes`
about all.

An item of the engine's queue may start whenever `next_step` lets it: the console
is free and not held. The pause of 3 s after an item is far below a tick and is
left out. `engineQueue.ts` 15 says that `ASK_AGAIN_MS` (2 s) is "Shorter than the
engine's pause between items, so the app gets in between two of them". Nothing
guarantees it on a hidden tab, whose timers fire once a minute, or when the ask
takes more than a second. `TurnComes` therefore says that a run gets its turn once
the engine's queue starts nothing more on the console.

### UploadQueue

JavaScript runs to completion, so an action is the code between two awaits. The
page is the record `q`: rows, order (`line`), rows sent now (`sent`), the live loop
(`live`), its scope, the pending restart, the running job, the install in flight.
The store's functions are operators from such a record to the next (`StartHost`,
`StopHost`, `SettleSendNow`, `PauseRunning`, ...), so that a handler that calls
three of them is one action. `loop` has the drain loops. A loop is dead once
`q.live` is another (`hostGen`); it goes on to its next check, as in the code.

| loop's `pc` | the await it is at |
|---|---|
| `enter`, `waitInstall`, `retake`, `settle` | hold, install in flight, retake, pause between items |
| `prep`, `lookup`, `ask`, `asked`, `poll` | write lock and folders, `liveJobFor`, the start request before and after the engine has it, the job's state |
| `mount`, `backoff` | mount after an image, the delay of a recovery |
| `turn`, `turnWait`, `install`, `installing` | the install turn, the install |

Abstractions: an error is known by whether `isAutoRecoverable` takes it for one a
re-send can fix, and whether the bytes were committed. A row's kind is what
decides the steps after its upload. Paths, sizes, speeds and messages are left
out. A number of polls is one poll. The engine's job is `running`, `ending` (told
to stop), `done` or `failed`, and after `lostCancel` a job the page has cancelled
still runs. The saved queue is `doc`, written some time after `scheduleSave`;
`Reload` starts the page from it. `budget` bounds what the person does and what
goes wrong, together, at `MaxEvents`. `asked` is a history variable for installs.

### MeshCrdt and MeshShare

A map has a register per key: a value and a stamp (time, counter, device). `Later`
is `cmpHlc`, `Moved` is `Clock.now`, `Observed` is `Clock.observe`. A device's `view`
is what it shows, `copy` its map. `StampLocal` finds what differs and stamps it.
A sync is `Get`, `Attempt` (stamp, `AdoptBaseline`, `Merge`, apply, save: one
callback) and `Put`, which writes only if the revision is the one read, and up to
four attempts. Settings are keys with a value; a console in the list has a key for
being listed and one for its name. A console is added with the name that was typed
or the default one; `stampLocal` gives either the lowest stamp. `Converges` is about
every key except one with first values of two devices and no change (`Contested`).

## Runs

| run | instance | shows |
|---|---|---|
| `QueueTurns` | 2 items, a holder, all obstacles, moves to the front, crashes, drops, panics, no file | the queue implements `ConsoleTurns`; what starts is the first queued item; a running item is followed and is its console's only one; no stop request outlives its run |
| `QueueRestart` | 2 items, one with a secret, a file, crashes | nothing runs again by itself or without its secret; nothing queued lacks a driver; an interrupted item holds the rest |
| `QueueDisk` | 1 item with a secret, 2 requests, a file, every fault | saves that overtake each other leave the newest list; no item waits without its secret |
| `QueueLive` | 2 items, fair tasks | queued items move if jobs end; pauses and cancels are carried out though jobs need not end; the finished items are bounded |
| `LeaderOne` | 3 tabs, late timers, restored pages | two tabs never lead |
| `LeaderLive` | 2 tabs, stalls, failing writes | two runners do not stay two; the queue does not stay without a runner |
| `TurnTaking` | 2 runs, 1 engine item, late timers, lost releases, missing answers | the two queues are never on the console together; the app lets go; a run that waits gets its turn once the engine's queue is done there |
| `UploadRuns` | an image and a file, 2 loops, 3 jobs, 4 events of 9 operations and 3 faults | no row runs without a runner; every transfer can be stopped; no row is transferred twice at once; Send now gives back |
| `UploadInstalls` | a package and an install, saves and reloads, 4 events of 6 operations and 3 faults | no install begins unasked; none is left running with nobody to follow it |
| `UploadLive` | 2 files, failing jobs, lost contact, 3 events of 8 operations and 2 faults | a started queue drains |
| `MeshShare` | 2 devices, 2 consoles, a setting, a list entry, 2 changes or clock moves, lost puts | a stamp is one change; no value nobody set; no sync undoes a change; the devices agree in the end, on all but first values of two devices |
| `UploadLateLoop` | 1 file, Start and Stop, 2 loops | fails: see below |

`TurnTaking` and `MeshShare` check for deadlock. In the other runs the system may
rest: an empty queue, a closed browser.

Bounds. Two items of one console are enough for one to be ahead of the other, and
one finished item kept makes the second one prune. Two requests let one driver's
and two handlers' saves overtake each other. The engine runs have one console: the
consoles' lines share only the file and the limits, and the theorems hold for any
number. Three tabs are a leader, a claimer and one that gets between them. Two
app runs are a stopped one and the one after it. Two loops are the same in
`UploadQueue`: a call that needs a third is not taken there (`NoRoom`). Three jobs
are one ending, one running and one starting. Four events reach a Stop and a
Start around a Send now, or a Cancel, a Retry and a reload around an install.
`MaxRecover` is 1, so a recovery happens, fails and is used up. Two devices and two
consoles are enough for one document to be behind the other.

### Where code and text disagree

`UploadLateLoop` ends with a counterexample. A loop is stopped while it waits for
the write lock. The next run starts the row's transfer. The stopped loop gets the
lock, finds that job as the row's earlier one, adopts it, sees that it is dead, and
cancels the transfer under the new run (`uploadQueue.ts` 1447, 1567). The comment at
918 says that a loop "bails between awaits once the host's live generation moves
on".

These are reproduced by changing one constant or property of a run:

| change | fails | what it shows |
|---|---|---|
| `QueueRestart`, `"drop"` in `Faults` | `NoLostWakeup` | an add or resume whose client leaves during the save leaves a queued item without a driver |
| `QueueRestart`, `"panic"` in `Faults` | `FailureHoldsTheRest` (and `NoLostWakeup`) | a driver that ends early does not hold what is behind a `stop_on_failure` item; a restart does |
| `QueueTurns`, check `StartsOnFreeConsole` | itself | a job that starts during the probe does not keep the item from starting |
| `LeaderLive`, `BackForward = TRUE` | `ExtraRunnersStop` | a page that is restored after another tab took over goes on running the queue |
| `LeaderLive`, `Throttled = TRUE` | `SomeoneRuns` | two tabs whose settle outlasts the lease overwrite each other's claim for ever |
| `UploadInstalls`, `"earlyReload"` in `Faults` | `InstallsOnlyWhenAsked` | a reload before the debounced save finds a package uploading, and it uploads and installs again ("Saved now", `uploadQueue.ts` 1632) |
| `MeshShare`, check `AllConverges` | itself | two devices add one console under different names and put them on two consoles. The names have the lowest stamp (`meshShare.ts` 130), so each device takes the name of the console it syncs with, for ever (`adoptBaseline`, 269). `meshShare.ts` 18 says that "the copies on every device and console converge" |
| the same with `Before <- SetUp`, `Values = {v1, v2}`, `Entries = {}`, `MaxEvents = 0` | itself | the same for two set-ups from before sharing |

Limits of the code that show in the models, and that no property claims otherwise:

- Resume does not look at `MAX_WAITING`, which only add enforces. A save that fails
  is only logged, so when it is the one that says running, a crash makes the item
  run twice. A restart prunes nothing.
- A renewal that was sent counts as a good hold before it is answered, and an error
  as a grant (`engineQueue.ts`). Both matter only with timers or answers that are
  late. A recovery attempt starts its job without a retake.
- Without the id saved, a reload on the desktop starts a second transfer beside the
  first. `NoTwinJobs` is checked without reloads.
- A row that failed after lost contact may have a job that still runs. Removing the
  row leaves the job out of reach. `JobsAreReachable` is checked without lost contact.
- A reload can fail the install that was sent now without giving back what it
  paused. `SentNowGivesBack` is checked without reloads.
- A row removed between its pick and its start is transferred all the same.
- Removing a console from the list and adding it again stamps its default name as a
  change (`meshShare.ts` 131).

### Fairness

`EngineFairness` is weak fairness of each driver, each accepted request, the
writer and the settle clock: tokio runs every task that is ready, and each of
these stays ready until it runs. Clients, obstacles and faults have none.
`LiveSpec` adds that a job the driver has cancelled ends. `QueuedItemsMove` says of
itself that it assumes every job ends, a console that in the end is free and not
held, and a list that clients have stopped changing: a client that adds ahead of
an item for ever keeps it waiting, by design.

In `QueueLeader` each tab's tasks and timers are weakly fair. The clock is
strongly fair, which says that a tab does finitely many things in a tick. `Calm`
says that in the end tasks are handled in time, writes succeed, and tabs do not get
between each other's read and write, which last microseconds.

In `TurnTaking` time passes, requests arrive, a run takes its next step, a timer
fires at last and an item of the engine's queue ends. A job of the app need not end
while its run is live, and nobody need start an item.

In `UploadQueue` timers fire, requests are answered or time out, and jobs and
installs end, as each has a limit in the code or in the engine. The person and the
faults owe nothing.

In `MeshShare` a sync ends, every device syncs with every console again and again,
and from some point on no put is lost. The app syncs every minute with the console
in use. A device that never meets a console another device uses has no way to agree
with it.

## Proofs

`EngineQueueProofs`, `EngineQueueSaves` and `EngineQueueTurns` prove every safety
property the engine's runs check, for every set of items, consoles, requests and
holders, and every limit. These hold under every combination of faults:

- `TypeCorrect`: `Spec => []TypeOK`.
- `OneAtATime`: `Spec => []RunningIsFollowed`. A running item is the one its
  console's driver follows, so a console has at most one.
- `InOrder`: `Spec => StartsInOrder`.
- `TakeTurns`: `Spec => []HoldExcludesRunning`.
- `ImplementsTurns`: `Spec => TakesTurns`, the refinement of `ConsoleTurns`.
- `StopsEndWithTheRun`: `Spec => []IntentOnlyWhileRunning`.
- `SecretsAreThere`: `Spec => []SecretIsThere`.
- `FileIsCurrent`: `Spec => []FileMatchesBook`.

These need that some faults do not happen; with each of them TLC refutes the property:

| theorem | proves | without the faults | because |
|---|---|---|---|
| `NoWakeupIsLost` | `[]NoLostWakeup` | `drop`, `panic` | a handler that is dropped after its change and before its kick, or a driver that ends by itself, leaves its line to the next request |
| `NeverByItself` | `[]NeverRunsAgainByItself` | `write` | a file that could not be written still says queued when the engine starts again |
| `FailureHolds` | `FailureHoldsTheRest` | `write`, `panic` | the run's end is not in the file, or no `finish` sees it |
| `FinishedStayBounded` | `[]FinishedBound` | `crash`, `panic` | a run that a restart or the end of a driver finishes is not pruned until the next `finish` |

They assume `QueueAssumption`: the constants have their types, and a request is
not a console. `RunningIsFollowed` is not inductive. It needs that a driver
exists only where `drivers` says so (`DriversRegistered`), or a kick would replace
a driver that follows an item, and that a driver at an item has one
(`DriverHasItem`), which the types need too. `DriverInv` is the three together.
The proof has a lemma per group of actions. `NothingStarts`, `OneDriver` and
`SameItem` say once what most actions do to the invariant: nothing, a change of
one driver, a driver that moves on with its item. The refinement uses that
invariant and `HoldExcludesRunning`; each action is a step of `ConsoleTurns` or
leaves `at` and `held` alone.

The theorems about items rest on one lemma, `ItemSteps`: a step starts an item, ends
one, puts one back in line, is a handler's change, ends a driver, is a restart, or
changes no item. What each of them does to an item is stated once, before the
invariants that use it.

- `ItemInv` adds the converse of `RunningIsFollowed` (`FollowedRuns`), so a stop is
  taken away by the driver that ends the very run it was asked of.
- `NoLostWakeup` is inductive with `DriverInv`. A driver gives up its console in the
  same step in which it finds nothing queued there, and a handler queues an item in
  the step after which it owes a kick.
- `FileInv`: snapshots are numbered no higher than the last one taken, and when no
  change still waits for its snapshot, the newest one says what the book does, be it
  in the file or on its way. A write that finds a newer one in the file is dropped,
  so the order in which writes land does not matter.
- `RunsInv` follows an item from the save that says running to its end: a driver
  about to call a route awaits that save or it has landed (`CallIsSaved`), and until
  the run's end every snapshot that can still replace the file says running
  (`CalledIsSaved`).
- `LimitInv` adds that every item of the list has a place in `line` (`InLine`), which
  `finish` and `Place` keep. `PruneBound` is the lemma about `Prune`: of a console's
  finished items it keeps the last `MaxFinished` in line.

`QueueLeaderProofs`, for any number of tabs and any times:

- `LeaderTypeCorrect`: `Spec => []TypeOK`.
- `OneTabLeads`: `Spec => []OneLeader`, when `~Stalls` and `~StorageFails`. Late
  timers, restored and killed pages are allowed.

`OneLeader` needs three facts. Only open pages lead (`LeaderIsOpen`). A leader
that has not the lease has an event to handle (`LoserIsTold`). Once part of its
settle has passed, a tab that still has the lease has no leader beside it
(`SettledAlone`): the tick found every event handled. That is where the settle is
needed, and why one tick of it is enough.

`TurnTakingProofs`, for any number of runs and items and any times with
`RenewBy + 2 * MaxDelay < TTL`:

- `TurnTypes`: `Spec => []TypeOK`.
- `QueuesTakeTurns`: `Spec => []NeverTogether`.

The invariant `IInv` says that a run that works has its hold with time left
(`Kept`). Either the hold was renewed lately, by what the run's own `age` says, or
a renewal sent in time is on its way (`TimeLeft`). That a grant on its way back has
not lapsed is `Granted`. The rest (`Shape`) keeps stopped runs out: a release is
only of a run that is over, and a request other than a retake is for its sender.

`MeshMapProofs`, for any maps: `MergeIdempotent`, `MergeAssociates`, and
`MergeCommutes` where equal stamps carry equal values. `MeshShareProofs`, for any
devices, consoles, settings and list entries, and wall clocks that move as they
like (`pruneTombstones` aside, see Not modelled):

- `UniqueStamps`: `Spec => []StampsAreUnique`, which is what `MergeCommutes` needs.
- `ChangesAreKept`: `Spec => NothingIsUndone`.
- `NoGhosts`: `Spec => []NoGhostChange`.

For the first two the invariant adds that a device's clock is past every stamp in its copy
(`ClocksPast`), that a device's own stamps are nowhere without its clock being past
them (`Owned`), and that a sync holds what the device's copy and the document
already keep (`SyncsHold`). For the third, `GhostInv`: a device's copy tells what the
device has (`Tells`), and no map lists a console without a name (`Named`), or
`rosterFrom` would make one up that the next look takes for a change. That needs of
`MeshAssumption` that the keys of settings and consoles differ, that no value is the
mark of a removal, and that a device's set-up before sharing is one `localView` can
return (`IsView`).

Only model-checked: the liveness properties (fairness and `ENABLED` are beyond the
prover) and all of `UploadQueue`. The prover cannot do induction over data
or use `RECURSIVE` operators, so the modules have none.

## Not modelled

- `EngineQueue`: reading and parsing of `engine-queue.json` (a file that cannot be
  read is an empty queue), the read-only handlers.
- `UploadQueue`: `retryInstallViaUpload`, the joining of equal installs in
  `enqueueInstall`, `start()`'s further passes over the consoles, rest mode after
  the last upload, the register of game folders, the links of a folder that are
  dropped on load. The hand-over of the queue to another tab: a tab that loses the
  lease stops its consoles, which is `StopConsole`, and one that gets it loads the
  saved queue, which is `Reload`. Several consoles: they share only the saved queue.
- `TurnTaking`: a restart of the engine, which forgets holds until they are renewed.
- `MeshShare`: `pruneTombstones` (`meshShare.ts` 288), which drops removals that are
  a year old by the device's own clock. A device whose clock is set a year ahead
  drops fresh ones, so what is shown of removals is for clocks less than a year
  apart. The documents of 8.0.0; backups. The mesh's locks, announcements and presence.
- Clocks that are set back, in `QueueLeader`.
- AVA1 sessions, transfers, their resume and acknowledgements: they are built on the
  frame codec of `third_party/ava1`, whose source is not in the tree.
- The install path's own steps, the event bus, console jobs, the take-over of a
  helper. Formats and presentation as named above.

## Running

    tlc -config QueueTurns.cfg MCEngineQueue
    tlc -config LeaderOne.cfg MCQueueLeader
    tlc -config UploadRuns.cfg MCUploadQueue
    tlc -config TurnTaking.cfg TurnTaking
    tlc -config MeshShare.cfg MCMeshShare
    tlapm --threads 2 EngineQueueProofs.tla

The proofs of a module take from one to fifteen minutes.

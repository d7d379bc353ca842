# Verification of Lyra Downloads

TLA+ models of the parts of Lyra Downloads that decide *what is downloaded, by
whom, how often and where to*, the TLC runs that check them on small instances
and TLAPS proofs of what matters most. The code is under `src/`; below, `S:n` is
line n of `crates/lyra-downloads-backend/src/service.rs`.

Run a model with `tlc -workers 2 -config X.cfg M` and a proof module with
`tlapm M.tla`.

## 1. The system

A GTK/WebKit interface, a Firefox extension (not in this repository) with its
native messaging host, and a command line all talk to one **backend** process
over a Unix socket. The backend owns an SQLite database and one **aria2c**, which
it starts, supervises and drives over JSON-RPC.

| component | state | operations | what is hard |
|---|---|---|---|
| download service (`backend/service.rs`) | rows, engine handle, `needs_reconcile`, restart history, failure count | 20 operations of the protocol, a 1 s tick, hash jobs | one mutex serialises operations and ticks, aria2 evolves meanwhile; every call may time out before or after it took effect; hashing runs without the mutex; a crash between any two writes |
| repository (`core/db.rs`, `task.rs`) | tasks, request keys, revocations, settings | single statements, two transactions | a failed statement after the engine was told |
| names (`core/sanitize.rs`, `core/lib.rs`) | none (reads the folder) | sanitize, number, reserve | other programs and Firefox use the same folder |
| aria2 client and process (`aria2/*.rs`) | child, port, pid file | RPCs; spawn, reap, shutdown | pid reuse, slow exits, ports, a backend that dies while starting |
| IPC client (`ipc/client.rs`), server (`backend/lib.rs`, `server.rs`) | lock, socket, connections | connect or spawn, request; lock, bind, serve, stop | several clients start backends at once; shutdown races; no retry of a change |
| native host (`nativehost/*.rs`) with the extension | handoff per request key | handoff, cancel_handoff | lost, late and overtaking messages; two programs may transfer the same download |
| window (`gtk/src/launch.rs`, `main.rs`, `ui/js/main.js`) | requests seen, the page's sheets and snapshot, the drag under way | launches, "New download", dragging a row, quit | launches race the page's start; a sheet is submitted address by address while it is edited; a drag is several calls on a list that changes |
| probe, notifications, error texts, paths, translations, packaging | — | — | not modelled: no state that outlives a call, or data only |

`PROJECT.json` lists every component with its status and every hazard with its line.

## 2. Modules

```
Aria2Engine <- DownloadService <- MCDownloadService, DownloadServiceProofs
               HeldDownloads (on DownloadService; run ServiceLive)
               AgreementProofs (on DownloadServiceProofs and HeldDownloads)
EngineSupervisor               <- EngineSupervisorProofs
BackendLifecycle               <- BackendLifecycleProofs
HandoffOwner <- Handoff        <- HandoffProofs      (Handoff implements HandoffOwner)
Window                         <- WindowProofs
QueueOrder                     <- MCQueueOrder, QueueOrderProofs
FileName <- Destination        <- MCDestination, DestinationProofs
```

**Aria2Engine, DownloadService.** A download is named by its GID, `<<t, 0>>` being
the deterministic one of task `t` (`core/lib.rs:93`) and `<<t, n>>` one that aria2
chose. `dl` is what aria2 knows, `session` what its session file holds, `row` the
database, `revoked` the revoked keys, `confirmed` the handoffs whose browser was
told that nothing runs. An operation holds the mutex from beginning to end and is
one action, including every engine call it makes and the final save; `Call` gives
each RPC its outcomes (ok, refused, lost, applied but unanswered) and `Persist`
each write its own (saved, refused, the backend dies). `resume_all` is a step per
task. The tick is a step per list call (`TellActive`, `TellWaiting`,
`TellStopped`), then one per row (`SyncTask`, split into the cases of S:963-1104), and
`pc` says where the holder of the mutex is. aria2 moves between any two steps
(`EngineMoves`). The first tick runs before the socket is bound (`pc = "boot"`).
The service's restart limiter is `Ensured`, which may start the engine or not.

What one step of this module folds together: the death of the backend is a choice at
each save and between any two steps, not between two RPCs of one handler (S:218 and S:222 of
`submit`) nor between the insertion of a new row and its first `addUri` when calls do not
fail (S:361); what a death there leaves, a row without its download, is what `Add` leaves
without an engine and, outside the passing runs, `Submit` when a call is lost. `PauseAll` (S:729) and `Shutdown` (S:828-831) make their RPC and
write their rows at once. `PauseAll` leaves any part of the rows unwritten when the backend dies;
`Shutdown` has no death of its own, `BackendDies` comes before or after it. The limiter's
refusal (S:122) is one of the failures of `SpawnFails`; `EngineSupervisor` has it exactly.

**HeldDownloads** is DownloadService with an auxiliary variable no action reads, `held`:
with automatic resume off, the tasks the last start of aria2c found in the rows and that
the user has not resumed or retried since (`AskedFor`). What it promises, `HeldAfterRestart`,
speaks of all the ticks after a start, not only of the one that reconciles.

**EngineSupervisor** opens `Ensured` up: restart history and window, failure count,
pid file, reaping, ports, readiness and shutdown, each wait a step of its own, with
processes that exit, hang, end slowly, and pids that other programs reuse. Time is
counted in ages of restarts (`Elapse`).

**BackendLifecycle** is a backend process from taking the lock to its exit
(`life`), the lock, the socket path, and a client's call from `connect_or_spawn`
to the reply or error (`call`). A process in `closing`, `closed` or `exiting` still
serves connections it has accepted: aborting the accept loop does not end them.

**Handoff** is the message exchange of `docs/PROTOCOL.md` section 3: the extension
(external) sends `handoff`, once again after a timeout, then `cancel_handoff`. Each
message may sit in a host of its own for any time, which includes the one FIFO
port of a running extension. The part of `add` and `cancel_by_request_key` that goes by
the request key is copied action by action; what the engine does is reduced to
"transfers or not". `UserResumes` is the way back from a transfer that had ended: the user pauses
before the tick has read it (S:393 ignores aria2's refusal, the row becomes `pausado`), then resumes,
and `submit` drops the result and adds the download anew (S:427-440, S:216-222). **HandoffOwner** is the promise: one owner per download, and two
copies only when the user restarted a revoked task. `OneCopy` follows from it and is proved,
so no run checks it.

**FileName, Destination.** `FileName` has `sanitize_filename` and the numbering as
operators on sequences of characters (a few letters, a two-byte one, separators,
controls, space, dot). `Destination` is one folder: which task owns which name,
which files and control files exist and who wrote to them, Firefox's hold on the
name of a handed-over download, and acts of other programs.

**QueueOrder** is the order of the queue in its three places: `pos` and `born`
(`queue_position` and `created_at` of the rows), aria2's own `queue`, and the list
the page has when a row is dropped. `move_task` saves the new order, then carries it
over with one `changePosition` per download (`Mirror`), between which aria2 starts,
ends and halts downloads; a drag is a loop of single moves (`DragMove`). Submissions
and calls of the mirror may be lost. GIDs, pause reasons and the races of the tick
belong to DownloadService and are folded into one action each here (`Tick`); a task that ended
goes to its end also on a reconciling tick, which in the code first holds a queued one (S:1016-1021)
and lets the next tick read its end.

**Window** is the way of a browser's request to its sheet and of the sheet's
addresses to tasks: every `send_download` starts a process (`argv`), which becomes
the window or hands its arguments over (`FirstLaunch`, `SecondLaunch`, both through
`Pending::accept`); the page listens some time later. A submission is a loop with one
`add_download` per address (`AddOne`); editing enables the button again, so two
loops of one sheet may be under way. The service is the map `task` from keys to addresses.

Left out everywhere: progress figures, messages, wording, credentials. A connection
profile is not state yet.

## 3. Runs

Two workers; every run finishes within five minutes.

| run | states | bounds | shows |
|---|---|---|---|
| `ServiceSlow` | 2.3 M | 1 task, 2 fresh GIDs, 1 crash, slow halts | finished stays finished (`SettledIsFinal`), no checksum is skipped (`ChecksumBeforeDone`); never two transfers of a task (`OneTransfer`), nothing settled runs (`SettledStopped`), a confirmed cancellation holds (`ConfirmedStopped`) |
| `ServiceQuiet` | 2.5 M | 2 tasks on one slot, 1 crash | rows name what runs (`RunningIsMapped`), what is shown as paused is (`PausedStopped`), the user's pauses survive every tick and restart (`UserPauseKept`) |
| `ServiceLive` | 0.4 M | 1 task, 2 fresh GIDs, 3 jobs, 1 crash, fairness (`HeldLiveSpec`: `LiveSpec` with `held`) | `VerificationEnds`, `SystemPauseLifted`, `AcceptedIsSubmitted`; and with automatic resume off what a start of the engine found waits for the user (`HeldAfterRestart`) |
| `EngineSupervisor` | 0.18 M | 2 pids, 4 faults, the code's limits (3 restarts, 3 failures, 3 ports), window 2 | `OneEngine`, `RestartBudget`, `OnlyOursKilled`, `EngineReturns` |
| `BackendLifecycle` | 20 k | 2 backends, 2 clients, 3 faults | `Reachable`, `ExecutedOnce`, `CallsServed`, `CallEnds` |
| `Handoff` | 11 k | 1 key, 6 messages | `OneTask`, `HandedStays`, `HandoffEnds`, and `OwnerSpec`, the refinement |
| `Destination` | 0.33 M | 2 tasks, 4 raw names, 3 acts of others | `OwnPath`, `EveryFileDeletable`, `CleanupSparesOwn`; and `NamesAreClean`, an assumption TLC evaluates |
| `QueueOrder` | 2.6 M | 3 tasks, 1 slot, 3 operations, drags or engine restarts, lost calls | a move does to the rows what was asked (`MoveAsAsked`), what the mirror placed keeps their order in aria2 (`MoveIsMirrored`), a drag lands where it was dropped (`DragLands`) |
| `Window` | 0.27 M | 2 requests, 4 sends, lists of up to 2, 2 submissions at a time | `OneSheet`, `OneTaskEach`, `AcceptedIsShown` |
| `PollRaces`, `SlowPause`, `LostReply` | — | as above | violations, section 5 |

*Why the bounds suffice.* Tasks of the service share only the engine's slots, the
tick and the settings, so two tasks on one slot show every interplay, and one task
the rest. One fresh GID is what a second submission needs, two what a third does.
One crash of either process is enough to cut any sequence of writes at any point;
a second one meets the same states, because a restart forgets everything but rows
and session. In `BackendLifecycle` a call starts one backend at most; two of each give
the start race, a shutdown, and a successor. Keys of the handoff share only the
mutex. Six messages are two rounds of handoff, retry and cancel. In `Destination`
the second task, Firefox and the other programs are the three kinds of rival
a name has. In `QueueOrder` three rows are the fewest in which a move past one
neighbour differs from a move to an end and a drag takes two steps, and three acts are a
drag, something that comes between, and what it spoils. In `Window` two requests meet in
one window, a second send of each is a repetition, and of the sheets one is enough to
be worked with (`Used`), as sheets share no key. `NamesAreClean` evaluates all 1 555 raw names of up to four
characters with limits of one to three.

*Deadlock* is checked for `EngineSupervisor`, `BackendLifecycle` and `QueueOrder`. The others
say `CHECK_DEADLOCK FALSE`: with the UUIDs, messages or acts of the bound used up
and nothing left to settle, the modelled part rightly stops.

*Fairness.* `ServiceLive`: tokio's mutex is FIFO and the ticker fires every second,
so the tick gets its turn however many operations arrive (SF), as does a hash job;
a holder that waits for nothing goes on, and a call returns or times out after
10 s (WF); a dead backend is started by the next client (WF). The properties are
conditional on `WithinBound`, the behaviours that do not use up GIDs or jobs.
`EngineSupervisor`: the tick and a fork (SF: a free pid turns up again and again),
the waits, and processes that start or were told to end (WF). `BackendLifecycle`:
processes and client threads are scheduled (WF); nobody need call, quit or crash.
`Handoff`: only the extension's timers and its reading of answers (WF); the user,
the hosts and the engine owe nothing. `Window`: the page's start goes on and a call it
waits for returns or times out (WF of `Listen`, `TakeLaunchRequest`, `OpenSheet`).

## 4. How far the guarantees reach

The parameters of the environment show which assumption each property needs.
Each line was established by changing one parameter of the run and re-running it.

| parameter | breaks |
|---|---|
| `SlowHalt` (aria2 stops some time after it answered) | `PausedStopped`, `UserPauseKept`: `change_connections` un-pauses a download that is still stopping (S:692), and the tick follows a status from before the pause |
| `PollRaces` (a download changes lists during a tick) | `OneTransfer`, `RunningIsMapped`, `SettledStopped`, `PausedStopped`, `ConfirmedStopped` |
| lost calls or answers (`RpcFaults`), refused statements (`DbFaults`) | the same five, `UserPauseKept` and `HeldAfterRestart`: the reconciling tick fails to submit or to save a held task, and the next one runs it |
| `ReadFails` (a tick cannot read the rows) | `HeldAfterRestart`: `needs_reconcile` was taken before (S:932), so the next tick runs what should be held; section 5 |
| `SpawnFails` | `ConfirmedStopped`: a crash inside `add`, then an engine that cannot be started, leave a row without GID while the old aria2c still runs |
| `Faults` of `EngineSupervisor`: an exit slower than the wait, a backend that dies before the pid file is written, a pid file that cannot be written | each breaks `OneEngine` |
| `EngineForgets` (aria2 dies, or moves the download between its lists, between the end of a transfer and the tick that reads it) | only `HandedStays`: "completed" was answered from the engine and the row was not saved |
| `ListFails` (`reserved_paths` falls back to nothing, S:184) | `OwnPath` |
| `Intruders` (others create files under names of unfinished tasks) | `OwnPath`: aria2 runs with `--continue` |
| `SameList` off (the user edits the list between two submissions) | `OneTaskEach`: the keys are positions in the list, so an edited list meets the tasks of the first one |
| `MaxNameLen` as short as the names | `EveryFileDeletable`: names are numbered after they were cut, and `delete_file` refuses a name that would be cut again |

`TypeOK`, `SettledIsFinal` and `ChecksumBeforeDone` of the service are
proved, and so hold with all of its faults on at once; `HeldAfterRestart` keeps with `PollRaces`, `SpawnFails`
or `SlowHalt` (TLC, one task, one of them at a time); the properties that relate rows and
transfers are proved for an engine and a database without the faults that break them
(`Reliable`, section 6), with deaths of both processes at any time; `ReadFails` (the rows cannot be
read) is on in `ServiceSlow`.

`HandedStays` has an exception, `revived`: the user has started again a task that the browser
had revoked. A retry does that, and so does a resume after a pause that came when aria2 had
finished and no tick had read it (`UserResumes`): if a second `cancel_handoff` was
answered "completed" in between, Firefox has given its copy up, and the first one, still under way,
then cancels the running task, which `docs/PROTOCOL.md:47-49` does not foresee. Without the exception
TLC finds this in 13 states.

Hazards no property covers:

* `change_connections` un-pauses what the user has just paused (S:692), and gives up after
  5 s on a download that is slow to stop, which stays `pausado` by the system until a restart.
* `resume`, `retry` and `resume_all` that have to restart the engine set
  `needs_reconcile`; with automatic resume off the next tick pauses what they started (S:1016).
* The pid file is written after the engine answered (`process.rs:145`): a backend that
  dies in between leaves an engine nobody reaps; it is one of the `Faults` above.
* `resume` and `retry` keep `queue_position` while aria2 appends (S:519): the row shown
  first may start last. The order in which a tick resubmits is that of the rows (S:965).
* Preferences are merged into the settings the page had before the call
  (`main.js:537`): of two quick changes the second sends the first one's old value.
* A row dropped on a task that has left the queue goes to the top, and a second drag may
  interleave with the calls of the first (`main.js:314`); `DragLands` excludes both (`calm`).
* A download that halts during the mirror joins the front of aria2's queue and shifts what
  was placed; `MoveIsMirrored` starts afresh there (`Halt`).
* A request that arrives before the page listens is remembered as seen and lost
  (`main.rs:33`, `missed`), so that its repetition is refused as well.
* The name Firefox uses is reserved only while its own download is added (S:335):
  `docs/FIREFOX.md:58` promises more, and a later download may get the path.
* Addresses of a sheet that was opened by hand have no key: pressing the button again
  after a failure adds the ones that succeeded a second time.

Two more observations: `acquire_instance_lock` says the lock is kept while
the backend lives, but it is dropped when `run` returns, and tasks of the runtime may
still execute an operation then (`exiting`); and `health` is answered by a service
that has already shut down, although `connect_ready` takes it for readiness.

## 5. Where the code and its documents disagree

* **PollRaces** (S:843): three list calls are not one; a download promoted from
  waiting to active between the first two is on none, the tick submits it again.
* **SlowPause** (S:1029): a tick sees a download that is still stopping as active
  and turns the user's pause into a running task.
* **LostReply** (S:480): addUri was applied and its answer lost; the row has no GID
  and `cancel_by_request_key` confirms a cancellation that did not reach aria2.


One more has no run of its own; `ServiceLive` with `ReadFails = TRUE` shows it, in a dozen states:

* **A failed read** (S:932-945): a tick takes `needs_reconcile` before it reads the rows. If
  `list_tasks` fails the tick returns, and the next one (S:983) takes a queued task the engine
  does not know for one to run: it is submitted although automatic resume is off, where
  `docs/ARCHITECTURE.md:55-58` has the preference decide. `HeldAfterRestart` is violated.

## 6. Proofs

tlapm checks the theorems below for every value of the constants that satisfies the
modules' assumptions.

| theorem | statement | argument |
|---|---|---|
| `TypeCorrect` (DownloadServiceProofs) | `Spec => []TypeOK` | `TypeOK` is inductive. One lemma per operation and per case of the tick, on top of lemmas about what `Call`, `AddUri`, `Submit`, `ResumeInEngine` and `Ensured` return and about `Persist` |
| `SettledStaysFinal` (DownloadServiceProofs) | `Spec => SettledIsFinal` | one lemma per handler compares the state of every row before and after it (`Law`). The one handler that acts on rows read earlier is `resume_all`; `ResumingPaused`, that the tasks it has not reached are still paused, is the invariant it needs, and holds because `resume_all` keeps the mutex |
| `ChecksumsChecked` (DownloadServiceProofs) | `Spec => ChecksumBeforeDone` | the same `Law`: only `VerificationDone` concludes a task with a checksum, and only if its row is `verificando` when the result arrives |
| `ReconcilingStartsNothing` (DownloadServiceProofs) | `Spec => ReconcileStartsNothing`, of the reconciling tick only | every conversation of that tick is *quiet*: a download that runs after it ran before. The invariant `ReconcilingTick` (`reconcile` is set only during the sync of a tick) rules the other operations out; that a resubmitted download enters paused (`ShouldRun`) and that nothing is released (`WantsRun`) is the core. It needs no hypothesis |
| `RowsAndEngineAgree` (AgreementProofs) | `Reliable => (Spec => []Agreement)` | the inductive invariant of the seven below; see "Rows and transfers" |
| `NeverTwice` | `Reliable => (Spec => []OneTransfer)` | `OneRuns`, one of the parts of `Agrees`: of the downloads of a task at most one may still be transferred |
| `RowsReachDownloads` | `Reliable => (Spec => []RunningIsMapped)` | `Matched`: what runs for a task is at most the download its row names |
| `SettledRunNothing` | `Reliable => (Spec => []SettledStopped)` | `Matched`: and nothing unless the row is queued, running or paused |
| `RevokedStaysStopped` | `Reliable /\ ~SpawnFails => (Spec => []ConfirmedStopped)` | `Revocation`: the key of a confirmed handoff stays revoked, its task is absent or cancelled, and nothing runs for it |
| `PausedRunNothing` | `Reliable /\ ~SlowHalt => (Spec => []PausedStopped)` | `Matched` and `Prompt`: if aria2 stops at once no download is caught stopping, so neither aria2 nor `change_connections` starts what was paused |
| `UserPauseRespected` | `Reliable /\ ~SlowHalt => (Spec => UserPauseKept)` | `Late`: no status that is still to be dealt with says that a paused task runs, because pause and tick hold the same mutex |
| `HeldStayHeld` | `Reliable /\ ~ReadFails => (HeldSpec => []HeldAfterRestart)` | `HeldInv`: a held task rests in aria2 and in what the tick has collected, and while its row is in the queue the reconciling that will pause it is still to come (`Awaits`); so `submit` gets it as paused. `Agreement` says that other tasks' conversations leave its downloads alone and that a tick begins with nothing collected |
| `SupervisorTypeCorrect` | `Spec => []TypeOK` | inductive; the history is a sequence, so the lemma is that dropping a prefix and ageing keep it one |
| `RestartsBounded` | `Spec => []RestartBudget` | `RestartBudget` speaks of a history variable. The invariant says that the history is a suffix of the limiter's own list whenever nothing is being started: forgetting an entry that still counts is what would break it |
| `OneEngineOnly` | `Faults = {} => (Spec => []OneEngine)` | every living aria2c is *known*: it is the handle, the child being started or stopped, or the process named by the pid file, and the place of the supervisor says which of these may differ |
| `ForeignSpared` | `Spec => OnlyOursKilled` | a step that ends a process has found it to be this application's |
| `LifecycleTypeCorrect` (BackendLifecycleProofs) | `Spec => []TypeOK` | inductive, in parts: where each process and call is, the counters, and that a shutdown was asked for only where one is on its way |
| `PathServes` | `Spec => []Reachable` | `LockIsHeld`: whoever has bound the path and not yet unlinked it holds the lock, so one process's unlink never follows its successor's bind |
| `ChangesExecutedOnce` | `Spec => []ExecutedOnce` | `OnceInv` ties the count of executions to the place of the call: a call that may still execute has not been executed, and one that knows its answer has been, once |
| `HealthyServesAll` | `Spec => []CallsServed` | `CalmInv`: while nothing was shut down, crashed or expired, once a process was started one holds the lock or is about to take it, and every connection leads to a process that serves |
| `HandoffTypeCorrect` (HandoffProofs) | `Spec => []TypeOK` | inductive, on lemmas about `Ask` and `Respond` |
| `KeyMakesOneTask` | `Spec => []OneTask` | `KeyInv`: the count of a key is 0 exactly while its task is "none", and nothing returns to "none" |
| `HandedDownloadsStay` | `~EngineForgets => (Spec => HandedStays)` | `HandedInv`, up to a restart by the user (`revived`): until the extension asks for a cancellation none is under way, an "accepted" is never taken for the answer to one, and after "completed" the key is revoked and its task beyond cancelling |
| `HandoffImplementsOwner` | `Spec => OwnerSpec` | each step about one key changes the mapping at that key only (`Same`, `MapsLocally`); `KeyInv` shows that a key the browser kept is revoked or was never seen, so Lyra does not start it. |
| `NoSecondCopy` | `Spec => []OneCopy` | from `KeyInv`: a key the browser kept is revoked, and its task is not active unless the user revived it |
| `OwnerHasOneCopy` | `Spec => []OneCopy`, of the promise itself | while nobody or Lyra owns a download Firefox has no copy; with `HandoffImplementsOwner` it holds of every implementation |
| `WindowTypeCorrect` (WindowProofs) | `Spec => []TypeOK` | inductive; a submission stays within its list |
| `SheetOpensOnce` | `Spec => []OneSheet` | `Once`: an accepted request is at one place of its way to a sheet, and `seen` until the window is closed |
| `AddressesMakeOneTask` | `SameList => (Spec => []OneTaskEach)` | `Kept`: all submissions are of one list, the tasks under its keys are those of that list at their places, and a submission without a failure has added what it has passed. That the tasks and their addresses are equally many follows from the injectivity of the list |
| `QueueTyped` (QueueOrderProofs) | `Spec => []TypeOK` | the three orders are lines (no task twice); sorting by position and age is one, by counting predecessors |
| `MirrorKeepsOrder` | `Spec => []MoveIsMirrored` | `MirrorOK`: the download that the mirror placed as number `i` is among the first `i` of aria2's queue, whatever starts, ends or is lost between two calls; so the next call cannot jump over one that was placed |
| `DropLands` | `Spec => []DragLands` | `Ahead`: the target of an undisturbed drag stands as many rows away as moves are left; each `MoveStep` brings it one nearer |
| `MovesAsAsked` | `Spec => MoveAsAsked` | the list sorted by the positions `move_task` wrote is the list it wrote, since an order without ties has one sorting (`SortedInOrder`, `OneOrder`, by counting predecessors: no induction) |
| `DestinationTyped` (DestinationProofs) | `Numerals /\ ~ListFails => (Spec => []TypeOK)` | `Shaped` (which no fault breaks) and `Apart`: names differ, so one task's end does not remove another's control file |
| `PathsAreOwn` | `Numerals /\ ~ListFails /\ ~Intruders => (Spec => []OwnPath)` | `ResolvedFree`: of one more number than there are taken names one is free, because different numbers make different names (pigeonhole); then `Owns` is inductive with `Apart` |
| `CleanupSpares` | `Numerals /\ NamesKept => (Spec => CleanupSparesOwn)` | `Spared`: while Firefox holds its name, the task has another one and has written nothing under that; it needs neither of the other two hypotheses |
| `FilesDeletable` | `Numerals => (Spec => [](NamesFit => EveryFileDeletable))` | `NamesClean`: every name is clean (one component of visible characters, no space or dot at either end). `TwiceSanitized`: the second pass makes it so wherever the limit cut the first; `NumberedClean`: a number keeps it so; `CleanFits`: a clean name that fits is its own sanitized form |

**Rows and transfers.** `Reliable` says that calls are answered, aria2 keeps still between
the lists of one tick, and SQLite takes every statement; both processes may die at
any time, aria2c may fail to start, and a pause may take its time. `Agreement` is `TypeOK`,
what the engine's part is worth (`EngineSound`) and `Agrees(t)` for every task. The
promises are about rows and downloads, but a tick acts on statuses it collected some
steps earlier, so the invariant also says what those are worth: `Polled` while the
lists come in, `Late(t)` until the tick has dealt with `t`. A report is late in one
direction only: on its own aria2 can end a download, but not take up one that has
stopped. `StepSound` proves
the engine's half; one `...Agrees` lemma per action proves the other, for the task
the action is about (`Actor`) and for all others (`Bystander`).

Each hypothesis is needed: with TLC and one fault at a time, `PollRaces`, `DbFaults` and a
lost call or answer each violate `OneTransfer`, `SettledStopped`, `ConfirmedStopped` and
`RunningIsMapped`; `SpawnFails` violates `ConfirmedStopped` only, `SlowHalt` only `PausedStopped` and
`UserPauseKept` (section 4). `ReadFails`, `DbFaults` and lost calls or answers violate `HeldAfterRestart`. `DbFaults` and lost calls or answers violate `UserPauseKept` too, `PollRaces` does not.

**Assumptions about operators.** `Numerals` says that TLC's `ToString`, which has no
definition to reason from, gives every number a numeral of its own, which sanitizing
does not change; TLC evaluates it for the 9 999 numbers `build_task` tries. `NamesKept` says that no name is cut where
sanitizing it again would cut more; TLC evaluates it for the run's names.

`NamesFit` says that no name is longer than `MaxNameLen` characters. It holds in every state
of the run `Destination`, whose limit leaves room for the numbers; where it does not,
`EveryFileDeletable` can fail (section 4). How many bytes a name has is a fold over its
characters, about which nothing is assumed or proved: the argument needs only that the
cut goes by characters.

Only model-checked: the bound that `NamesAreClean` gives for its inputs (every raw name of up
to four characters, every limit up to three; that the result is clean, is `TwiceSanitized`),
and everything about liveness (`VerificationEnds`, `SystemPauseLifted`, `AcceptedIsSubmitted`,
`EngineReturns`, `CallEnds`, `HandoffEnds`, `AcceptedIsShown`). Every invariant and every
safety property of the passing runs is proved, under the hypotheses named above.

## 7. Plan

1. Settings that change while downloads run (`set_settings`), and connection profiles.
2. The rest of the interface: the poll of the page and the calls of its rows.
3. `UserPauseRespected` with `PollRaces`, the one of the faults with which TLC finds no
   violation of `UserPauseKept`; its invariant cannot be `Agreement`, which that fault breaks.

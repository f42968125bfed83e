# repl-mcp: specifications, model checks and proofs

repl-mcp is an MCP server, written in Rust, that gives an agent persistent
Python sessions. Each session owns a Python worker process; code in the worker
can call the tools of configured downstream MCP servers through the *broker*,
and exchange files with the client through the *artifact store*. This directory
holds TLA+ models of the parts of the server whose correctness depends on
interleavings, failures and limits, the TLC instances that check them and the
TLAPS proofs of every invariant and action property those instances check. Paths below are paths of the
repository (`native/src/…` is the Rust crate, `src/repl_mcp/…` the Python side).

## 1. Inventory

| Component | State it keeps | Operations | Modelled in |
|---|---|---|---|
| Session supervisor, `native/src/supervisor.rs` | `busy`, `active`, `closed`, the worker slot behind a mutex, `generation`, 64 finished runs, the background task | run/start a cell, poll, cancel, reset, inspect, close | `Supervisor`, `CellLane` |
| Effect journal, `native/src/broker.rs` (CallRecord, writer, `set_journal`) | records in memory and in the file, numbers of the requested and the completed write, the error of the last write | enter, persist, answer, drop, write a snapshot, recover | `Journal` |
| Artifact store, `native/src/artifacts.rs` | sessions, runs, artifacts, unfinished uploads, two permit pools | import, begin/append/commit/abort, delete, read, save, forward, register and remove owners | `Artifacts` |
| Worker RPC tasks, `native/src/supervisor.rs:401-521` | up to 64 pending broker calls of one worker with their abort handles | authorise, spawn, finish, `rpc_cancel`, abort all at the end of a run | `RpcLink` |
| Worker frame writer, `supervisor.rs:255-320` | a queue of frames for the worker's stdin | accept, write, fail | `RpcLink` |
| Broker transports, `broker.rs` (session, refresh, invalidate, shutdown) | connection slots by server, failures with a 60 s cooldown, the registry, caches | connect, share, retire, call, refresh, invalidate, shut down | `Transports` |
| Session manager, `native/src/sessions.rs` | up to 32 sessions, one broker per project, permits of opens | open, close, shut down | `Sessions` |
| Worker guardian, `native/src/guardian.rs` and the launch, `terminate` and `Drop` of a worker in `supervisor.rs` | the owned child, the detached groups it has reported, a stop token and a watcher thread | launch, proxy, register, sweep, end | `Guardian` |
| Python worker, `src/repl_mcp/native_worker.py` | pending RPC futures, executor jobs, the namespace | run a cell, interrupt, RPC, artifacts | the protocol in `RpcLink`, detached processes in `Guardian` |
| Tool server, `native/src/server.rs`, `main.rs` | none of its own | routing of MCP tools | as the environment of `Supervisor` and `Sessions` |
| Configuration registry, OAuth, byte transports | files, a credential file, buffers | parsing, grants, framing | not modelled (section 12) |
| Legacy Python 2.x server | – | – | not modelled: regression fixtures, README.md:51 |

**How they interact.** A tool call arrives in the tool server, which finds the
session in the session manager and awaits a method of its supervisor. The
handler's future can be dropped at any await (a client that disconnects). The
supervisor runs at most one cell at a time in the worker, talks to it in frames
over stdin and stdout, and a reader task per worker turns the worker's RPC
frames into broker tasks. A broker call is recorded in the journal, written to
disk, sent, and its outcome is recorded and written. A run registers with the
artifact store before it executes and unregisters when it ends; closing a
session goes through supervisor, artifact store and, for the last session of a
project, broker. The journal and the artifact store are shared by all sessions.

**What is hard in each.**

- *Supervisor.* Four pieces of state (`busy`, `active`, the mutex, the history)
  that are updated one after the other by tasks on several threads; a guard
  object whose destructor does the clean-up wherever the future is dropped; a
  worker that dies, answers late or ignores an interrupt; close arriving at any
  moment; notifications that wake only those already registered.
- *Journal.* A crash or a power loss between record, write, send, answer and
  write; a rename that is visible but not durable; one writer serving requests
  that arrive while it writes; eviction under two limits.
- *Artifacts.* Jobs on blocking threads that outlive the request, the run and the
  session that asked for them; append, commit, abort and end of run on one upload.
- *RPC tasks.* A task is spawned before its handle is registered; a run that ends
  in between drains a table the handle is not in yet.
- *Transports.* Slots looked up, locked, connected and invalidated in separate
  steps, by key; a slot out of the pool goes on to be used; refreshes that publish
  in the order they finish, and can be abandoned half-way.
- *Session manager.* A job that outlives the request it was made for; the broker of
  a project shared and handed over between opens and closes.
- *Guardian.* The server dies at any moment, with full pipes and a child that does
  not read; process ids that are reused; groups that are known only by report.

**What makes each correct** is stated in its module (sections 3 to 9). The hazards,
each at its line and with the properties that cover it, are listed in
`PROJECT.json`.

## 2. Plan

Modules in order: 1 `Supervisor` with its promise `CellLane`, 2 `Journal`,
3 `Artifacts`, 4 `RpcLink`, 5 `Transports`, 6 `Sessions`, 7 `Guardian`. All seven are
written and checked. What could follow: the end of a cell in the Python worker
(owned executor jobs, threads a cell leaves behind), and a composition of `Sessions`
with the promise of a pool.

Abstract specifications worth stating: `CellLane` for the supervisor (done); a
write-ahead log of effects for `Journal` (enter, effect, outcome); a map of
uploads from open to published or gone for `Artifacts`; a pool of connections for
`Transports`, which `Sessions` could use instead of one step.

Theorems: every invariant and action property of a passing run is proved (section 10),
and so is the implementation of `CellLane`. Worth proving next: the refinements of the
other abstract specifications above, first that of the write-ahead log.

Conventions: every module that is proved about declares its parameters as
CONSTANTS with one named assumption, uses no RECURSIVE operator, has one action
per step between two accesses to shared state, and keeps its theorems in
`<Module>Proofs`. `<Module>MC` gives the constants values for TLC. Operators
marked `mutant` in a comment are plausible wrong versions of the definition that
follows them; nothing in the specifications uses them.

## 3. Supervisor and CellLane

`Supervisor.tla` models one session: any number of requests (`Runs`), each of a
shape (background, reset, fresh worker, inventory, expected generation), the
worker each of them may spawn (named after the request that spawned it) and the
closing task. The variables are the fields of the Rust `Supervisor` (`busy`,
`active`, `closed`, `slot` and its mutex `slotLock`, `generation`, `records`,
`background`), the local state of each request (`pc`, what it holds, whether its
notification is pending, how it ends), the processes (`proc`) and two histories
(outcomes and what was executed). One action is one step between two accesses to
shared state; the phases are Arrival, Admission, Preparation, Execution,
Completion and Abandon. A dropped future, a cancellation and the death of a
process are events of the environment that can come at every point the code
awaits, and a destructor runs in the order Rust drops the values.

`CellLane.tla` is what a session promises, without workers, locks or tasks: one
run at a time in a lane, where it can renew the namespace and execute its code at
most once. `Supervisor` implements it under the mapping of its last section.

| Run | Bounds | What it shows |
|---|---|---|
| `session_safety` | 2 requests of 6 shapes, every event, history of 1; 0.8 M states | `SingleFlight`, `NoOrphanWorker`, `NoLostWakeup`, `ExpectedGenerationHonoured`, `TruthfulState`, and `ImplementsLane` |
| `session_close` | 2 foreground/background cells and close, under fairness; 0.27 M states | `SlotExclusive`, `CompletedRunRetained`, `NoExecutionAfterClose`; `RequestsEnd` and `CloseReaps` eventually |
| `state_reset_reported` | cells and inventories | violated: finding 1 |
| `started_run_visible` | background cells | violated: finding 2 |

Two requests are enough for every pairwise race: one owns the lane and the other
waits, sleeps, follows, or takes over the worker the first left; the closing task
is a third actor. With `session_safety`'s history of one, the second finished run already
evicts the first. A generation can reach 2, so an expectation can be met, stale, or made
stale by one respawn. `session_close` keeps a history of two: with one, the exception of
`CompletedRunRetained` for a full history would hold from the first record on. For any
limit it is the theorem `FinishedRunsAreKept`. Symmetry of the requests is used only in
the safety run.

*Fairness.* Every request takes its next step (its task is polled, and each of its
awaits has a deadline: supervisor.rs:539, 835, 956), the reader of a dead worker sees
the end of its pipe, and a close that has begun goes on. Nothing is assumed of
the arrival of requests, of cells that finish, or of the events.

### Findings

1. `state_reset` (supervisor.rs:919) says whether *this run* spawned the worker. A
   namespace inventory, or a run cancelled before it is sent, spawns it without
   being a cell, and the first cell of the new namespace then reports `false`,
   where README.md:79 promises that `state_reset` reports a fresh namespace.
2. The task of a background cell clears `active` (933, 696) before `remember`
   stores the result (697). A poll in between answers "Run not found".

*Observation.* `closed` is read once (719), before the mutex is tried (746). A cell
past that check spawns a worker after `close` has returned. It is not executed
(`NoExecutionAfterClose`) and the guard of the request ends it (`CloseReaps`), but for
a moment a closed session has a worker.

## 4. Journal

`Journal.tla` models the calls of all brokers, the records (a function from calls
to a status), the background writer, the file as a restart would read it (`disk`)
and as a power loss leaves it (`stable`), crashes and the recovery of
`set_journal`. `pc` follows a call through `dispatch`: enter the record, schedule
a write, wait for it, send, answer, schedule the write of the outcome, wait.
`Drop` is the destructor of `CallRecord`. Each file operation of the writer can
fail. The metadata is abstracted by two constants. `Fits` stands for its bytes, 900 000 on
entry and 1 MiB at a start (the terminal fields of 256 records take less than the
difference); the assumption says only that fewer records take fewer bytes. `Plain` is the
set of calls whose strings a start accepts, which `set_journal` checks (broker.rs:269-276)
and `dispatch` does not. A start either reloads an `Acceptable` file (`Reload`, `Open`) or
refuses it and ends (`RefuseFile`).

| Run | Bounds | What it shows |
|---|---|---|
| `journal_safety` | 2 new calls, one of them as large as the budget, and an old record, the large one not `Plain`; 2 records; 2 crashes; 1.8 M states | write-ahead (`EffectsAreRecorded`), `DispatchedIsInFlight`, `NoInventedOutcome`, `ToldOutcomeIsDurable`, the limits of the file (`FileWithinLimits`), and that no waiter misses the write it waits for (`NoLostNotice`) |

Three calls over two places make every kind of eviction happen: by number, by
bytes, the refusal when all records are in flight, and the entry that is too large
even for an empty journal. Two crashes let the second one hit the recovery. Starts
that reload the file and starts that refuse it both occur.

No fairness is assumed: `NoLostNotice` says in every state that a call asleep has a
writer at work before it or a notification owed to it, so that it wakes however long
the file operations take.

*A file that the next start refuses.* broker.rs:552 means to "keep snapshots
reloadable", and so it does for their number and bytes: `FileWithinLimits` says no more
than that. But `set_journal` also refuses the whole file for one string of more than 400
bytes (4096 for the project) or with a control character (269-276), and `dispatch` writes
the tool name the downstream server has listed, and the project's path, as they are
(551); `tools` bounds the catalogue, not a name (938-1000). One call of a tool with a
name of 401 bytes, not evicted before the server ends, and every later start with the
same `--journal` ends with "Invalid broker journal metadata" (main.rs:82), until somebody
repairs the file. In the model this is a call outside `Plain` in
`disk`, after which `RefuseFile` is the only step of the server. Unfinished calls then stay
"dispatched" in the file, where README.md:206-207 has them recovered.

*Observations.* A waiter whose write was covered by a later snapshot is told the
error of that later one (broker.rs:1467-1469): it may hear of a failure its own
record did not meet, never the reverse. A server without `--journal` has no file
and nothing of this module applies to it.

## 5. Artifacts

`Artifacts.tla` models the registry of sessions and runs and the jobs of the pool
of blocking threads. A job is an operation of some kind (`create`, `begin`,
`append`, `commit`, `abort`, `drop`) for a session and perhaps a run; a job is
also the name of what it makes, so that an upload is the job that began it. It is
accepted in `Dispatch`, with a permit and with its owners registered, and decides
under the mutex of the entries, where it reads the guards again. `alive` is the
flag of an upload that ends writers who looked it up earlier, `lock` the mutex of
its data, which a commit keeps from the check of the content to publication.

| Run | Bounds | What it shows |
|---|---|---|
| `artifacts_safety` | 3 jobs of any kind, 2 at a time, 2 sessions with a run each; 1 upload, 2 artifacts of up to 2 bytes, 3 in all; 2.2 M states | `OwnedByOpenSession`, `UploadsOfLiveRuns`, `Sealed`, `PublishedOnce`, `AbortIsFinal`, and the limits with the order of eviction (`EvictsOldestFirst`) |

Three jobs are a begin with any two of append, commit and abort racing for it, or
three imports over two places, the last of which evicts one or two older ones.
The jobs are interchangeable, hence the symmetry.

*Observations.* An abort is answered `aborted: true` also when a commit of the
same upload has already published it. A write that fails half-way leaves the file
longer than the recorded size; the only client ends the upload after an error
(native_worker.py:463-466), and the model leaves that case out. The comment at
artifacts.rs:1-2 counts four staging leases in the disk budget, README.md:237 the
uploads and the copies separately.

## 6. RpcLink

`RpcLink.tla` models one worker from both sides: the Python process (`future` and
`cell` are the `pending` table and the `run_id` of `native_worker.py`), the two
pipes (`up`, and `queue`, `writer` and `down` for the frame writer), the
supervisor's reader with the tasks it spawns and the table of their abort
handles, and the part of `execute_inner` that owns the worker: send the cell,
wait, interrupt, drain, clear, keep or terminate. The reader authorises, spawns
and enters the handle in three steps, because the run on another thread drains
the table between any two of them. An abort and the stop of the reader take
effect at the next await, which the reader does not have between these steps.
A frame of the worker is refused, carried out or garbled; `Tear` is an interrupt
that finds a write to the unbuffered pipe half done. The model has one worker: the
next one has tables and pipes of its own.

| Run | Bounds | What it shows |
|---|---|---|
| `rpc_safety` | 2 runs, 2 calls of the first, limit of 1 call, pipes of 2 frames, queue of 1; 1.1 M states | `KeptWorkerIsQuiet` (with whole frames on the worker's stdin), `TasksAreOwned`, `GivenUpCallStops` |
| `rpc_gone` | as `rpc_safety` | violated: finding 3 |

With a limit of one the second call meets the limit in the worker and in the
supervisor; with a queue of one and two tasks, replies wait for each other; the
second run finds what the first has left. Calls of both runs at once are not
possible: a worker that is kept has none left.

No fairness is assumed: `GivenUpCallStops` says in every state what is still under way
for a call its cell has given up.

*Why a kept worker is quiet.* A cell that leaves a thread behind is fatal to its
worker, so every `rpc` frame of a preserved cell is in the pipe before its result,
and the reader has entered every handle before it passes the result on. This
ordering is what `KeptWorkerIsQuiet` rests on; where the worker is dropped instead,
nothing orders the two sides.

*Observations.* A task counts until its reply is acknowledged, and the worker
forgets a call when it reads the reply. A worker that has 63 calls pending can
therefore be refused its next call with "Too many outstanding MCP calls". A call
authorised just before `Worker::drop` is spawned after the drop has drained the table
(supervisor.rs:466, 512, against 105-110) and is not aborted.

### Finding

3. `send` in native_worker.py:626-627 ignores how much of a frame a raw write has
   taken. An interrupt during the write of a large frame leaves it in part, the
   next frame is merged into its line, and the reader gives the worker up: an
   interruption clears the variables, which README.md:81 says it does not.

## 7. Transports

`Transports.tla` models the connections of one broker. A call goes through
`dispatch_with_context` and `session`: is the configuration sound, is the server
granted, a permit, the cooldown, the slot, the slot's lock, a connection, the request,
and perhaps `invalidate`. A refresh loads any set of servers or fails, and publishes
step by step; the shutdown ends admission, empties the pool and closes. `slots` is the
map of the code; `inside` and `lock` are a slot's content and its mutex, which live on
when the slot has left the map; `at` and `conn` are the references the tasks hold. A
connection that nobody refers to is dropped and thereby closed (`Live`), as Rust's
reference counts do it. `mapLock` is held over two steps only by a call that makes
room, because the idle slot is looked at and taken with two tries of its lock. Peers
die, requests fail in ways that do and do not look at the connection, and tasks of
calls and refreshes are aborted at every await. Connecting, keys and what a request
says are abstracted; aliases of a server share a key and are one server.

| Run | Bounds | What it shows |
|---|---|---|
| `transports_safety` | 2 calls, 2 refreshes, 2 servers, a pool of 1; 2.0 M states | limits of pool and calls, `FailClosed`, `RevokedLeaves`, `RefreshSparesKept` |
| `healthy_peers` | 3 calls of one server | violated: finding 4 |

Two calls of two servers over a pool of one make each retire, refuse and wait for the
other; two refreshes are a success beside a failure in every order. `FailClosed` and
`RevokedLeaves` are about refreshes that were not abandoned half-way. Two calls do not
reach their limit of two and ask for more; that it holds is `TypeCorrect` (section 10),
for any number of calls. A limit of one would let TLC see the refusal and no two calls
at once, which the other properties need.

*Observations.* A refresh that read the file earlier can publish over one that read it
later; the next one that is due (30 s) repairs it. A refresh that succeeds between
the two writes of one that fails (1028, 1029) leaves an empty registry without an
error, until the next refresh. `RevokedLeaves` is about the slots a refresh has found revoked: a call that
looked its server up before the refresh published can make a new slot for it after the
drop, and keeps it in the pool until the next refresh. An idle slot is looked at (864) and taken (876) with two
tries of its lock: a call that holds the slot from an earlier lookup can get a connection
in between and lose it. A call that waits for the lock of a slot that has been
invalidated connects in it all the same, outside the pool; its connection is closed when
it drops it.

### Finding

4. A call that sees its own connection closed (broker.rs:614) invalidates by the key of
   the server. By then the slot may hold a fresh connection of another call, which is
   closed under its request, where 612-613 say that only an actually closed service
   is invalidated and healthy peers survive.

## 8. Sessions

`Sessions.tla` models the session manager and the end of `main`. An open takes a permit,
which goes into its blocking job (`job`) and comes back with the result; the request
waits for it at most ten seconds, probes the interpreter (`probes`) and publishes under
the lock of the sessions: limit, the project's broker or its own, the owner in the
artifact store, the session. A close detaches the session, with the broker if it was the
last of its project, and closes supervisor, owner and broker one after the other; the
shutdown takes all sessions and then all brokers. What those parts do when closed is
one step here and the subject of the other modules.

| Run | Bounds | What it shows |
|---|---|---|
| `sessions_safety` | 4 opens, 2 projects, 3 sessions with the default one, 2 opens at a time, 3 owners; 0.4 M states | limits (in `TypeOK`), `SessionsAreWhole`, `NothingIsStranded` |

Four opens fill the table, find it full, leave a job behind, and reuse a broker while
the session that made it is closed. With as many owners as sessions, a close that has
not yet come to the artifact store makes it refuse the next open, a case the limits of the
code (256 and 32) put far away but do not exclude.

*Observations.* An open that is refused by the artifact store leaves the broker of its
project in the table until the next session of the project is closed. An open that
publishes after the shutdown has drained the tables is closed by nobody; the process
ends within a second (main.rs:66-68).

## 9. Guardian

`Guardian.tla` models a guardian with its child, the two pipes of the child's frames,
and the server's handle of it. The guardian's main task is `guardian` ("reading" the
command, "checking" the token, "serving", "sweeping", "flushing", "joining"), its
watcher thread `Watch`, its output task `Register`, `Forward` and `OutputEnds`, its
input task `InputEnds` with `backlog` for input the child does not read. The server
launches, hears frames, interrupts, terminates (close the input, kill the jobs,
wait, force, reap), drops, and dies. A detached group is started, reported, ends and is
reaped by the child. Guardian and child are one process group: a signal to it ends
both. Only `started` and `finished` frames are modelled; peers of the broker are the case
without any.

| Run | Bounds | What it shows |
|---|---|---|
| `guardian_safety` | 2 jobs, pipes of 2 and 1 frames, under fairness; 0.15 M states | no signal to a freed id (in `TypeOK`), `NothingLeft`; `ServerDeathEndsTree` eventually |

Two jobs with a pipe of one frame to the server let one frame block the output task
while the other waits in the pipe from the child.

*Fairness.* The guardian's main task and its watcher thread run and their waits of 200 ms
end. Nothing is assumed of the tasks that proxy frames, of the child or of the server:
that the end comes all the same is what the watcher is for (guardian.rs:73).

*Observations.* The guardian kills the jobs of its table once (193) and only then gives
its output task 200 ms to read what is left in the pipe: a job whose report is read
then, or never, survives the death of the server, beside docs/audit-coverage.md:110.
`NothingLeft` therefore speaks of the reports read before. A job that the child has
reaped stays in both tables until its `finished` frame is read, and a sweep in between
signals a number that may be in use again.

## 10. What is proved

TLAPS proves every invariant and every action property of the passing runs, and the
implementation of `CellLane`, for every value of the constants: any number of runs,
calls, jobs, sessions or servers, and any limits. The only assumptions are the seven
named ones on the constants (`SupervisorAssumption` and so on, one per module), which
TLC evaluates in every run. `PROJECT.json` lists the 37 theorems with what they say.

The argument is the same throughout: an inductive invariant, conjunction of named
parts that each say one thing about the code, one lemma per part and in it one step
per action. Where several parts depend on the same facts about an action, a lemma
states these once (`Moves`, `PoolMoves`, `PipeMove`). What follows is why the checked
property is not inductive as it stands, and what is added.

**`SupervisorProofs`.** `TypeCorrect`. `SlotIsExclusive`: the mutex is held by exactly
the one request that is preparing or running, or by the closing task; inductive with
the statement that whoever stands at a locking control point is the holder.
`OneCellAtATime`: `busy` holds exactly when one request is at an owning control point,
and `active` is that request or nobody; `ReservationInv` adds who may be visible at
which point. `NoWakeupIsLost`: a request that sleeps has been notified, or the lane is
occupied, or the one that left it still owes the notification; it needs
`ReservationInv`, since the step that clears `active` is not the one that notifies.

**`SupervisorWorkerProofs`.** `WorkersAreOwned` by `Ownership`: at which control points a
run holds a worker, and that its own, if it is fresh, is the one it holds.
`ClosedMeansClosed` by `CloseInv`: a run that `close` finds past its check of `closed`
has been cancelled, and is not yet on a worker when the slot is emptied. It needs
`ActiveInv`: such a run is the active one, which is the one `close` cancels.
`GenerationIsHonoured` by `Generations`: the generation of the worker in the slot or
in hand, at each control point, relative to the one expected. `ResultsAreTruthful`
by `Histories`: on which worker a run's code was, and which run was the first on it.
`FinishedRunsAreKept` by `RetainedInv`, with the history as a bounded sequence.
`SessionIsALane` is the refinement: the initial state maps to an initial state of
`CellLane`, and each step of the session, under the invariants above, maps to one step
of one run in the lane or to a stutter.

**`JournalProofs`.** `Phases` says what each control point knows of its call. With it,
`InFlightIsRecorded` by `Memory` (exactly the calls in flight have a dispatched
record; eviction spares these); `OutcomesAreReal` on the four journals at once (memory,
snapshot, file, file after a power loss); `FileKeepsLimits`, the limits on number and
bytes, by `Positions` (records are
numbered in the order they came, so that there is an oldest one to evict) and
`AllBounded`; `NoticesAreOwed` by `Tickets` (who waits has a ticket the writer knows of,
and the writer stops only when all are served). `WriteAhead` and `ToldIsDurable` need
all of these and two more: `Coverage`, that a completed write with no failure has put
what its waiters wait for in the file and on the disk, and `Durable`, that an effect
in memory is in every image a later state can start from. `Durable` is what makes a
second crash, during recovery, harmless.

**`ArtifactsProofs`.** `Books`, a conjunction of what the parts of the store say of each
other: `Registry` (an upload in the registry is alive, has begun and belongs to a live
run), `Refusals` (an aborted upload is out of it and cannot return), `Lookups` (a job
past its lookup has an upload that once began), `History` (what was published came
from a finished job, and if from an upload, that one is no longer alive) and `Kept`
(an artifact belongs to an open session and its file is as long as it was sealed).
From it: `NoArtifactOfClosedSession`, `NoWriterAfterCommit`, `UploadsBelongToLiveRuns`,
`UploadsPublishOnce`, `AbortsAreFinal`. `EvictionIsMinimal` adds `Positions` and `Bounds`:
ages are given once, so that taking the youngest of the evicted back leaves a set of
oldest entries, which the choice of the fewest has found too large. It needs that a
sum does not depend on the order of its elements. The community modules define sums
by recursion and the library's induction rules cannot be instantiated by the provers,
so every induction is made by hand: if a statement fails for some set of jobs, it
fails for one with the fewest elements (`FewestExists`, from the well-foundedness of
the numbers). In this way `AddsExists` shows that the recursion has a solution,
`AddsAgree` that it has one only, and `SumSplits` and `SumMonotone` what is needed of it.

**`RpcLinkProofs`.** One invariant, `IInv`, of thirteen parts. `TypeCorrect`.
`NextRunStartsClean` needs `Token` (the frame that starts a cell is in one place, and
belongs to the run that has the worker), `InPart` (only the last frame in a pipe is in
part), `Results` (the last word of a cell comes after its calls, and when it has been
read nothing of the cell is left in either pipe) and `AtRest`. `NoTaskEscapes` needs
`Once` and `Homes` (a call is in one place, of its own run) and `Owned`.
`GivenUpIsHeard` needs `Words` and `GivenUp`: where the word of a given-up call is, and
that it is behind the call in the pipe.

**`TransportsProofs`.** `PoolInv`: what a task refers to follows from where it stands
(`Places`), names of slots are fresh (`Names`), a slot is in the pool under one server
(`OneServer`), and slots and connections can be labelled with the server they were made
for (`Labelled`, an existential over labellings: the code keeps no such field).
`RefreshesSpareKept` follows from the label and `Kept`. `BrokerFailsClosed` needs
`Failing`: servers granted under an error are the middle of one refresh, or what an
aborted one has left. `RevokedServersLeave` needs `Revoking`: a condemned slot in the
pool is on the list of a refresh that will drop it. `TypeCorrect` includes the limits
on slots and calls.

**`SessionsProofs`.** `FoundSessionsAreWhole`: a session is in the table and known to the
store until its end has begun (`Endings`), a broker is in one place, the table or on
its way out (`OnePlace`), and a listed session has the one of its project (`Listed`).
`NothingIsLeftBehind`: `Probed`, `NoneLost` and `NoneIdle`, for processes, brokers
taken out and brokers kept. `TypeCorrect` includes the three limits.

**`GuardianProofs`.** `TypeCorrect`, whose last part is that no signal is sent to an id
that may be in use again: `Ids` and `Tree` say when it is free. `NothingSurvives`: frames
in the pipes are about groups that exist (`Frames`), and a job that has been heard of
and is not in a table has ended (`Tables`), on both sides of the guardian.

**Only model-checked.** Liveness (`RequestsEnd`, `CloseReaps`, `ServerDeathEndsTree`), which
the prover does not support: TLC checks it under the fairness stated in sections 3
and 9. The four expected violations are counterexamples of TLC.

## 11. Running it

    tlc -workers 2 -config SupervisorSafety.cfg SupervisorMC.tla
    tlapm ArtifactsProofs.tla

The longest run takes two to three minutes on two cores. `PROJECT.json` lists the
runs, for every property a mutant of the code that breaks it, the source lines
of every definition, the findings, the hazards and the theorems.

## 12. What is not modelled, and why

- *Supervisor*: checkpoint and restore files, output streaming, diagnostics and the
  text of results are data that no property tells apart.
- *RpcLink*: output frames and the memory watch; what a call does in the broker is
  one step. Job frames are in `Guardian`.
- *Transports*: the catalogue of tools, the compiled validators and the text of health
  and explanations, which are caches and reports.
- *Python worker*: the end of a cell with its threads and executor jobs.
- *Journal*: order and text of the metadata, apart from its size; `--journal` paths.
- *Artifacts*: reading, saving and forwarding change nothing in the store; the limit
  on owners is met through the sessions that register them, in section 8.
- *Configuration registry*: a pure function of files and the environment, with unit
  tests. *OAuth*: the grants belong to the rmcp library; the credential file uses
  the same write-then-rename as the journal. *Byte transports*: adapters that bound
  peer frames and bodies. *Tool server*: stateless; its cancellations and dropped
  handlers are events of `Supervisor` and `Sessions`. *Legacy Python server*: not shipped.

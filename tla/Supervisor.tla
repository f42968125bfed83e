------------------------------ MODULE Supervisor ------------------------------
(*****************************************************************************)
(* One Python session of the native server: native/src/supervisor.rs.        *)
(*                                                                           *)
(* A session runs one cell at a time on a long-lived ("persistent") Python   *)
(* worker, or on a private ("fresh") one.  Requests are served by tasks of a *)
(* multi-threaded runtime, so every access to shared state is a step of its  *)
(* own: the `busy` flag, `active`, the history, the cancellation tokens, the *)
(* worker slot behind its mutex.  A task can be dropped at an await point.   *)
(* A request is identified with the run it asks for, and a worker process    *)
(* with the run that spawned it (a run spawns at most one).                  *)
(*                                                                           *)
(* The steps of a phase say what they do to the variables the phase touches; *)
(* what a whole phase leaves alone is stated once, with the phase.           *)
(*****************************************************************************)
EXTENDS Integers, Sequences

CONSTANTS Runs,          \* the requests that reach this session
          NoRun,         \* None in an Option of a run or a worker
          Closer,        \* the task that closes the session
          Requests,      \* the shapes of request that can arrive
          Events,        \* what the environment may do: see the last actions
          HistoryLimit   \* records kept for python_run (64 in the code)

AnyGeneration == -1      \* expected_generation is None

Request == [background : BOOLEAN, reset : BOOLEAN, fresh : BOOLEAN,
            inventory : BOOLEAN, expected : Nat \cup {AnyGeneration}]

\* python_start takes neither a fresh worker nor an inventory (server.rs:386-405).
ASSUME SupervisorAssumption ==
    /\ NoRun \notin Runs /\ Closer \notin Runs \cup {NoRun}
    /\ Requests \subseteq Request
    /\ \A q \in Requests : q.background => ~q.fresh /\ ~q.inventory
    /\ HistoryLimit \in Nat \ {0}

VARIABLES
    busy,             \* the single execution slot is reserved
    active,           \* the run python_run and python_cancel see, or NoRun
    records,          \* the history: finished runs, oldest first
    generation,       \* number of persistent workers that became ready
    closed,           \* the session refuses new work
    slot,             \* the idle persistent worker in the mutex, or NoRun
    slotLock,         \* who holds that mutex
    background,       \* the run whose task handle shutdown will join
    pc,               \* where each request stands
    request,          \* what each request asks for
    woken,            \* the waiting request has been notified
    cancelled,        \* python_cancel / shutdown token of each run
    requestCancelled, \* the client's cancellation of each request
    aborted,          \* the background task has been aborted by shutdown
    handle,           \* task handle of a background run: none, made, stored
    held,             \* the worker a run owns locally, or NoRun
    outcome,          \* the result computed for each run
    proc,             \* the process of each worker
    gen,              \* generation of each persistent worker, 0 before
    closer,           \* progress of the closing task
    joining,          \* the background run the closing task waits for
    ranOn, firstOn    \* history: the worker that got a run's code; its first cell

worker == <<proc, gen, ranOn, firstOn>>
tokens == <<cancelled, requestCancelled, aborted>>
close  == <<closed, closer, joining>>
vars   == <<busy, active, records, generation, slot, slotLock, background, pc, request,
            woken, handle, held, outcome, tokens, worker, close>>

NoRequest == [background |-> FALSE, reset |-> FALSE, fresh |-> FALSE,
              inventory |-> FALSE, expected |-> AnyGeneration]
Outcome == [state : {"none", "preserved", "cleared"}, state_reset : BOOLEAN, generation : Nat]
NoOutcome == [state |-> "none", state_reset |-> FALSE, generation |-> 0]

Fresh(r)       == request[r].fresh
Background(r)  == request[r].background
Recorded(r)    == ~request[r].inventory
Interrupted(r) == cancelled[r] \/ requestCancelled[r]

\* Before the reservation, with it, and with it and the worker mutex.
Outside == {"idle", "reserve", "inspect", "wait", "notify", "done"}
Owning  == {"admit", "begin", "checks", "lock", "answer", "record", "dropping",
            "recordAbandoned", "release"}
Armed   == {"sending", "running", "interrupted", "settling"}
Locking == {"prepare", "stopping", "spawning", "take", "armed", "terminating"} \cup Armed

PC == Outside \cup Owning \cup Locking

Owner(r)   == pc[r] \in Owning \cup Locking
ProcState == {"none", "starting", "up", "exited", "eof", "killed"}
Running(w) == proc[w] \in {"starting", "up"}

Init ==
    /\ busy = FALSE /\ active = NoRun /\ records = <<>> /\ generation = 0
    /\ slot = NoRun /\ slotLock = NoRun /\ background = NoRun
    /\ closed = FALSE /\ closer = "open" /\ joining = NoRun
    /\ pc = [r \in Runs |-> "idle"]
    /\ request = [r \in Runs |-> NoRequest]
    /\ handle = [r \in Runs |-> "none"]
    /\ held = [r \in Runs |-> NoRun]
    /\ outcome = [r \in Runs |-> NoOutcome]
    /\ proc = [w \in Runs |-> "none"]
    /\ gen = [w \in Runs |-> 0]
    /\ ranOn = [r \in Runs |-> NoRun] /\ firstOn = [w \in Runs |-> NoRun]
    /\ woken = [r \in Runs |-> FALSE] /\ aborted = [r \in Runs |-> FALSE]
    /\ cancelled = [r \in Runs |-> FALSE] /\ requestCancelled = [r \in Runs |-> FALSE]

-----------------------------------------------------------------------------
Goto(r, from, to) == pc[r] = from /\ pc' = [pc EXCEPT ![r] = to]

\* failure(...) and identify(...): a result that reports no new namespace.
ConcludePrevious(r, state) ==      \* mutant: the generation before this one
    outcome' = [outcome EXCEPT ![r] = [state |-> state, state_reset |-> FALSE,
                                       generation |-> generation - 1]]
Conclude(r, state) ==
    outcome' = [outcome EXCEPT ![r] = [state |-> state, state_reset |-> FALSE,
                                       generation |-> generation]]

\* remember: the record of a run replaces an earlier one, the oldest go first.
Without(h, r) ==
    IF \E i \in 1..Len(h) : h[i] = r
    THEN LET i == CHOOSE i \in 1..Len(h) : h[i] = r
         IN  SubSeq(h, 1, i - 1) \o SubSeq(h, i + 1, Len(h))
    ELSE h
RememberOneLess(h, r) ==           \* mutant: evicts at the limit, not past it
    LET kept == Append(Without(h, r), r)
    IN  IF Len(kept) < HistoryLimit THEN kept ELSE Tail(kept)
Remember(h, r) ==
    LET kept == Append(Without(h, r), r)
    IN  IF Len(kept) <= HistoryLimit THEN kept ELSE Tail(kept)

Log(r) == records' = IF Recorded(r) THEN Remember(records, r) ELSE records

\* Worker::drop and Worker::terminate end the worker's whole process group.
KillNothing(r) ==                  \* mutant: the worker is dropped, not killed
    held' = [held EXCEPT ![r] = NoRun] /\ UNCHANGED proc
Kill(r) == /\ proc' = [proc EXCEPT ![held[r]] = "killed"]
           /\ held' = [held EXCEPT ![r] = NoRun]

\* Where python_run finds a run.
Status(r) == IF active = r THEN "active"
             ELSE IF \E i \in DOMAIN records : records[i] = r THEN "retained"
             ELSE "not found"

-----------------------------------------------------------------------------
(* Admission: execute_request and start_request.                             *)

\* A foreground request registers with `available` before it tries to reserve.
Arrive(r) ==
    \E q \in Requests :
        /\ closer # "dropped"
        /\ Goto(r, "idle", "reserve")
        /\ request' = [request EXCEPT ![r] = q]
        /\ UNCHANGED <<busy, active, background, woken, handle>>

ReserveUnchecked(r) ==             \* mutant: stores busy without comparing it
    /\ Goto(r, "reserve", "admit")
    /\ busy' = TRUE
    /\ UNCHANGED <<active, background, request, woken, handle>>
Reserve(r) ==
    /\ IF busy THEN Goto(r, "reserve", IF Background(r) THEN "done" ELSE "inspect")
               ELSE Goto(r, "reserve", "admit")
    /\ busy' = TRUE
    /\ UNCHANGED <<active, background, request, woken, handle>>

\* A holder that is being cancelled, or is between its end and its release, is
\* worth waiting for; an ordinary running cell is not.
Inspect(r) ==
    LET cancelling == active = NoRun \/ Interrupted(active)
    IN  /\ Goto(r, "inspect", IF cancelling THEN "wait" ELSE "done")
        /\ UNCHANGED <<busy, active, background, request, woken, handle>>

\* Notified: register and try again.  Otherwise the cleanup deadline passes.
Wait(r) ==
    /\ Goto(r, "wait", IF woken[r] THEN "reserve" ELSE "done")
    /\ woken' = [woken EXCEPT ![r] = FALSE]
    /\ UNCHANGED <<busy, active, background, request, handle>>

\* reserve publishes the run; start_request spawns the task that owns it.
Admit(r) ==
    /\ Goto(r, "admit", "begin")
    /\ active' = r
    /\ handle' = [handle EXCEPT ![r] = IF Background(r) THEN "made" ELSE @]
    /\ UNCHANGED <<busy, background, request, woken>>

\* start_request stores the handle when the task may already have run.
StoreHandle(r) ==
    /\ handle[r] = "made"
    /\ handle' = [handle EXCEPT ![r] = "stored"]
    /\ background' = r
    /\ UNCHANGED <<busy, active, pc, request, woken>>

Admission(r) ==
    /\ Reserve(r) \/ Inspect(r) \/ Wait(r) \/ Admit(r) \/ StoreHandle(r)
    /\ UNCHANGED <<records, generation, slot, slotLock, held, outcome, tokens, worker, close>>

-----------------------------------------------------------------------------
(* Preparation: execute_inner up to the worker.  The leading checks read     *)
(* shared state one after the other; each refusal leaves the namespace alone.*)

Refuse(r) == /\ pc' = [pc EXCEPT ![r] = "answer"]
             /\ Conclude(r, "preserved")

\* register_artifact_run can fail; a closed session refuses the cell.
Begin(r) ==
    /\ pc[r] = "begin"
    /\ \/ Refuse(r)
       \/ ~closed /\ Goto(r, "begin", "checks") /\ UNCHANGED outcome
    /\ UNCHANGED <<generation, slot, slotLock, held, proc, gen>>

\* A stale expectation, an early cancellation, or (foreground only: python_start
\* has checked it) a code size or timeout out of range.
Checks(r) ==
    LET expected == request[r].expected
        refused  == \/ expected # AnyGeneration /\ expected # generation
                    \/ Interrupted(r)
    IN  /\ pc[r] = "checks"
        /\ \/ (refused \/ ~Background(r)) /\ Refuse(r)
           \/ ~refused /\ Goto(r, "checks", "lock") /\ UNCHANGED outcome
        /\ UNCHANGED <<generation, slot, slotLock, held, proc, gen>>

TryLock(r) ==
    /\ pc[r] = "lock"
    /\ \/ slotLock # NoRun /\ Refuse(r) /\ UNCHANGED slotLock
       \/ slotLock = NoRun /\ Goto(r, "lock", "prepare") /\ slotLock' = r /\ UNCHANGED outcome
    /\ UNCHANGED <<generation, slot, held, proc, gen>>

\* A reset ends the worker in the slot first, and so does a worker found dead.
MustStop(r) == ~Fresh(r) /\ slot # NoRun /\ (request[r].reset \/ proc[slot] = "eof")

StopWorker(r) ==
    /\ MustStop(r)
    /\ Goto(r, "prepare", "stopping")
    /\ held' = [held EXCEPT ![r] = slot]
    /\ slot' = NoRun
    /\ UNCHANGED <<generation, slotLock, outcome, proc, gen>>

Stopped(r) ==
    /\ Goto(r, "stopping", "prepare")
    /\ Kill(r)
    /\ UNCHANGED <<generation, slot, slotLock, outcome, gen>>

StartWorker(r) ==
    /\ Fresh(r) \/ slot = NoRun
    /\ Goto(r, "prepare", "spawning")
    /\ held' = [held EXCEPT ![r] = r]
    /\ proc' = [proc EXCEPT ![r] = "starting"]
    /\ UNCHANGED <<generation, slot, slotLock, outcome, gen>>

\* The handshake arrived: a persistent worker opens a new generation.
Spawned(r) ==
    /\ Goto(r, "spawning", "take")
    /\ proc' = [proc EXCEPT ![r] = "up"]
    /\ \/ Fresh(r) /\ UNCHANGED <<generation, gen, slot, held>>
       \/ /\ ~Fresh(r)
          /\ generation' = generation + 1
          /\ gen' = [gen EXCEPT ![r] = generation + 1]
          /\ slot' = r
          /\ held' = [held EXCEPT ![r] = NoRun]
    /\ UNCHANGED <<slotLock, outcome>>

SpawnFails(r) ==
    /\ Goto(r, "spawning", "answer")
    /\ Kill(r)
    /\ Conclude(r, IF Fresh(r) THEN "preserved" ELSE "cleared")
    /\ slotLock' = NoRun
    /\ UNCHANGED <<generation, slot, gen>>

\* A respawn can have made the caller's expected generation stale.
NeverStale(r) == FALSE             \* mutant: no second look at the generation
Stale(r) == LET expected == request[r].expected
            IN  ~Fresh(r) /\ ~request[r].reset /\ expected > 0 /\ expected # generation

\* The worker leaves the slot for the run, unless the expectation failed.
Take(r) ==
    /\ \/ pc[r] = "take"
       \/ pc[r] = "prepare" /\ ~Fresh(r) /\ slot # NoRun /\ ~MustStop(r)
    /\ \/ Stale(r) /\ Refuse(r) /\ slotLock' = NoRun /\ UNCHANGED <<slot, held>>
       \/ /\ ~Stale(r)
          /\ pc' = [pc EXCEPT ![r] = "armed"]
          /\ held' = [held EXCEPT ![r] = IF Fresh(r) THEN @ ELSE slot]
          /\ slot' = IF Fresh(r) THEN slot ELSE NoRun
          /\ UNCHANGED <<slotLock, outcome>>
    /\ UNCHANGED <<generation, proc, gen>>

Preparation(r) ==
    /\ \/ Begin(r) \/ Checks(r) \/ TryLock(r) \/ StopWorker(r) \/ Stopped(r)
       \/ StartWorker(r) \/ Spawned(r) \/ SpawnFails(r) \/ Take(r)
    /\ UNCHANGED <<busy, active, records, background, request, woken, handle, tokens,
                   ranOn, firstOn, close>>

-----------------------------------------------------------------------------
(* Execution: dispatch, the event loop, and the worker's way back.           *)

\* Cancelled before the command was sent: a persistent worker goes back
\* untouched, a fresh one is terminated.
CancelDispatch(r) ==
    /\ Interrupted(r)
    /\ pc[r] = "armed"
    /\ Conclude(r, "preserved")
    /\ \/ /\ Fresh(r)
          /\ pc' = [pc EXCEPT ![r] = "terminating"]
          /\ UNCHANGED <<slot, held, slotLock, active>>
       \/ /\ ~Fresh(r)
          /\ pc' = [pc EXCEPT ![r] = "answer"]
          /\ slot' = held[r] /\ held' = [held EXCEPT ![r] = NoRun]
          /\ slotLock' = NoRun /\ active' = NoRun
    /\ UNCHANGED <<cancelled, proc, ranOn, firstOn>>

Send(r) ==
    /\ ~Interrupted(r)
    /\ Goto(r, "armed", "sending")
    /\ UNCHANGED <<active, slot, slotLock, held, outcome, cancelled, proc, ranOn, firstOn>>

\* A frame written to a process that has exited reaches nobody.
Sent(r) ==
    LET w == held[r]
    IN  /\ Goto(r, "sending", "running")
        /\ ranOn' = IF proc[w] = "up" THEN [ranOn EXCEPT ![r] = w] ELSE ranOn
        /\ firstOn' = IF proc[w] = "up" /\ Recorded(r) /\ firstOn[w] = NoRun
                      THEN [firstOn EXCEPT ![w] = r] ELSE firstOn
        /\ UNCHANGED <<active, slot, slotLock, held, outcome, cancelled, proc>>

\* A result, or the failure that stands for it, ends the event loop.
Settle(r, state) ==
    /\ pc' = [pc EXCEPT ![r] = "settling"]
    /\ Conclude(r, state)
    /\ UNCHANGED <<active, slot, slotLock, held, cancelled, proc, ranOn, firstOn>>

SendFails(r) == pc[r] = "sending" /\ Settle(r, "cleared")

\* The worker reports preserved, or cleared when background work would not stop.
WorkerResult(r) ==
    /\ pc[r] \in {"running", "interrupted"}
    /\ proc[held[r]] = "up" /\ ranOn[r] = held[r]
    /\ \E state \in {"preserved", "cleared"} : Settle(r, state)

\* The event stream ended, or a running worker exceeded its memory budget.
WorkerLost(r) ==
    /\ \/ pc[r] \in {"running", "interrupted"} /\ proc[held[r]] = "eof"
       \/ pc[r] = "running" /\ proc[held[r]] = "up"
    /\ Settle(r, "cleared")

GraceExpires(r) == pc[r] = "interrupted" /\ Settle(r, "cleared")

\* A cancellation token, or the cell's deadline: SIGINT and a grace period.
InterruptOnToken(r) ==             \* mutant: the deadline branch is missing
    /\ Interrupted(r)
    /\ Goto(r, "running", "interrupted")
    /\ cancelled' = [cancelled EXCEPT ![r] = TRUE]
    /\ UNCHANGED <<active, slot, slotLock, held, outcome, proc, ranOn, firstOn>>
Interrupt(r) ==
    /\ Goto(r, "running", "interrupted")
    /\ cancelled' = [cancelled EXCEPT ![r] = TRUE]
    /\ UNCHANGED <<active, slot, slotLock, held, outcome, proc, ranOn, firstOn>>

\* The result leaves with the worker's fate: a fresh worker says nothing about
\* the namespace, a persistent one is new when this run has spawned it.
FinishNewest(r) ==                 \* mutant: any run on the newest generation
    /\ pc' = [pc EXCEPT ![r] = "answer"]
    /\ outcome' = [outcome EXCEPT ![r] =
                      [state |-> IF Fresh(r) THEN "preserved" ELSE @.state,
                       state_reset |-> ~Fresh(r) /\ gen[held[r]] = generation,
                       generation |-> generation]]
    /\ slotLock' = NoRun /\ active' = NoRun
Finish(r) ==
    /\ pc' = [pc EXCEPT ![r] = "answer"]
    /\ outcome' = [outcome EXCEPT ![r] =
                      [state |-> IF Fresh(r) THEN "preserved" ELSE @.state,
                       state_reset |-> ~Fresh(r) /\ held[r] = r,
                       generation |-> generation]]
    /\ slotLock' = NoRun /\ active' = NoRun

PutBackAlways(r) ==                \* mutant: also after a cleared result
    /\ pc[r] = "settling" /\ ~Fresh(r)
    /\ Finish(r)
    /\ slot' = held[r]
    /\ held' = [held EXCEPT ![r] = NoRun]
    /\ UNCHANGED <<cancelled, proc, ranOn, firstOn>>
PutBack(r) ==
    /\ pc[r] = "settling" /\ ~Fresh(r) /\ outcome[r].state # "cleared"
    /\ Finish(r)
    /\ slot' = held[r]
    /\ held' = [held EXCEPT ![r] = NoRun]
    /\ UNCHANGED <<cancelled, proc, ranOn, firstOn>>

Retire(r) ==
    /\ Fresh(r) \/ outcome[r].state = "cleared"
    /\ Goto(r, "settling", "terminating")
    /\ UNCHANGED <<active, slot, slotLock, held, outcome, cancelled, proc, ranOn, firstOn>>

Terminated(r) ==
    /\ pc[r] = "terminating"
    /\ Finish(r)
    /\ Kill(r)
    /\ UNCHANGED <<slot, cancelled, ranOn, firstOn>>

ExecutionFrame == UNCHANGED <<busy, records, generation, background, request, woken,
                              handle, requestCancelled, aborted, gen, close>>

Execution(r) ==
    /\ \/ CancelDispatch(r) \/ Send(r) \/ Sent(r) \/ SendFails(r) \/ Interrupt(r)
       \/ GraceExpires(r) \/ PutBack(r) \/ Retire(r) \/ Terminated(r)
    /\ ExecutionFrame

\* Only the worker decides whether and when these happen.
WorkerEvent(r) == (WorkerResult(r) \/ WorkerLost(r)) /\ ExecutionFrame

-----------------------------------------------------------------------------
(* Completion: the answer, the record, and Reservation::drop.                *)

AnswerAndRelease(r) ==             \* mutant: releases the slot before recording
    /\ Goto(r, "answer", "record")
    /\ active' = NoRun /\ busy' = FALSE
    /\ UNCHANGED <<records, outcome, woken>>
Answer(r) ==
    /\ Goto(r, "answer", "record")
    /\ active' = NoRun
    /\ UNCHANGED <<busy, records, outcome, woken>>

Record(r) ==
    /\ Goto(r, "record", "dropping")
    /\ Log(r)
    /\ UNCHANGED <<busy, active, outcome, woken>>

\* A run that is still active here was abandoned.
DropReservation(r) ==
    /\ Goto(r, "dropping", IF active # NoRun /\ Recorded(r) THEN "recordAbandoned"
                                                            ELSE "release")
    /\ active' = NoRun
    /\ UNCHANGED <<busy, records, outcome, woken>>

RecordAbandoned(r) ==
    /\ Goto(r, "recordAbandoned", "release")
    /\ Conclude(r, "cleared")
    /\ Log(r)
    /\ UNCHANGED <<busy, active, woken>>

Release(r) ==
    /\ Goto(r, "release", "notify")
    /\ busy' = FALSE
    /\ UNCHANGED <<active, records, outcome, woken>>

\* notify_waiters reaches every request that has registered.
RegisteredLate(q) == pc[q] = "wait" \* mutant: registers after trying to reserve
Registered(q) == ~Background(q) /\ pc[q] \in {"reserve", "inspect", "wait"}

Notify(r) ==
    /\ Goto(r, "notify", "done")
    /\ woken' = [q \in Runs |-> woken[q] \/ Registered(q)]
    /\ UNCHANGED <<busy, active, records, outcome>>

Completion(r) ==
    /\ \/ Answer(r) \/ Record(r) \/ DropReservation(r) \/ RecordAbandoned(r)
       \/ Release(r) \/ Notify(r)
    /\ UNCHANGED <<generation, slot, slotLock, background, request, handle, held, tokens,
                   worker, close>>

-----------------------------------------------------------------------------
(* A task dropped at an await point: its client went away, or shutdown aborts *)
(* it.  Drop order: ExecutionGuard, Worker, mutex guard, Reservation.         *)

\* A waiter owns nothing yet.
AbandonWait(r) ==
    /\ Goto(r, "wait", "done")
    /\ UNCHANGED <<active, records, slotLock, held, outcome, cancelled, proc>>

\* No guard yet: Reservation::drop will find the run still active.
AbandonPreparing(r) ==
    /\ pc[r] \in {"stopping", "spawning"}
    /\ pc' = [pc EXCEPT ![r] = "dropping"]
    /\ Kill(r)
    /\ slotLock' = NoRun
    /\ UNCHANGED <<active, records, outcome, cancelled>>

\* The guard kills, records and cancels while armed, and only retracts the
\* active run while the worker is being terminated.
AbandonGuarded(r) ==
    /\ pc[r] \in Armed \cup {"terminating"}
    /\ pc' = [pc EXCEPT ![r] = "dropping"]
    /\ Kill(r)
    /\ IF pc[r] \in Armed
       THEN /\ Conclude(r, IF Fresh(r) THEN "preserved" ELSE "cleared")
            /\ cancelled' = [cancelled EXCEPT ![r] = TRUE]
            /\ Log(r)
       ELSE UNCHANGED <<outcome, cancelled, records>>
    /\ slotLock' = NoRun
    /\ active' = NoRun

Abandon(r) ==
    /\ IF Background(r) THEN aborted[r] ELSE "drop" \in Events
    /\ AbandonWait(r) \/ AbandonPreparing(r) \/ AbandonGuarded(r)
    /\ UNCHANGED <<busy, generation, slot, background, request, woken, handle,
                   requestCancelled, aborted, gen, ranOn, firstOn, close>>

-----------------------------------------------------------------------------
(* close and shutdown.                                                       *)

CloserGoto(from, to) == closer = from /\ closer' = to

BeginClose ==
    /\ "close" \in Events
    /\ CloserGoto("open", "cancelling")
    /\ closed' = TRUE
    /\ UNCHANGED <<slot, slotLock, background, cancelled, aborted, proc, joining>>

CancelNothing ==                   \* mutant: close does not cancel the active run
    /\ CloserGoto("cancelling", "taking")
    /\ UNCHANGED <<closed, slot, slotLock, background, cancelled, aborted, proc, joining>>
CancelActive ==
    /\ CloserGoto("cancelling", "taking")
    /\ cancelled' = IF active = NoRun THEN cancelled ELSE [cancelled EXCEPT ![active] = TRUE]
    /\ UNCHANGED <<closed, slot, slotLock, background, aborted, proc, joining>>

TakeBackground ==
    /\ CloserGoto("taking", "joining")
    /\ joining' = background
    /\ background' = NoRun
    /\ UNCHANGED <<closed, slot, slotLock, cancelled, aborted, proc>>

Joined ==
    /\ joining # NoRun => pc[joining] = "done"
    /\ CloserGoto("joining", "locking")
    /\ UNCHANGED <<closed, slot, slotLock, background, cancelled, aborted, proc, joining>>

\* After five seconds the task is aborted, and its end is awaited.
JoinTimeout ==
    /\ closer = "joining" /\ joining # NoRun
    /\ pc[joining] # "done" /\ ~aborted[joining]
    /\ aborted' = [aborted EXCEPT ![joining] = TRUE]
    /\ UNCHANGED <<closed, closer, slot, slotLock, background, cancelled, proc, joining>>

CloserLockAnyway ==                \* mutant: does not wait for the mutex
    /\ CloserGoto("locking", "stopping")
    /\ slotLock' = Closer
    /\ UNCHANGED <<closed, slot, background, cancelled, aborted, proc, joining>>
CloserLock ==
    /\ slotLock = NoRun
    /\ CloserGoto("locking", "stopping")
    /\ slotLock' = Closer
    /\ UNCHANGED <<closed, slot, background, cancelled, aborted, proc, joining>>

KillSlot == /\ proc' = IF slot = NoRun THEN proc ELSE [proc EXCEPT ![slot] = "killed"]
            /\ slot' = NoRun

CloserStop ==
    /\ CloserGoto("stopping", "closed")
    /\ KillSlot
    /\ slotLock' = NoRun
    /\ UNCHANGED <<closed, background, cancelled, aborted, joining>>

\* The session has left the table of sessions: when the last request that holds
\* a reference ends, the Supervisor is dropped with the worker in its slot.
DropLeaks ==                       \* mutant: dropping a Worker kills nothing
    /\ \A r \in Runs : pc[r] \in {"idle", "done"} /\ handle[r] # "made"
    /\ CloserGoto("closed", "dropped")
    /\ UNCHANGED <<closed, slot, slotLock, background, cancelled, aborted, proc, joining>>
DropSupervisor ==
    /\ \A r \in Runs : pc[r] \in {"idle", "done"} /\ handle[r] # "made"
    /\ CloserGoto("closed", "dropped")
    /\ KillSlot
    /\ UNCHANGED <<closed, slotLock, background, cancelled, aborted, joining>>

Close ==
    /\ \/ BeginClose \/ CancelActive \/ TakeBackground \/ Joined \/ JoinTimeout
       \/ CloserLock \/ CloserStop \/ DropSupervisor
    /\ UNCHANGED <<busy, active, records, generation, pc, request, woken, handle, held,
                   outcome, requestCancelled, gen, ranOn, firstOn>>

-----------------------------------------------------------------------------
(* Environment: python_cancel, client cancellation, worker death.            *)

\* cancel: the run it names, or any, if that is the active one.
Cancel ==
    /\ "cancel" \in Events /\ active # NoRun
    /\ cancelled' = [cancelled EXCEPT ![active] = TRUE]
    /\ UNCHANGED <<requestCancelled, proc>>

CancelRequest(r) ==
    /\ "cancel" \in Events /\ pc[r] \notin {"idle", "done"} /\ ~Background(r)
    /\ requestCancelled' = [requestCancelled EXCEPT ![r] = TRUE]
    /\ UNCHANGED <<cancelled, proc>>

WorkerExits(w) ==
    /\ "exit" \in Events /\ proc[w] = "up"
    /\ proc' = [proc EXCEPT ![w] = "exited"]
    /\ UNCHANGED <<cancelled, requestCancelled>>

\* The reader task sees the end of the worker's stdout and clears `live`.
ReaderEof(w) ==
    /\ proc[w] = "exited"
    /\ proc' = [proc EXCEPT ![w] = "eof"]
    /\ UNCHANGED <<cancelled, requestCancelled>>

Outer == UNCHANGED <<busy, active, records, generation, slot, slotLock, background, pc, request,
                     woken, handle, held, outcome, aborted, gen, ranOn, firstOn, close>>

Environment ==
    /\ Cancel \/ \E r \in Runs : CancelRequest(r) \/ WorkerExits(r) \/ ReaderEof(r)
    /\ Outer

-----------------------------------------------------------------------------
Step(r) == Admission(r) \/ Preparation(r) \/ Execution(r) \/ Completion(r)

Arrival(r) == /\ Arrive(r)
              /\ UNCHANGED <<records, generation, slot, slotLock, held, outcome, tokens,
                             worker, close>>

\* The session is gone, or open with every request answered.
Quiescent == /\ \/ closer = "dropped"
                \/ closer = "open" /\ \A r \in Runs : pc[r] = "done" /\ handle[r] # "made"
             /\ UNCHANGED vars

Next == \/ \E r \in Runs : Arrival(r) \/ Step(r) \/ WorkerEvent(r) \/ Abandon(r)
        \/ Close \/ Environment \/ Quiescent

Spec == Init /\ [][Next]_vars

\* Tasks are polled, every await in them has a deadline, the reader sees the end
\* of a pipe, and a close once begun goes on.  Nothing is assumed of clients or
\* of the worker: a cell that never ends is left to its deadline.
Fairness == /\ \A r \in Runs : WF_vars(Step(r))
            /\ \A w \in Runs : WF_vars(ReaderEof(w) /\ Outer)
            /\ WF_vars(closer # "open" /\ Close)

FairSpec == Spec /\ Fairness

-----------------------------------------------------------------------------
(* Properties.                                                               *)

RunOrNone == Runs \cup {NoRun}

\* Type invariant of the session's state and of every request's local state.
TypeOK ==
    /\ busy \in BOOLEAN /\ closed \in BOOLEAN
    /\ active \in RunOrNone /\ slot \in RunOrNone /\ background \in RunOrNone
    /\ joining \in RunOrNone
    /\ slotLock \in RunOrNone \cup {Closer}
    /\ generation \in Nat
    /\ records \in Seq(Runs)
    /\ pc \in [Runs -> PC]
    /\ request \in [Runs -> Request]
    /\ woken \in [Runs -> BOOLEAN]
    /\ cancelled \in [Runs -> BOOLEAN] /\ requestCancelled \in [Runs -> BOOLEAN]
    /\ aborted \in [Runs -> BOOLEAN]
    /\ handle \in [Runs -> {"none", "made", "stored"}]
    /\ held \in [Runs -> RunOrNone]
    /\ outcome \in [Runs -> Outcome]
    /\ proc \in [Runs -> ProcState]
    /\ gen \in [Runs -> Nat]
    /\ closer \in {"open", "cancelling", "taking", "joining", "locking", "stopping",
                   "closed", "dropped"}
    /\ ranOn \in [Runs -> RunOrNone] /\ firstOn \in [Runs -> RunOrNone]

\* One cell at a time: the busy flag is set exactly while one request owns the
\* reservation, and only that request is visible as the active run.
SingleFlight ==
    /\ \A r, q \in Runs : Owner(r) /\ Owner(q) => r = q
    /\ busy <=> \E r \in Runs : Owner(r)
    /\ active # NoRun => Owner(active)

\* The worker mutex is held by the one request that prepares or runs a cell, or
\* by the closing task, never by both.
SlotExclusive ==
    /\ \A r \in Runs : pc[r] \in Locking <=> slotLock = r
    /\ slotLock = Closer <=> closer = "stopping"

\* Every live worker process has an owner that will end it: the slot, or the
\* one request that holds it.  Two persistent namespaces never live at once.
NoOrphanWorker ==
    /\ \A w \in Runs : Running(w) =>
          slot = w \/ \E r \in Runs : pc[r] \in Locking /\ held[r] = w
    /\ \A v, w \in Runs : Running(v) /\ Running(w) /\ ~Fresh(v) /\ ~Fresh(w) => v = w

\* A request that waits for the reservation is never left asleep: while it has
\* no notification, someone still owes it one.
NoLostWakeup ==
    \A r \in Runs : pc[r] = "wait" /\ ~woken[r] =>
        busy \/ \E q \in Runs : pc[q] = "notify"

\* expected_generation is optimistic concurrency control: a cell that states one
\* runs in that generation, or in the one its own reset or first start created.
ExpectedGenerationHonoured ==
    \A r \in Runs :
        LET e == request[r].expected
        IN  ranOn[r] # NoRun /\ ~Fresh(r) /\ e # AnyGeneration =>
                IF request[r].reset \/ e = 0 THEN gen[ranOn[r]] = e + 1
                                             ELSE gen[ranOn[r]] = e

\* What a dispatched cell reports is what happened to its namespace: preserved
\* means its worker is back in the slot (unless the session is being closed),
\* cleared means nothing survives, the generation names the worker it ran on, and
\* state_reset is never a false alarm: the cell was the first of its namespace.
Reported(r) == pc[r] \in {"answer", "record", "dropping", "release"}
TruthfulState ==
    \A r \in Runs : Reported(r) /\ ranOn[r] # NoRun /\ ~Fresh(r) =>
        /\ outcome[r].generation = gen[ranOn[r]]
        /\ outcome[r].state = "cleared" => slot = NoRun
        /\ outcome[r].state = "preserved" =>
              slot = ranOn[r] \/ closer \in {"stopping", "closed"}
        /\ outcome[r].state_reset /\ Recorded(r) => firstOn[ranOn[r]] = r

\* A run started in the background is found by python_run once it has ended,
\* unless newer runs pushed it out of the history or shutdown aborted it.
CompletedRunRetained ==
    \A r \in Runs :
        /\ Background(r) /\ pc[r] = "done" /\ outcome[r] # NoOutcome /\ ~aborted[r]
        => Status(r) = "retained" \/ Len(records) = HistoryLimit

\* Once close() has returned, no cell reaches a worker of the session.
NoExecutionAfterClose ==
    [][(closer \in {"closed", "dropped"}) => UNCHANGED ranOn]_vars

\* Every request is answered or dropped, whatever the worker and the clients do.
RequestsEnd == \A r \in Runs : pc[r] # "idle" ~> pc[r] = "done"

\* A closed session ends up with no live worker, for good.
CloseReaps == closed ~> [](\A w \in Runs : ~Running(w))

\* The session implements the lane its callers are promised.
Occupant == IF \E r \in Runs : Owner(r) THEN CHOOSE r \in Runs : Owner(r) ELSE NoRun
StageOf(r) == IF Owner(r) THEN IF ranOn[r] = NoRun THEN "admitted" ELSE "executed"
              ELSE IF pc[r] \in {"notify", "done"} THEN "over" ELSE "new"
Lane == INSTANCE CellLane WITH current <- Occupant, namespace <- generation,
                               stage <- [r \in Runs |-> StageOf(r)]
ImplementsLane == Lane!LaneSpec

-----------------------------------------------------------------------------
(* What the documentation says and the code does not do.                     *)

\* README.md:79 "`state_reset` reports a fresh/reset/recovered namespace before
\* that cell": a completed first cell of a namespace reports it.
StateResetReported ==
    \A r \in Runs : /\ pc[r] = "done" /\ outcome[r].state = "preserved"
                    /\ ranOn[r] # NoRun /\ ~Fresh(r) /\ firstOn[ranOn[r]] = r
                    => outcome[r].state_reset

\* README.md:87-88 "poll `python_run(run_id)` until completion": an admitted
\* background run is visible at every moment, as active or as retained.
StartedRunVisible ==
    \A r \in Runs : Background(r) /\ handle[r] = "stored" /\ ~aborted[r] =>
        Status(r) # "not found" \/ Len(records) = HistoryLimit

=============================================================================

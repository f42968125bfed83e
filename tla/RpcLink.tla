-------------------------------- MODULE RpcLink --------------------------------
(*****************************************************************************)
(* One worker and its supervisor, and the two pipes between them:            *)
(* native/src/supervisor.rs (reader, RPC tasks, frame writer, the part of    *)
(* execute_inner that owns a worker) and src/repl_mcp/native_worker.py (rpc, *)
(* reader, the end of a cell).                                               *)
(*                                                                           *)
(* A cell asks for calls of downstream tools in `rpc` frames.  The reader    *)
(* authorises each against the run that has the worker, spawns a task for it *)
(* and enters the task's abort handle into a table; the run drains the table *)
(* when it is interrupted and when it ends.  Every reply goes through the    *)
(* frame writer, whose queue is the only way to the worker's stdin.          *)
(*                                                                           *)
(* The two checks and the spawn of a task touch different locks and are      *)
(* steps of their own.  Output events, the memory watch and the worker's own *)
(* children are left out.  An abort takes effect at the next await of the    *)
(* task; what the task does until then counts as before the abort.           *)
(*****************************************************************************)
EXTENDS Integers, FiniteSets, Sequences

CONSTANTS Runs, Calls,
          Home,        \* the run whose code makes each call
          NoRun, NoCall,
          Limit,       \* calls a worker and its supervisor have pending (64 in the code)
          QueueLimit,  \* frames queued for the worker (4)
          PipeLimit    \* frames a pipe holds

ASSUME RpcLinkAssumption ==
    /\ IsFiniteSet(Calls) /\ Home \in [Calls -> Runs]
    /\ NoRun \notin Runs /\ NoCall \notin Calls
    /\ {Limit, QueueLimit, PipeLimit} \subseteq Nat \ {0}

VARIABLES
    \* the Python process
    process,   \* its main thread: "idle", "executing", "ending", "dead"
    cell,      \* Worker.run_id
    future,    \* each call: "none", "waiting", "answered", "cancelled"
    unsent,    \* calls whose rpc frame is not written yet
    cancels,   \* calls whose rpc_cancel frame is not written yet
    fatal,     \* the cell has left a thread running
    sigint,    \* an interrupt is pending
    \* the pipes
    up,        \* frames from the worker, Read in order
    torn,      \* the worker has written a frame in part
    queue,     \* frames accepted by the frame writer
    writer,    \* the frame writer: "idle", "writing", "stopped"
    down,      \* frames in the worker's stdin, whole or in part
    \* the supervisor
    exec,      \* where the run that owns the worker stands
    current,   \* that run
    run,       \* Worker.run, what the reader authorises against
    cancelled, \* its cancellation token
    reader,    \* where the reader stands
    reading,   \* the call it is at
    task,      \* each call: "none", "running", "replying", "sent", "finished", "aborted"
    handles,   \* calls with an abort handle in the table
    event,     \* the result event each run has been sent
    alive,     \* the Worker has not been dropped
    outcome    \* how each run has ended

python == <<process, cell, future, unsent, cancels, fatal, sigint>>
pipes  == <<up, torn, queue, writer, down>>
owner  == <<exec, current, run, cancelled, outcome, alive>>
rpcs   == <<reader, reading, task, handles, event>>
vars   == <<python, pipes, owner, rpcs>>

Init ==
    /\ process = "idle" /\ cell = NoRun
    /\ future = [c \in Calls |-> "none"]
    /\ unsent = {} /\ cancels = {} /\ fatal = FALSE /\ sigint = FALSE
    /\ up = <<>> /\ torn = FALSE /\ queue = <<>> /\ writer = "idle" /\ down = <<>>
    /\ exec = "idle" /\ current = NoRun /\ run = NoRun /\ cancelled = FALSE
    /\ reader = "idle" /\ reading = NoCall
    /\ task = [c \in Calls |-> "none"] /\ handles = {}
    /\ event = [r \in Runs |-> "none"] /\ alive = TRUE
    /\ outcome = [r \in Runs |-> "none"]

\* The process ends, and its memory and its end of the pipes with it.
Dies == /\ process' = "dead" /\ cell' = NoRun
        /\ unsent' = {} /\ cancels' = {} /\ fatal' = FALSE /\ sigint' = FALSE
        /\ down' = <<>>

-----------------------------------------------------------------------------
(* The frame writer: frame_writer and send.                                  *)

Execute(r) == [type |-> "execute", id |-> r]
Reply(c) == [type |-> "reply", id |-> c]
Frame == [type : {"execute"}, id : Runs] \cup [type : {"reply"}, id : Calls]

Queued(f) == \E i \in 1..Len(queue) : queue[i] = f

\* The first half of send: a place in the queue of a writer that is not gone.
Enqueue(f) == /\ writer # "stopped" /\ Len(queue) < QueueLimit
              /\ queue' = Append(queue, f)

\* The frame in front stays in the queue while it is written.
WriteBegin ==
    /\ writer = "idle" /\ process # "dead" /\ queue # <<>> /\ Len(down) < PipeLimit
    /\ down' = Append(down, [frame |-> Head(queue), whole |-> FALSE])
    /\ writer' = "writing"
    /\ UNCHANGED <<python, queue>>

WriteEnd ==
    /\ writer = "writing" /\ process # "dead"
    /\ down' = [down EXCEPT ![Len(down)].whole = TRUE]
    /\ queue' = Tail(queue)
    /\ writer' = "idle"
    /\ UNCHANGED python

\* A worker that is gone, or does not read for five seconds, is killed.
WriteFailGoesOn ==                 \* mutant: gives up the frame only
    /\ writer = "writing"
    /\ queue' = Tail(queue)
    /\ writer' = "idle"
    /\ UNCHANGED <<python, down>>
WriteFail ==
    /\ writer = "writing" \/ (process = "dead" /\ writer = "idle" /\ queue # <<>>)
    /\ queue' = <<>>
    /\ writer' = "stopped"
    /\ Dies /\ UNCHANGED future

FrameWriter == /\ WriteBegin \/ WriteEnd \/ WriteFail
               /\ UNCHANGED <<up, torn, owner, rpcs>>

-----------------------------------------------------------------------------
(* The Python process.                                                       *)

Pending == {c \in Calls : future[c] = "waiting"}

\* Worker.reader, on a thread of its own.  An interrupt that is still pending when
\* the next cell starts meets a worker that is not executing.
ReadCommand ==
    /\ process # "dead" /\ down # <<>> /\ Head(down).whole
    /\ down' = Tail(down)
    /\ LET f == Head(down).frame IN
          \/ /\ f.type = "execute"
             /\ process' = "executing" /\ cell' = f.id
             /\ sigint' = FALSE
             /\ UNCHANGED future
          \/ /\ f.type = "reply"
             /\ future' = [future EXCEPT ![f.id] = IF @ = "waiting" THEN "answered" ELSE @]
             /\ UNCHANGED <<process, cell, sigint>>
    /\ UNCHANGED <<unsent, cancels, fatal, up, torn>>

\* rpc: the call is registered, then its frame is written.
Call(c) ==
    /\ process = "executing" /\ cell = Home[c] /\ future[c] = "none"
    /\ Cardinality(Pending) < Limit
    /\ future' = [future EXCEPT ![c] = "waiting"]
    /\ unsent' = unsent \cup {c}
    /\ UNCHANGED <<process, cell, cancels, fatal, sigint, up, torn, down>>

\* What is written after a frame that is torn ends up in the same line.
Write(f) == /\ process # "dead" /\ Len(up) < PipeLimit
            /\ up' = Append(up, IF torn THEN [type |-> "garbled", id |-> f.id] ELSE f)
            /\ torn' = FALSE

Rpc(c) == [type |-> "rpc", id |-> c]
Cancel(c) == [type |-> "cancel", id |-> c]
Result(r) == [type |-> IF fatal THEN "fatal" ELSE "result", id |-> r]

SendCall(c) ==
    /\ c \in unsent /\ Write(Rpc(c))
    /\ unsent' = unsent \ {c}
    /\ cancels' = IF future[c] = "cancelled" THEN cancels \cup {c} ELSE cancels
    /\ UNCHANGED <<process, cell, future, fatal, sigint, down>>

\* A call is given up by the code that waits for it, or passes its deadline.
CancelCall(c) ==
    /\ process = "executing" /\ future[c] = "waiting" /\ c \notin unsent
    /\ future' = [future EXCEPT ![c] = "cancelled"]
    /\ cancels' = cancels \cup {c}
    /\ UNCHANGED <<process, cell, unsent, fatal, sigint, up, torn, down>>

SendCancel(c) ==
    /\ c \in cancels /\ Write(Cancel(c))
    /\ cancels' = cancels \ {c}
    /\ UNCHANGED <<process, cell, future, unsent, fatal, sigint, down>>

\* The end of execute: a thread that is still writing is fatal, and the calls still
\* pending are cancelled.
EndCell ==
    /\ process = "executing"
    /\ process' = "ending"
    /\ fatal' = (unsent # {})
    /\ future' = [c \in Calls |-> IF c \in Pending THEN "cancelled" ELSE future[c]]
    /\ cancels' = cancels \cup (Pending \ unsent)
    /\ UNCHANGED <<cell, unsent, sigint, up, torn, down>>

SendResult ==
    /\ process = "ending" /\ (fatal \/ cancels = {}) /\ Write(Result(cell))
    /\ IF fatal THEN Dies
       ELSE process' = "idle" /\ cell' = NoRun /\ UNCHANGED <<unsent, cancels, fatal, sigint, down>>
    /\ UNCHANGED future

\* An interrupt meets the main thread outside of a write ...
Interrupted ==
    /\ process # "dead" /\ sigint
    /\ sigint' = FALSE
    /\ UNCHANGED <<process, cell, future, unsent, cancels, fatal, up, torn, down>>

\* ... or ends a write that the pipe has taken in part; nobody writes the rest.
Tear ==
    /\ process # "dead" /\ sigint
    /\ sigint' = FALSE /\ torn' = TRUE
    /\ \/ \E c \in unsent : /\ process = "executing"
                            /\ unsent' = unsent \ {c}
                            /\ future' = [future EXCEPT ![c] = "cancelled"]
                            /\ UNCHANGED <<process, cell, cancels>>
       \/ \E c \in cancels : cancels' = cancels \ {c} /\ UNCHANGED <<process, cell, future, unsent>>
       \/ /\ process = "ending" /\ cancels = {} /\ ~fatal
          /\ process' = "idle" /\ cell' = NoRun
          /\ UNCHANGED <<future, unsent, cancels>>
    /\ UNCHANGED <<fatal, up, down>>

\* The process crashes, or its stdin is closed.
Exit ==
    /\ process # "dead" /\ Dies
    /\ UNCHANGED <<future, up, torn>>

Python == /\ \/ ReadCommand \/ EndCell \/ SendResult \/ Interrupted \/ Tear \/ Exit
             \/ \E c \in Calls : Call(c) \/ SendCall(c) \/ CancelCall(c) \/ SendCancel(c)
          /\ UNCHANGED <<queue, writer, owner, rpcs>>

-----------------------------------------------------------------------------
(* The reader and the RPC tasks.                                             *)

Unfinished == {c \in Calls : task[c] \in {"running", "replying", "sent"}}

Aborted(S) == [c \in Calls |-> IF c \in S /\ c \in Unfinished THEN "aborted" ELSE task[c]]

\* The first check of an rpc frame; everything else a frame can be.
CancelForgets ==                   \* mutant: leaves the task to itself
    /\ reader = "idle" /\ up # <<>> /\ up' = Tail(up)
    /\ LET f == Head(up) IN
          /\ f.type = "cancel"
          /\ handles' = IF run = Home[f.id] THEN handles \ {f.id} ELSE handles
    /\ UNCHANGED <<reader, reading, event, task>>
CancelFrame ==
    /\ reader = "idle" /\ up # <<>> /\ up' = Tail(up)
    /\ LET f == Head(up) IN
          /\ f.type = "cancel"
          /\ IF run = Home[f.id] /\ f.id \in handles
             THEN handles' = handles \ {f.id} /\ task' = Aborted({f.id})
             ELSE UNCHANGED <<handles, task>>
    /\ UNCHANGED <<reader, reading, event>>

Authorised(c) == run = Home[c] /\ ~cancelled

RpcFrame ==
    /\ reader = "idle" /\ up # <<>> /\ up' = Tail(up)
    /\ LET f == Head(up) IN
          /\ f.type = "rpc"
          /\ reader' = IF Authorised(f.id) THEN "checked" ELSE "refusing"
          /\ reading' = f.id
    /\ UNCHANGED <<handles, event, task>>

OtherFrame ==
    /\ reader = "idle" /\ up # <<>> /\ up' = Tail(up)
    /\ LET f == Head(up) IN
          \/ /\ f.type \in {"result", "fatal"}
             /\ event' = [event EXCEPT ![f.id] = f.type]
             /\ UNCHANGED reader
          \/ f.type = "garbled" /\ reader' = "ended" /\ UNCHANGED event
    /\ UNCHANGED <<reading, handles, task>>

Eof ==
    /\ reader = "idle" /\ up = <<>> /\ process = "dead"
    /\ reader' = "ended"
    /\ UNCHANGED <<up, reading, handles, event, task>>

\* The second check forgets finished tasks first.
RetainRunning == {c \in handles : task[c] = "running"}   \* mutant: forgets those that reply
Retained == handles \cap Unfinished

\* After the reader has been aborted it stops where it would wait.
Spawn ==
    /\ reader = "checked"
    /\ IF Cardinality(Retained) >= Limit
       THEN /\ reader' = IF alive THEN "refusing" ELSE "ended"
            /\ UNCHANGED task
       ELSE reader' = "spawned" /\ task' = [task EXCEPT ![reading] = "running"]
    /\ handles' = Retained
    /\ UNCHANGED <<up, reading, event>>

InsertForgotten ==                 \* mutant: forgets the call before it enters the handle
    /\ reader = "spawned"
    /\ reading' = NoCall
    /\ handles' = handles \cup {reading'}
    /\ reader' = IF alive THEN "idle" ELSE "ended"
    /\ UNCHANGED <<up, event, task>>
Insert ==
    /\ reader = "spawned"
    /\ handles' = handles \cup {reading}
    /\ reader' = IF alive THEN "idle" ELSE "ended"
    /\ reading' = NoCall
    /\ UNCHANGED <<up, event, task>>

Refuse ==
    /\ reader = "refusing" /\ Enqueue(Reply(reading))
    /\ reader' = "refused"
    /\ UNCHANGED <<up, reading, handles, event, task>>

\* The refusal is written, or its deadline passes.
Refused ==
    /\ reader \in {"refusing", "refused"}
    /\ reader' = "idle" /\ reading' = NoCall
    /\ UNCHANGED <<up, handles, event, task>>

Reading == \/ CancelFrame \/ RpcFrame \/ OtherFrame \/ Eof \/ Spawn \/ Insert \/ Refused
Reader == /\ (Reading /\ UNCHANGED queue) \/ Refuse
          /\ UNCHANGED <<python, torn, writer, down, owner>>

\* A task: the call, a place for its reply, the end of the reply or its deadline.
Answer(c) == task[c] = "running" /\ task' = [task EXCEPT ![c] = "replying"] /\ UNCHANGED queue
SendReply(c) == /\ task[c] = "replying" /\ Enqueue(Reply(c))
                /\ task' = [task EXCEPT ![c] = "sent"]
Finish(c) == /\ task[c] \in {"replying", "sent"}
             /\ task' = [task EXCEPT ![c] = "finished"]
             /\ UNCHANGED queue

Task(c) == /\ Answer(c) \/ SendReply(c) \/ Finish(c)
           /\ UNCHANGED <<python, up, torn, writer, down, owner, reader, reading, handles, event>>

-----------------------------------------------------------------------------
(* The run that owns the worker: execute_inner.                              *)

Becomes(to) == exec' = to /\ UNCHANGED <<current, alive>>
End(how) == outcome' = [outcome EXCEPT ![current] = how] /\ Becomes("ending")
Drained == task' = Aborted(handles) /\ handles' = {}

Begin(r) ==
    /\ exec = "idle" /\ alive /\ reader # "ended" /\ outcome[r] = "none"
    /\ exec' = "queueing" /\ current' = r /\ run' = r /\ cancelled' = FALSE
    /\ UNCHANGED <<alive, outcome, task, handles, sigint, queue, writer>>

QueueCell ==
    /\ exec = "queueing" /\ Enqueue(Execute(current)) /\ Becomes("sent")
    /\ UNCHANGED <<run, cancelled, outcome, task, handles, sigint, writer>>

CellSent ==
    /\ exec = "sent" /\ writer # "stopped" /\ ~Queued(Execute(current)) /\ Becomes("running")
    /\ UNCHANGED <<run, cancelled, outcome, task, handles, sigint, queue, writer>>

CellNotSent ==
    /\ exec \in {"queueing", "sent"} /\ End("unsent")
    /\ UNCHANGED <<run, cancelled, task, handles, sigint, queue, writer>>

\* The result, the end of the events, or the end of the grace period.
Receive ==
    /\ exec \in {"running", "interrupted"}
    /\ \/ event[current] = "result" /\ End("preserved")
       \/ event[current] = "fatal" /\ End("fatal")
       \/ event[current] = "none" /\ reader = "ended" /\ End("gone")
       \/ exec = "interrupted" /\ End("overdue")
    /\ UNCHANGED <<run, cancelled, task, handles, sigint, queue, writer>>

\* Somebody cancels the token.
RequestCancel ==
    /\ exec = "running" /\ ~cancelled /\ cancelled' = TRUE
    /\ UNCHANGED <<exec, current, alive, run, outcome, task, handles, sigint, queue, writer>>

\* The token or the deadline of the cell is noticed.
Interrupt ==
    /\ exec = "running" /\ Becomes("interrupted")
    /\ cancelled' = TRUE /\ sigint' = (process # "dead") /\ Drained
    /\ UNCHANGED <<run, outcome, queue, writer>>

DrainNothing ==                    \* mutant: relies on the first drain
    /\ exec = "ending" /\ Becomes("clearing")
    /\ UNCHANGED <<task, handles, run, cancelled, outcome, sigint, queue, writer>>
Drain ==
    /\ exec = "ending" /\ Becomes("clearing") /\ Drained
    /\ UNCHANGED <<run, cancelled, outcome, sigint, queue, writer>>

Clear ==
    /\ exec = "clearing" /\ Becomes("settling")
    /\ run' = NoRun
    /\ UNCHANGED <<cancelled, outcome, task, handles, sigint, queue, writer>>

\* A worker whose namespace is preserved goes back to the slot.
Settle ==
    /\ exec = "settling"
    /\ IF outcome[current] = "preserved"
       THEN exec' = "idle" /\ current' = NoRun /\ UNCHANGED <<queue, writer>>
       ELSE exec' = "terminating" /\ UNCHANGED current /\ queue' = <<>> /\ writer' = "stopped"
    /\ UNCHANGED <<alive, run, cancelled, outcome, task, handles, sigint>>

\* A worker in the slot is stopped by a reset, a close or a shutdown.
Retire ==
    /\ exec = "idle" /\ alive
    /\ exec' = "terminating" /\ queue' = <<>> /\ writer' = "stopped"
    /\ UNCHANGED <<current, alive, run, cancelled, outcome, task, handles, sigint>>

\* Worker::drop, after its termination or with the future that owns it.
Awaits == {"queueing", "sent", "running", "interrupted", "settling", "terminating"}
Drop ==
    /\ exec \in Awaits /\ exec' = "over" /\ alive' = FALSE
    /\ current' = NoRun /\ run' = NoRun /\ cancelled' = TRUE
    /\ outcome' = [r \in Runs |-> IF r = current /\ outcome[r] = "none" THEN "abandoned"
                                  ELSE outcome[r]]
    /\ Drained
    /\ queue' = <<>> /\ writer' = "stopped"

Owner == \/ QueueCell \/ CellSent \/ CellNotSent \/ Receive \/ RequestCancel \/ Interrupt
         \/ Drain \/ Clear \/ Settle \/ Retire \/ \E r \in Runs : Begin(r)

Run == /\ \/ /\ Owner
             /\ UNCHANGED <<process, cell, unsent, cancels, fatal, up, down, reader>>
          \/ /\ Drop /\ Dies /\ up' = <<>>
             /\ reader' = IF reader \in {"checked", "spawned"} THEN reader ELSE "ended"
       /\ UNCHANGED <<future, torn, reading, event>>

-----------------------------------------------------------------------------
Stopped == ~alive /\ reader = "ended" /\ Unfinished = {} /\ UNCHANGED vars

Next == FrameWriter \/ Python \/ Reader \/ (\E c \in Calls : Task(c)) \/ Run \/ Stopped

Spec == Init /\ [][Next]_vars

-----------------------------------------------------------------------------
(* Properties.                                                               *)

\* Type invariant.
TypeOK ==
    /\ process \in {"idle", "executing", "ending", "dead"} /\ cell \in Runs \cup {NoRun}
    /\ future \in [Calls -> {"none", "waiting", "answered", "cancelled"}]
    /\ unsent \subseteq Calls /\ cancels \subseteq Calls
    /\ fatal \in BOOLEAN /\ sigint \in BOOLEAN /\ torn \in BOOLEAN
    /\ up \in Seq([type : {"rpc", "cancel", "result", "fatal", "garbled"}, id : Calls \cup Runs])
    /\ queue \in Seq(Frame) /\ down \in Seq([frame : Frame, whole : BOOLEAN])
    /\ writer \in {"idle", "writing", "stopped"}
    /\ exec \in Awaits \cup {"idle", "ending", "clearing", "over"}
    /\ current \in Runs \cup {NoRun} /\ run \in Runs \cup {NoRun}
    /\ cancelled \in BOOLEAN /\ alive \in BOOLEAN
    /\ reader \in {"idle", "checked", "refusing", "refused", "spawned", "ended"}
    /\ reading \in Calls \cup {NoCall}
    /\ task \in [Calls -> {"none", "running", "replying", "sent", "finished", "aborted"}]
    /\ handles \subseteq Calls
    /\ event \in [Runs -> {"none", "result", "fatal"}]
    /\ outcome \in [Runs -> {"none", "preserved", "fatal", "gone", "overdue", "unsent",
                             "abandoned"}]

\* A worker goes to its next run without a call of an earlier one: the frames of a
\* run's calls are read before its result, and the run drains the table after that.
\* What it reads is a sequence of whole frames: only the last can be in part.
KeptWorkerIsQuiet ==
    /\ exec \in {"idle", "queueing"} /\ alive =>
           /\ Unfinished = {} /\ reader \notin {"checked", "spawned"}
           /\ \A i \in 1..Len(up) : up[i].type # "rpc"
    /\ \A i \in 1..Len(down) - 1 : down[i].whole

\* Every task of the worker can be aborted, and no more run than the limit.
TasksAreOwned ==
    alive => /\ Unfinished \subseteq handles \cup {reading}
             /\ Cardinality(Unfinished) <= Limit

\* A call its cell has given up is carried on with only while the word of it is
\* on the way, or the run is about to end, which drains the table or the worker.
GivenUpCallStops ==
    \A c \in Unfinished : future[c] = "cancelled" /\ alive =>
        \/ c \in cancels \/ \E i \in 1..Len(up) : up[i] = Cancel(c)
        \/ process = "dead" \/ cancelled
        \/ exec \in {"ending", "clearing", "settling", "terminating"}

\* README.md:81: "Normal interruption preserves variables; crashes or forced termination"
\* clear them: a worker counts as gone only if its process is.
GoneMeansExited == \A r \in Runs : outcome[r] = "gone" => process = "dead"
=============================================================================

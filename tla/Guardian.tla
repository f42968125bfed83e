------------------------------- MODULE Guardian -------------------------------
(*****************************************************************************)
(* One guardian with the process it owns: native/src/guardian.rs, the launch *)
(* and the end of a worker in supervisor.rs (spawn_guardian, terminate, drop *)
(* of Worker) and the processes a cell starts in groups of their own         *)
(* (native_worker.py).                                                       *)
(*                                                                           *)
(* Guardian and child are one process group.  A job is a detached group that *)
(* the child has started and reports; the guardian reads the child's frames, *)
(* registers jobs and hands the frames on to the server, which registers     *)
(* them, too.  What else the frames say, and stderr, is left out.            *)
(*****************************************************************************)
EXTENDS Naturals, Sequences

CONSTANTS Jobs,      \* detached groups
          None,
          UpLimit,   \* frames in the pipe from the child
          OutLimit   \* frames in the pipe to the server

ASSUME GuardianAssumption ==
    None \notin Jobs /\ {UpLimit, OutLimit} \subseteq Nat \ {0}

VARIABLES
    server,    \* the server process: "up", "gone"
    owner,     \* its handle of the guardian
    unreaped,  \* Worker::alive
    stdin,     \* its end of the guardian's stdin: "open", "closed"
    header,    \* the command has been written
    known,     \* jobs the server has registered
    guardian,  \* where the guardian is
    stop,      \* its cancellation token
    watching,  \* its watcher
    backlog,   \* it holds input the child does not read
    output,    \* its output task: "reading", "writing", "stopped"
    frame,     \* the frame that task holds
    table,     \* jobs it has registered
    child,     \* "none", "live", "dead"
    group,     \* each job: "none", "silent" before it is reported, "live", "dead", "freed"
    up, out,   \* the two pipes
    free,      \* the guardian is reaped and its id can be used again
    swept,     \* history: the guardian has killed the jobs of its table
    read,      \* history: jobs whose start it had read by then
    heard,     \* history: jobs whose start the server has read
    stray      \* history: the server has signalled an id that was free

handle   == <<owner, unreaped, header, known>>
proxy    == <<stop, watching, backlog, output, frame, table>>
pipes    == <<up, out>>
history  == <<swept, read, heard>>
vars     == <<server, handle, stdin, guardian, proxy, child, group, pipes, free, history, stray>>

Init ==
    /\ server = "up" /\ owner = "launching" /\ unreaped = TRUE
    /\ stdin = "open" /\ header = FALSE /\ known = {}
    /\ guardian = "reading" /\ stop = FALSE /\ watching = TRUE
    /\ backlog = FALSE /\ output = "reading" /\ frame = None /\ table = {}
    /\ child = "none" /\ group = [j \in Jobs |-> "none"]
    /\ up = <<>> /\ out = <<>>
    /\ free = FALSE /\ stray = FALSE
    /\ swept = FALSE /\ read = {} /\ heard = {}

Event(action, j) == [action |-> action, job |-> j]
Registered(S, e) == IF e.action = "started" THEN S \cup {e.job} ELSE S \ {e.job}

\* SIGKILL to every group of S; one that has ended takes no notice.
Killed(S) == [j \in Jobs |-> IF j \in S /\ group[j] \in {"silent", "live"} THEN "dead" ELSE group[j]]

Dying == IF child = "live" THEN "dead" ELSE child

\* SIGKILL to the guardian's group.
SignalGuardian ==                  \* mutant: the process and not the group
    guardian' = "over" /\ stray' = (stray \/ free) /\ UNCHANGED child
SignalGroup ==
    guardian' = "over" /\ stray' = (stray \/ free) /\ child' = Dying

-----------------------------------------------------------------------------
(* The server: spawn_owned, the reader, an interrupt, terminate and drop.    *)

\* The command is written; then the guard of the launch is laid down.
Launch ==
    /\ owner = "launching"
    /\ \/ ~header /\ header' = TRUE /\ UNCHANGED owner
       \/ header /\ owner' = "held" /\ UNCHANGED header
    /\ UNCHANGED <<server, unreaped, stdin, known, guardian, child, group, out, free, heard, stray>>

\* The pipe is closed, five seconds are over, or the launch is abandoned.
LaunchFails ==
    /\ owner = "launching" /\ owner' = "dropped" /\ stdin' = "closed"
    /\ SignalGroup
    /\ UNCHANGED <<server, unreaped, header, known, group, out, free, heard>>

Hear ==
    /\ owner \in {"held", "closing", "waiting", "reaped"} /\ out # <<>>
    /\ known' = Registered(known, Head(out)) /\ out' = Tail(out)
    /\ heard' = IF Head(out).action = "started" THEN heard \cup {Head(out).job} ELSE heard
    /\ UNCHANGED <<server, owner, unreaped, stdin, header, guardian, child, group, free, stray>>

KillKnown == group' = Killed(known) /\ known' = {}

Interrupt ==
    /\ owner = "held" /\ KillKnown
    /\ UNCHANGED <<server, owner, unreaped, stdin, header, guardian, child, out, free, heard, stray>>

\* terminate: the writer of stdin ends, the jobs are killed, the guardian has three
\* seconds to end before its group is killed.
CloseInput ==
    /\ owner = "held" /\ owner' = "closing" /\ stdin' = "closed"
    /\ UNCHANGED <<server, unreaped, header, known, guardian, child, group, out, free, heard, stray>>

KillJobs ==
    /\ owner = "closing" /\ owner' = "waiting" /\ KillKnown
    /\ UNCHANGED <<server, unreaped, stdin, header, guardian, child, out, free, heard, stray>>

ForceEnd ==
    /\ owner = "waiting" /\ guardian # "over" /\ SignalGroup
    /\ UNCHANGED <<server, handle, stdin, group, out, free, heard>>

SettleForgets == UNCHANGED unreaped   \* mutant: does not note that the id is free
Settle == unreaped' = FALSE

Reap ==
    /\ owner = "waiting" /\ guardian = "over" /\ owner' = "reaped" /\ free' = TRUE
    /\ Settle
    /\ UNCHANGED <<server, stdin, header, known, guardian, child, group, out, heard, stray>>

\* The worker is dropped, after terminate or wherever its future is.
Drop ==
    /\ owner \in {"held", "closing", "waiting", "reaped"}
    /\ owner' = "dropped" /\ stdin' = "closed"
    /\ IF unreaped THEN SignalGroup ELSE UNCHANGED <<guardian, child, stray>>
    /\ KillKnown
    /\ UNCHANGED <<server, unreaped, header, out, free, heard>>

\* The server dies, and with it its ends of the pipes.
Crash ==
    /\ server' = "gone" /\ stdin' = "closed"
    /\ owner' = IF owner = "dropped" THEN owner ELSE "gone"
    /\ UNCHANGED <<unreaped, header, known, guardian, child, group, out, free, heard, stray>>

Server == /\ server = "up"
          /\ \/ Launch \/ LaunchFails \/ Hear \/ Interrupt
             \/ CloseInput \/ KillJobs \/ ForceEnd \/ Reap \/ Drop \/ Crash
          /\ UNCHANGED <<proxy, up, swept, read>>

-----------------------------------------------------------------------------
(* The guardian: owner().                                                    *)

\* A thread that waits for nothing but the end of the server's side of stdin.
HangupUnread == stdin = "closed" /\ ~backlog   \* mutant: sees it behind what is unread
Hangup == stdin = "closed"

Watch ==
    /\ watching /\ Hangup /\ guardian # "over"
    /\ stop' = TRUE /\ watching' = FALSE
    /\ UNCHANGED <<guardian, backlog, output, frame, table, child, group, pipes, swept, read>>

ReadHeader ==
    /\ guardian = "reading"
    /\ \/ (stop \/ (stdin = "closed" /\ ~header)) /\ guardian' = "over"
       \/ ~stop /\ header /\ guardian' = "checking"
    /\ UNCHANGED <<proxy, child, group, pipes, swept, read>>

\* After the last look at the token the child is spawned, if that succeeds.
Spawn ==
    /\ guardian = "checking"
    /\ \/ guardian' = "over" /\ UNCHANGED child
       \/ ~stop /\ guardian' = "serving" /\ child' = "live"
    /\ UNCHANGED <<proxy, group, pipes, swept, read>>

\* The input task comes to the end of stdin, or the child has closed its own.
InputEnds ==
    /\ guardian = "serving" /\ ~backlog
    /\ stop' = TRUE
    /\ UNCHANGED <<guardian, watching, backlog, output, frame, table, child, group, pipes, swept, read>>

Running == guardian \in {"serving", "sweeping", "flushing"}

Noted(e) == IF e.action = "started" /\ ~swept THEN read \cup {e.job} ELSE read

\* A frame of the child; a job is registered before the frame goes on.
Register ==
    /\ Running /\ output = "reading" /\ up # <<>>
    /\ frame' = Head(up) /\ up' = Tail(up) /\ output' = "writing"
    /\ table' = Registered(table, Head(up))
    /\ read' = Noted(Head(up))
    /\ UNCHANGED <<guardian, stop, watching, backlog, child, group, out, swept>>

\* It waits while the pipe to the server is full and fails when nobody can read it.
Forward ==
    /\ Running /\ output = "writing" /\ frame' = None
    /\ \/ /\ server = "up" /\ owner # "dropped" /\ Len(out) < OutLimit
          /\ out' = Append(out, frame) /\ output' = "reading" /\ UNCHANGED stop
       \/ /\ server = "gone" \/ owner = "dropped"
          /\ output' = "stopped" /\ stop' = TRUE /\ UNCHANGED out
    /\ UNCHANGED <<guardian, watching, backlog, table, child, group, up, swept, read>>

OutputEnds ==
    /\ Running /\ output = "reading" /\ up = <<>> /\ child = "dead"
    /\ output' = "stopped" /\ stop' = TRUE
    /\ UNCHANGED <<guardian, watching, backlog, frame, table, child, group, pipes, swept, read>>

KillChild ==
    /\ guardian = "serving" /\ (stop \/ child = "dead")
    /\ guardian' = "sweeping" /\ child' = Dying
    /\ UNCHANGED <<proxy, group, pipes, swept, read>>

Sweep ==
    /\ guardian = "sweeping" /\ guardian' = "flushing"
    /\ group' = Killed(table) /\ table' = {} /\ swept' = TRUE
    /\ UNCHANGED <<stop, watching, backlog, output, frame, child, pipes, read>>

\* The output task has 200 ms more.
Flush ==
    /\ guardian = "flushing" /\ guardian' = "joining"
    /\ output' = "stopped"
    /\ UNCHANGED <<stop, watching, backlog, frame, table, child, group, pipes, swept, read>>

\* A byte ends the watcher; then the guardian kills its own group.
Leave ==
    /\ guardian = "joining" /\ guardian' = "over" /\ watching' = FALSE /\ child' = Dying
    /\ UNCHANGED <<stop, backlog, output, frame, table, group, pipes, swept, read>>

Ending == Watch \/ ReadHeader \/ Spawn \/ KillChild \/ Sweep \/ Flush \/ Leave
Guard == /\ Ending \/ InputEnds \/ Register \/ Forward \/ OutputEnds
         /\ UNCHANGED <<server, handle, stdin, free, heard, stray>>

-----------------------------------------------------------------------------
(* The child and its jobs.                                                   *)

Say(e) == Len(up) < UpLimit /\ up' = Append(up, e)

\* A child that does not read its input, and that reads it again.
Stall == child = "live" /\ backlog' = ~backlog /\ (stdin = "open" \/ backlog)
         /\ UNCHANGED <<child, group, up>>

Exit == child = "live" /\ child' = "dead" /\ UNCHANGED <<backlog, group, up>>

\* A group is started and only then reported.
Detach(j) ==
    /\ child = "live" /\ UNCHANGED <<backlog, child>>
    /\ \/ group[j] = "none" /\ group' = [group EXCEPT ![j] = "silent"] /\ UNCHANGED up
       \/ /\ group[j] = "silent" /\ group' = [group EXCEPT ![j] = "live"]
          /\ Say(Event("started", j))

JobEnds(j) == group[j] = "live" /\ group' = [group EXCEPT ![j] = "dead"]
              /\ UNCHANGED <<backlog, child, up>>

\* The reaper thread of the child has it first, which frees its id, and then says so.
Finish(j) ==
    /\ child = "live" /\ group[j] = "dead"
    /\ group' = [group EXCEPT ![j] = "freed"] /\ Say(Event("finished", j))
    /\ UNCHANGED <<backlog, child>>

Child == /\ Stall \/ Exit \/ \E j \in Jobs : Detach(j) \/ JobEnds(j) \/ Finish(j)
         /\ UNCHANGED <<server, handle, stdin, guardian, stop, watching, output, frame, table,
                        out, free, history, stray>>

Over == guardian = "over" /\ owner \in {"dropped", "gone"}
Quiet == Over /\ UNCHANGED vars

Next == Server \/ Guard \/ Child \/ Quiet

\* The guardian's thread and its main task run; nothing is assumed of the two tasks
\* that proxy frames, of the child, or of the server.
Fairness ==
    /\ WF_vars(Guard /\ Watch) /\ WF_vars(Guard /\ ReadHeader) /\ WF_vars(Guard /\ Spawn)
    /\ WF_vars(Guard /\ (KillChild \/ Sweep \/ Flush \/ Leave))

Spec == Init /\ [][Next]_vars
FairSpec == Spec /\ Fairness

-----------------------------------------------------------------------------
(* Properties.                                                               *)

Events == [action : {"started", "finished"}, job : Jobs]

\* Type invariant; the server never signals the guardian's group once its id is free.
TypeOK ==
    /\ server \in {"up", "gone"}
    /\ owner \in {"launching", "held", "closing", "waiting", "reaped", "dropped", "gone"}
    /\ stdin \in {"open", "closed"}
    /\ {unreaped, header, stop, watching, backlog, free, swept} \subseteq BOOLEAN
    /\ guardian \in {"reading", "checking", "serving", "sweeping", "flushing", "joining", "over"}
    /\ output \in {"reading", "writing", "stopped"} /\ frame \in Events \cup {None}
    /\ known \subseteq Jobs /\ table \subseteq Jobs /\ read \subseteq Jobs /\ heard \subseteq Jobs
    /\ child \in {"none", "live", "dead"}
    /\ group \in [Jobs -> {"none", "silent", "live", "dead", "freed"}]
    /\ up \in Seq(Events) /\ Len(up) <= UpLimit
    /\ out \in Seq(Events) /\ Len(out) <= OutLimit
    /\ stray = FALSE

\* However the guardian comes to its end, its child does not survive it; a job whose
\* start it had read before it swept does not survive either, even while handing the
\* frame on was blocked; and none the server had heard of survives the worker's drop.
NothingLeft ==
    guardian = "over" =>
        /\ child # "live"
        /\ swept => \A j \in read : group[j] # "live"
        /\ owner = "dropped" => \A j \in heard : group[j] # "live"

\* The end of the server, or of its interest, ends guardian and child, although the
\* child may not read its input and nobody may read its output.
ServerDeathEndsTree == stdin = "closed" ~> guardian = "over" /\ child # "live"
=============================================================================

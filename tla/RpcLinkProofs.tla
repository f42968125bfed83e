----------------------------- MODULE RpcLinkProofs -----------------------------
(* Theorems about a worker and its supervisor, for any number of runs and      *)
(* calls and any limits of queues and pipes.                                   *)
EXTENDS RpcLink, TLAPS, FiniteSetTheorems, SequenceTheorems

USE RpcLinkAssumption

-----------------------------------------------------------------------------
(* The parts of the inductive invariant.                                     *)

UpFrame == [type : {"rpc", "cancel"}, id : Calls] \cup [type : {"result", "fatal"}, id : Runs]
             \cup [type : {"garbled"}, id : Calls \cup Runs]
DownFrame == [frame : Frame, whole : BOOLEAN]

PythonTypes ==
    /\ process \in {"idle", "executing", "ending", "dead"} /\ cell \in Runs \cup {NoRun}
    /\ future \in [Calls -> {"none", "waiting", "answered", "cancelled"}]
    /\ unsent \subseteq Calls /\ cancels \subseteq Calls
PipeTypes ==
    /\ up \in Seq(UpFrame) /\ queue \in Seq(Frame) /\ down \in Seq(DownFrame)
    /\ writer \in {"idle", "writing", "stopped"}
OwnerTypes ==
    /\ exec \in Awaits \cup {"idle", "ending", "clearing", "over"}
    /\ current \in Runs \cup {NoRun} /\ run \in Runs \cup {NoRun}
    /\ outcome \in [Runs -> {"none", "preserved", "fatal", "gone", "overdue", "unsent",
                             "abandoned"}]
RpcTypes ==
    /\ reader \in {"idle", "checked", "refusing", "refused", "spawned", "ended"}
    /\ reading \in Calls \cup {NoCall}
    /\ task \in [Calls -> {"none", "running", "replying", "sent", "finished", "aborted"}]
    /\ handles \subseteq Calls
    /\ event \in [Runs -> {"none", "result", "fatal"}]
Types == PythonTypes /\ PipeTypes /\ OwnerTypes /\ RpcTypes
Flags == /\ fatal \in BOOLEAN /\ sigint \in BOOLEAN /\ torn \in BOOLEAN
         /\ cancelled \in BOOLEAN /\ alive \in BOOLEAN

\* The parts of the process agree with each other, and so do those of the supervisor.
PythonParts ==
    /\ process \in {"executing", "ending"} <=> cell # NoRun
    /\ process \in {"idle", "dead"} => unsent = {} /\ cancels = {}
    /\ process = "ending" /\ ~fatal => unsent = {}
    /\ process = "dead" => down = <<>>
OwnerParts ==
    /\ exec = "idle" => current = NoRun
    /\ exec \notin {"idle", "terminating", "over"} => current \in Runs
    /\ exec \in {"queueing", "sent", "running", "interrupted", "ending", "clearing"} => run = current
    /\ exec \in {"queueing", "sent", "running", "interrupted"} => outcome[current] = "none"
    /\ alive <=> exec # "over"
    /\ ~alive => process = "dead" /\ queue = <<>> /\ up = <<>> /\ writer = "stopped"
ReaderParts ==
    /\ reader \in {"checked", "refusing", "refused", "spawned"} => reading \in Calls
    /\ reader = "idle" \/ (reader = "ended" /\ alive) => reading = NoCall
    /\ reader \in {"checked", "refusing", "refused"} => task[reading] = "none"

\* The frame that is in part is the last, and the writer is at it.
InPart ==
    /\ \A i \in 1..Len(down) - 1 : down[i].whole
    /\ writer = "idle" => \A i \in 1..Len(down) : down[i].whole
    /\ writer = "writing" /\ process # "dead" =>
          /\ down # <<>> /\ ~down[Len(down)].whole
          /\ queue # <<>> /\ down[Len(down)].frame = Head(queue)

\* The frame that starts a cell is in one place, and belongs to the run that has the worker.
Starts(f) == f.type = "execute"
Token ==
    /\ \A i \in 1..Len(queue) : Starts(queue[i]) =>
          /\ queue[i].id = current /\ cell = NoRun
          /\ \A j \in 1..Len(queue) : Starts(queue[j]) => j = i
          /\ \A j \in 1..Len(down) : Starts(down[j].frame) =>
                writer = "writing" /\ j = Len(down) /\ i = 1
    /\ \A i \in 1..Len(down) : Starts(down[i].frame) =>
          /\ down[i].frame.id = current /\ cell = NoRun
          /\ \A j \in 1..Len(down) : Starts(down[j].frame) => j = i
    /\ cell # NoRun => cell = current

\* The worker has nothing to do with a cell, and will write nothing more.
Rested == /\ process \in {"idle", "dead"}
          /\ process = "idle" => ~torn
          /\ \A i \in 1..Len(queue) : ~Starts(queue[i])
          /\ \A i \in 1..Len(down) : ~Starts(down[i].frame)
Last(i) == up[i].type \in {"result", "fatal"}
NoneComing == \A i \in 1..Len(up) : up[i].type # "rpc" /\ ~Last(i)
Quiet == Rested /\ NoneComing /\ reader \notin {"checked", "spawned"}

\* The last word of a cell comes after its calls.
Results ==
    /\ \A i \in 1..Len(up) : Last(i) =>
          /\ up[i].id = current /\ event[current] = "none" /\ Rested
          /\ \A j \in 1..Len(up) : Last(j) => j = i
          /\ \A j \in i + 1..Len(up) : up[j].type # "rpc"
    /\ \A r \in Runs : event[r] # "none" =>
          \/ outcome[r] # "none" /\ r # current
          \/ r = current /\ Quiet

\* A run that has preserved its worker leaves it at rest.
AtRest ==
    /\ exec \in {"idle", "queueing"} => Quiet /\ Unfinished = {}
    /\ exec = "queueing" => event[current] = "none"
    /\ exec \in {"ending", "clearing", "settling"} /\ outcome[current] = "preserved" =>
          event[current] = "result"
    /\ exec \in {"clearing", "settling"} /\ outcome[current] = "preserved" => Unfinished = {}

\* A call comes by once, and only while its run has the worker.
Coming(c) == \E i \in 1..Len(up) : up[i] = Rpc(c)
Spoken(c) == Coming(c) \/ reading = c \/ task[c] # "none"
Once == \A c \in Calls :
    /\ future[c] = "none" => c \notin unsent /\ ~Spoken(c)
    /\ c \in unsent => ~Spoken(c)
    /\ Coming(c) => reading # c /\ task[c] = "none"
    /\ \A i, j \in 1..Len(up) : up[i] = Rpc(c) /\ up[j] = Rpc(c) => i = j
Sent(c) == Coming(c) \/ (reading = c /\ reader \in {"checked", "spawned"}) \/ c \in Unfinished
Homes == alive => \A c \in Calls : c \in unsent \/ Sent(c) => Home[c] = current

\* Every task can be aborted, and there is a limit to them.
Owned == alive => Unfinished \subseteq handles \cup {reading} /\ Cardinality(Unfinished) <= Limit

\* A torn frame is the work of an interrupt, and an interrupt cancels the run.
Torn == process # "dead" =>
    /\ sigint /\ process # "idle" => cancelled
    /\ torn => cancelled

\* The word that a call is given up comes after the call.
Word(c) == c \in cancels \/ \E i \in 1..Len(up) : up[i] = Cancel(c)
Words == \A c \in Calls :
    /\ Word(c) => c \notin unsent /\ future[c] # "none"
    /\ \A i, j \in 1..Len(up) : up[i] = Cancel(c) /\ up[j] = Rpc(c) => j < i
Stopping == \/ process = "dead" \/ cancelled
            \/ exec \in {"ending", "clearing", "settling", "terminating"}
GivenUp == alive /\ ~Stopping => \A c \in Calls : Sent(c) /\ future[c] = "cancelled" => Word(c)

-----------------------------------------------------------------------------
(* Sequences.                                                                *)

LEMMA Appended ==
    ASSUME NEW S, NEW s \in Seq(S), NEW e \in S
    PROVE  /\ Append(s, e) \in Seq(S) /\ Append(s, e) # <<>>
           /\ Len(s) \in Nat /\ Len(Append(s, e)) = Len(s) + 1
           /\ Append(s, e)[Len(s) + 1] = e
           /\ \A i \in 1..Len(s) : Append(s, e)[i] = s[i]
  BY AppendProperties

LEMMA Taken ==
    ASSUME NEW S, NEW s \in Seq(S), s # <<>>
    PROVE  /\ Tail(s) \in Seq(S) /\ Head(s) = s[1] /\ Head(s) \in S
           /\ Len(s) \in Nat /\ Len(s) >= 1 /\ Len(Tail(s)) = Len(s) - 1
           /\ \A i \in 1..Len(s) - 1 : Tail(s)[i] = s[i + 1]
  BY HeadTailProperties

LEMMA Empty ==
    ASSUME NEW S
    PROVE  <<>> \in Seq(S) /\ Len(<<>>) = 0
  OBVIOUS

LEMMA Frames ==
    /\ \A c \in Calls : Rpc(c) \in UpFrame /\ Cancel(c) \in UpFrame /\ Reply(c) \in Frame
    /\ \A r \in Runs : Result(r) \in UpFrame /\ Execute(r) \in Frame
    /\ \A x \in Calls \cup Runs : [type |-> "garbled", id |-> x] \in UpFrame
  BY DEF Rpc, Cancel, Reply, Result, Execute, UpFrame, Frame

\* What a frame is follows from its type.
LEMMA FrameTypes ==
    /\ \A f \in UpFrame : /\ f.type \in {"rpc", "cancel"} => f.id \in Calls
                          /\ f.type \in {"result", "fatal"} => f.id \in Runs
                          /\ f.id \in Calls \cup Runs
                          /\ f.type \in {"rpc", "cancel", "result", "fatal", "garbled"}
    /\ \A f \in Frame : /\ f.type \in {"execute", "reply"}
                        /\ f.type = "execute" => f.id \in Runs
                        /\ f.type = "reply" => f.id \in Calls
  BY DEF UpFrame, Frame

-----------------------------------------------------------------------------
(* Types.                                                                    *)

LEMMA WriteTypes ==
    ASSUME up \in Seq(UpFrame), NEW f \in UpFrame, Write(f)
    PROVE  up' \in Seq(UpFrame)
<1> DEFINE g == IF torn THEN [type |-> "garbled", id |-> f.id] ELSE f
<1>1. g \in UpFrame  BY Frames, FrameTypes
<1>2. up' = Append(up, g)  BY DEF Write
<1> HIDE DEF g
<1> QED  BY <1>1, <1>2, Appended

LEMMA TypesKept ==
    /\ PythonTypes /\ UNCHANGED python => PythonTypes'
    /\ PipeTypes /\ UNCHANGED pipes => PipeTypes'
    /\ OwnerTypes /\ UNCHANGED owner => OwnerTypes'
    /\ RpcTypes /\ UNCHANGED rpcs => RpcTypes'
  BY DEF PythonTypes, PipeTypes, OwnerTypes, RpcTypes, python, pipes, owner, rpcs

LEMMA DeadTypes ==
    ASSUME Dies
    PROVE  process' = "dead" /\ cell' = NoRun /\ unsent' = {} /\ cancels' = {} /\ down' = <<>>
  BY DEF Dies

LEMMA StepTypesWriter ==
    ASSUME Types, InPart, FrameWriter
    PROVE  Types'
<1> USE DEF Types
<1>0. UNCHANGED <<up, owner, rpcs>>  BY DEF FrameWriter
<1>1. CASE WriteBegin
  <2> DEFINE f == [frame |-> Head(queue), whole |-> FALSE]
  <2>0. queue # <<>> /\ down' = Append(down, f) /\ writer' = "writing" /\ UNCHANGED <<python, queue>>
    BY <1>1 DEF WriteBegin
  <2>1. f \in DownFrame  BY <2>0, Taken DEF PipeTypes, DownFrame
  <2> HIDE DEF f
  <2>2. down' \in Seq(DownFrame)  BY <2>0, <2>1, Appended DEF PipeTypes
  <2>3. PipeTypes'  BY <1>0, <2>0, <2>2 DEF PipeTypes
  <2> QED  BY <1>0, <2>0, <2>3, TypesKept
<1>2. CASE WriteEnd
  <2>0. /\ down' = [down EXCEPT ![Len(down)].whole = TRUE] /\ queue' = Tail(queue)
        /\ writer' = "idle" /\ UNCHANGED python
    BY <1>2 DEF WriteEnd
  <2>1. queue # <<>> /\ down # <<>>  BY <1>2 DEF WriteEnd, InPart
  <2>2. queue' \in Seq(Frame)  BY <2>0, <2>1, Taken DEF PipeTypes
  <2>3. down' \in Seq(DownFrame)
    <3>1. Len(down) \in Nat /\ Len(down) \in 1..Len(down)  BY <2>1, Taken DEF PipeTypes
    <3>2. down[Len(down)] \in DownFrame  BY <3>1 DEF PipeTypes
    <3>3. [down[Len(down)] EXCEPT !.whole = TRUE] \in DownFrame  BY <3>2 DEF DownFrame
    <3> QED  BY <2>0, <3>1, <3>3 DEF PipeTypes
  <2>4. PipeTypes'  BY <1>0, <2>0, <2>2, <2>3 DEF PipeTypes
  <2> QED  BY <1>0, <2>0, <2>4, TypesKept
<1>3. CASE WriteFail
  <2>1. queue' = <<>> /\ writer' = "stopped" /\ Dies /\ future' = future  BY <1>3 DEF WriteFail
  <2>2. PipeTypes'  BY <1>0, <2>1, DeadTypes, Empty DEF PipeTypes
  <2>3. PythonTypes'  BY <2>1, DeadTypes DEF PythonTypes
  <2> QED  BY <1>0, <2>2, <2>3, TypesKept
<1> QED  BY <1>1, <1>2, <1>3 DEF FrameWriter

LEMMA StepTypesPython ==
    ASSUME Types, PythonParts, Python
    PROVE  Types'
<1> USE DEF Types
<1>0. UNCHANGED <<queue, writer, owner, rpcs>>  BY DEF Python
<1>q. ASSUME PythonTypes', up' \in Seq(UpFrame), down' \in Seq(DownFrame) PROVE Types'
  <2>1. PipeTypes'  BY <1>0, <1>q DEF PipeTypes
  <2> QED  BY <1>0, <1>q, <2>1, TypesKept
<1>1. CASE ReadCommand
  <2>0. down # <<>> /\ down' = Tail(down) /\ UNCHANGED <<unsent, cancels, up>>  BY <1>1 DEF ReadCommand
  <2>1. down' \in Seq(DownFrame) /\ Head(down) \in DownFrame  BY <2>0, Taken DEF PipeTypes
  <2>2. Head(down).frame \in Frame  BY <2>1 DEF DownFrame
  <2>3. CASE /\ Head(down).frame.type = "execute" /\ process' = "executing"
             /\ cell' = Head(down).frame.id /\ UNCHANGED future
    <3>1. PythonTypes'  BY <2>0, <2>2, <2>3, FrameTypes DEF PythonTypes
    <3> QED  BY <1>q, <2>0, <2>1, <3>1 DEF PipeTypes
  <2>4. CASE /\ UNCHANGED <<process, cell>>
             /\ future' = [future EXCEPT ![Head(down).frame.id] = IF @ = "waiting" THEN "answered" ELSE @]
    <3>1. PythonTypes'  BY <2>0, <2>4 DEF PythonTypes
    <3> QED  BY <1>q, <2>0, <2>1, <3>1 DEF PipeTypes
  <2> QED  BY <1>1, <2>3, <2>4 DEF ReadCommand
<1>2. ASSUME NEW c \in Calls, Call(c) \/ SendCall(c) \/ CancelCall(c) \/ SendCancel(c) PROVE Types'
  <2>1. PythonTypes'
    BY <1>2 DEF Call, SendCall, CancelCall, SendCancel, PythonTypes
  <2>2. up' \in Seq(UpFrame)
    BY <1>2, Frames, WriteTypes DEF Call, SendCall, CancelCall, SendCancel, PipeTypes
  <2>3. down' = down  BY <1>2 DEF Call, SendCall, CancelCall, SendCancel
  <2> QED  BY <1>q, <2>1, <2>2, <2>3 DEF PipeTypes
<1>3. CASE EndCell
  BY <1>q, <1>3 DEF EndCell, Pending, PythonTypes, PipeTypes
<1>4. CASE SendResult
  <2>1. cell \in Runs  BY <1>4 DEF SendResult, PythonParts, PythonTypes
  <2>2. up' \in Seq(UpFrame)  BY <1>4, <2>1, Frames, WriteTypes DEF SendResult, PipeTypes
  <2>3. CASE Dies /\ UNCHANGED future
    <3>1. PythonTypes' /\ down' \in Seq(DownFrame)  BY <2>3, DeadTypes, Empty DEF PythonTypes
    <3> QED  BY <1>q, <2>2, <3>1
  <2>4. CASE process' = "idle" /\ cell' = NoRun /\ UNCHANGED <<unsent, cancels, down, future>>
    <3>1. PythonTypes' /\ down' \in Seq(DownFrame)  BY <2>4 DEF PythonTypes, PipeTypes
    <3> QED  BY <1>q, <2>2, <3>1
  <2> QED  BY <1>4, <2>3, <2>4 DEF SendResult
<1>5. CASE Interrupted
  BY <1>q, <1>5 DEF Interrupted, PythonTypes, PipeTypes
<1>6. CASE Exit
  <2>1. Dies /\ UNCHANGED <<future, up>>  BY <1>6 DEF Exit
  <2>2. PythonTypes' /\ down' \in Seq(DownFrame)  BY <2>1, DeadTypes, Empty DEF PythonTypes
  <2> QED  BY <1>q, <2>1, <2>2 DEF PipeTypes
<1>7. CASE Tear
  BY <1>q, <1>7 DEF Tear, PythonTypes, PipeTypes
<1> QED  BY <1>1, <1>2, <1>3, <1>4, <1>5, <1>6, <1>7 DEF Python

LEMMA AbortedTypes ==
    ASSUME RpcTypes, NEW S
    PROVE  /\ Aborted(S) \in [Calls -> {"none", "running", "replying", "sent", "finished", "aborted"}]
           /\ \A c \in Calls : Aborted(S)[c] = IF c \in S /\ c \in Unfinished THEN "aborted" ELSE task[c]
  BY DEF Aborted, RpcTypes

LEMMA EnqueueTypes ==
    ASSUME queue \in Seq(Frame), NEW f \in Frame, Enqueue(f)
    PROVE  queue' \in Seq(Frame)
  BY Appended DEF Enqueue

LEMMA StepTypesReader ==
    ASSUME Types, ReaderParts, Reader
    PROVE  Types'
<1> USE DEF Types
<1>0. UNCHANGED <<python, writer, down, owner>>  BY DEF Reader
<1>q. ASSUME RpcTypes', up' \in Seq(UpFrame), queue' \in Seq(Frame) PROVE Types'
  <2>1. PipeTypes'
    <3>1. down' = down /\ writer' = writer  BY <1>0
    <3> QED  BY <1>q, <3>1 DEF PipeTypes
  <2> QED  BY <1>0, <1>q, <2>1, TypesKept
<1>1. CASE Refuse
  <2>1. queue' \in Seq(Frame)  BY <1>1, EnqueueTypes, Frames DEF Refuse, ReaderParts, PipeTypes
  <2>2. RpcTypes' /\ up' = up  BY <1>1 DEF Refuse, RpcTypes
  <2> QED  BY <1>q, <2>1, <2>2 DEF PipeTypes
<1>2. CASE Reading /\ queue' = queue
  <2>q. ASSUME RpcTypes', up' = up \/ (up # <<>> /\ up' = Tail(up)) PROVE Types'
    <3>1. up \in Seq(UpFrame) /\ queue \in Seq(Frame)  BY DEF PipeTypes
    <3>2. up # <<>> => Tail(up) \in Seq(UpFrame)  BY <3>1, Taken
    <3>3. up' \in Seq(UpFrame)  BY <2>q, <3>1, <3>2
    <3> QED  BY <1>q, <1>2, <2>q, <3>1, <3>3
  <2>h. up # <<>> => Head(up) \in UpFrame  BY Taken DEF PipeTypes
  <2>1. CASE CancelFrame
    <3>1. /\ up # <<>> /\ up' = Tail(up) /\ UNCHANGED <<reader, reading, event>>
          /\ handles' \subseteq handles /\ (task' = task \/ \E S : task' = Aborted(S))
      BY <2>1 DEF CancelFrame
    <3>2. RpcTypes'  BY <3>1, AbortedTypes DEF RpcTypes
    <3> QED  BY <2>q, <3>1, <3>2
  <2>2. CASE RpcFrame
    <3>1. RpcTypes'  BY <2>2, <2>h, FrameTypes DEF RpcFrame, RpcTypes
    <3> QED  BY <2>q, <2>2, <3>1 DEF RpcFrame
  <2>3. CASE OtherFrame
    <3>1. /\ UNCHANGED <<reading, handles, task>> /\ (reader' = reader \/ reader' = "ended")
          /\ event' = event \/ (Head(up).type \in {"result", "fatal"} /\
                                 event' = [event EXCEPT ![Head(up).id] = Head(up).type])
      BY <2>3 DEF OtherFrame
    <3>2. RpcTypes'  BY <3>1 DEF RpcTypes
    <3> QED  BY <2>q, <2>3, <3>2 DEF OtherFrame
  <2>4. CASE Eof \/ Refused
    BY <2>q, <2>4 DEF Eof, Refused, RpcTypes
  <2>5. CASE Spawn
    <3>1. RpcTypes'  BY <2>5 DEF Spawn, Retained, RpcTypes
    <3> QED  BY <2>q, <2>5, <3>1 DEF Spawn
  <2>6. CASE Insert
    BY <2>q, <2>6 DEF Insert, ReaderParts, RpcTypes
  <2> QED  BY <1>2, <2>1, <2>2, <2>3, <2>4, <2>5, <2>6 DEF Reading
<1> QED  BY <1>1, <1>2 DEF Reader

LEMMA StepTypesTask ==
    ASSUME Types, NEW c \in Calls, Task(c)
    PROVE  Types'
<1> USE DEF Types
<1>0. UNCHANGED <<python, up, writer, down, owner, reader, reading, handles, event>>  BY DEF Task
<1>1. queue' \in Seq(Frame)
  BY EnqueueTypes, Frames DEF Task, Answer, SendReply, Finish, PipeTypes
<1>2. RpcTypes'  BY <1>0 DEF Task, Answer, SendReply, Finish, RpcTypes
<1>3. PipeTypes'
  <2>1. UNCHANGED <<up, writer, down>>  BY <1>0
  <2> QED  BY <1>1, <2>1 DEF PipeTypes
<1> QED  BY <1>0, <1>2, <1>3, TypesKept

LEMMA StepTypesRun ==
    ASSUME Types, OwnerParts, Run
    PROVE  Types'
<1> USE DEF Types
<1>0. UNCHANGED <<future, reading, event>>  BY DEF Run
<1>1. CASE Owner /\ UNCHANGED <<process, cell, unsent, cancels, fatal, up, down, reader>>
  <2>1. queue' \in Seq(Frame) /\ writer' \in {"idle", "writing", "stopped"}
    <3>1. CASE QueueCell
      <4>1. current \in Runs /\ Enqueue(Execute(current)) /\ writer' = writer
        BY <3>1 DEF QueueCell, OwnerParts
      <4> QED  BY <4>1, EnqueueTypes, Frames DEF PipeTypes
    <3>2. CASE queue' = queue /\ writer' = writer  BY <3>2 DEF PipeTypes
    <3>3. CASE queue' = <<>> /\ writer' = "stopped"  BY <3>3, Empty
    <3> QED
      BY <1>1, <3>1, <3>2, <3>3 DEF Owner, CellSent, CellNotSent, Receive, RequestCancel, Interrupt,
         Drain, Clear, Settle, Retire, Begin
  <2>2. OwnerTypes'
    <3>1. CASE QueueCell \/ CellSent \/ CellNotSent \/ Receive
      BY <3>1 DEF QueueCell, CellSent, CellNotSent, Receive, Becomes, End, Awaits, OwnerTypes
    <3>2. CASE RequestCancel \/ Interrupt \/ Drain \/ Clear
      BY <3>2 DEF RequestCancel, Interrupt, Drain, Clear, Becomes, Awaits, OwnerTypes
    <3>3. CASE Settle \/ Retire \/ \E r \in Runs : Begin(r)
      BY <3>3 DEF Settle, Retire, Begin, Becomes, Awaits, OwnerTypes
    <3> QED  BY <1>1, <3>1, <3>2, <3>3 DEF Owner
  <2>3. (task' = task \/ task' = Aborted(handles)) /\ (handles' = handles \/ handles' = {})
    BY <1>1 DEF Owner, QueueCell, CellSent, CellNotSent, Receive, RequestCancel, Interrupt, Drain,
                Clear, Settle, Retire, Begin, Drained
  <2>4. RpcTypes'  BY <1>0, <1>1, <2>3, AbortedTypes DEF RpcTypes
  <2>5. PipeTypes'  BY <1>1, <2>1 DEF PipeTypes
  <2>6. PythonTypes'  BY <1>0, <1>1 DEF PythonTypes
  <2> QED  BY <2>2, <2>4, <2>5, <2>6
<1>2. CASE Drop /\ Dies /\ up' = <<>> /\ (reader' = IF reader \in {"checked", "spawned"} THEN reader ELSE "ended")
  <2>1. task' = Aborted(handles) /\ handles' = {}  BY <1>2 DEF Drop, Drained
  <2>2. RpcTypes'  BY <1>0, <1>2, <2>1, AbortedTypes DEF RpcTypes
  <2>3. PipeTypes'  BY <1>2, DeadTypes, Empty DEF Drop, PipeTypes
  <2>4. PythonTypes'  BY <1>0, <1>2, DeadTypes DEF PythonTypes
  <2>5. OwnerTypes'  BY <1>2 DEF Drop, OwnerTypes, Awaits
  <2> QED  BY <2>2, <2>3, <2>4, <2>5
<1> QED  BY <1>1, <1>2 DEF Run

LEMMA StepTypes ==
    ASSUME Types, PythonParts, OwnerParts, ReaderParts, InPart, [Next]_vars
    PROVE  Types'
<1>1. UNCHANGED vars => Types'  BY TypesKept DEF vars, Types
<1> QED
  BY <1>1, StepTypesWriter, StepTypesPython, StepTypesReader, StepTypesTask, StepTypesRun
     DEF Next, Stopped

LEMMA StepFlags ==
    ASSUME Flags, [Next]_vars
    PROVE  Flags'
<1>1. CASE FrameWriter
  <2>1. UNCHANGED <<torn, cancelled, alive>>  BY <1>1, Zenon DEF FrameWriter, owner
  <2>2. UNCHANGED <<fatal, sigint>> \/ (fatal' = FALSE /\ sigint' = FALSE)
    BY <1>1, Zenon DEF FrameWriter, WriteBegin, WriteEnd, WriteFail, Dies, python
  <2> QED  BY <2>1, <2>2, Zenon DEF Flags
<1>2. CASE Python
  <2>1. UNCHANGED <<cancelled, alive>>  BY <1>2, Zenon DEF Python, owner
  <2>2. torn' = torn \/ torn' = FALSE \/ torn' = TRUE
    BY <1>2, Zenon DEF Python, ReadCommand, EndCell, SendResult, Interrupted, Tear, Exit, Call,
                       SendCall, CancelCall, SendCancel, Write
  <2>3. sigint' = sigint \/ sigint' = FALSE
    BY <1>2, Zenon DEF Python, ReadCommand, EndCell, SendResult, Interrupted, Tear, Exit, Call,
                       SendCall, CancelCall, SendCancel, Dies
  <2>4. fatal' = fatal \/ fatal' = FALSE \/ fatal' = (unsent # {})
    BY <1>2, Zenon DEF Python, ReadCommand, EndCell, SendResult, Interrupted, Tear, Exit, Call,
                       SendCall, CancelCall, SendCancel, Dies
  <2>5. (unsent # {}) \in BOOLEAN  BY Zenon
  <2> QED  BY <2>1, <2>2, <2>3, <2>4, <2>5, Zenon DEF Flags
<1>3. CASE Reader \/ \E c \in Calls : Task(c)
  BY <1>3, Zenon DEF Reader, Task, python, owner, Flags
<1>4. CASE Run
  <2>1. torn' = torn  BY <1>4, Zenon DEF Run
  <2>2. fatal' = fatal \/ fatal' = FALSE  BY <1>4, Zenon DEF Run, Dies
  <2>3. sigint' = sigint \/ sigint' = FALSE \/ sigint' = (process # "dead")
    BY <1>4, Zenon DEF Run, Owner, QueueCell, CellSent, CellNotSent, Receive, RequestCancel,
       Interrupt, Drain, Clear, Settle, Retire, Begin, Dies
  <2>4. cancelled' = cancelled \/ cancelled' = FALSE \/ cancelled' = TRUE
    BY <1>4, Zenon DEF Run, Owner, QueueCell, CellSent, CellNotSent, Receive, RequestCancel,
       Interrupt, Drain, Clear, Settle, Retire, Begin, Drop
  <2>5. alive' = alive \/ alive' = FALSE
    BY <1>4, Zenon DEF Run, Owner, QueueCell, CellSent, CellNotSent, Receive, RequestCancel,
       Interrupt, Drain, Clear, Settle, Retire, Begin, Drop, Becomes, End
  <2>6. (process # "dead") \in BOOLEAN  BY Zenon
  <2> QED  BY <2>1, <2>2, <2>3, <2>4, <2>5, <2>6, Zenon DEF Flags
<1>5. CASE UNCHANGED vars
  BY <1>5, Zenon DEF vars, python, pipes, owner, Flags
<1> QED  BY <1>1, <1>2, <1>3, <1>4, <1>5, Zenon DEF Next, Stopped

-----------------------------------------------------------------------------
(* The parts of the process, of the owner and of the reader.                 *)

LEMMA StepPythonParts ==
    ASSUME Types, PythonParts, [Next]_vars
    PROVE  PythonParts'
<1> USE DEF Types, PythonTypes, python, PythonParts
<1>d. Dies => PythonParts'  BY DeadTypes
<1>1. CASE FrameWriter
  BY <1>d, <1>1 DEF FrameWriter, WriteBegin, WriteEnd, WriteFail
<1>2. CASE Python
  <2>1. CASE ReadCommand
    <3>1. /\ process # "dead" /\ down # <<>> /\ UNCHANGED <<unsent, cancels, fatal>>
          /\ \/ Head(down).frame.type = "execute" /\ process' = "executing" /\ cell' = Head(down).frame.id
             \/ UNCHANGED <<process, cell>>
      BY <2>1 DEF ReadCommand
    <3>2. Head(down).frame.type = "execute" => Head(down).frame.id \in Runs
      <4>1. Head(down) \in DownFrame  BY <3>1, Taken DEF PipeTypes
      <4> QED  BY <4>1, FrameTypes DEF DownFrame
    <3> QED  BY <3>1, <3>2
  <2>2. ASSUME NEW c \in Calls, Call(c) \/ SendCall(c) \/ CancelCall(c) \/ SendCancel(c)
        PROVE  PythonParts'
    BY <2>2 DEF Call, SendCall, CancelCall, SendCancel
  <2>3. CASE EndCell
    BY <2>3 DEF EndCell
  <2>4. CASE SendResult
    BY <1>d, <2>4 DEF SendResult
  <2>5. CASE Interrupted \/ Exit
    BY <1>d, <2>5 DEF Interrupted, Exit
  <2>6. CASE Tear
    BY <2>6 DEF Tear
  <2> QED  BY <1>2, <2>1, <2>2, <2>3, <2>4, <2>5, <2>6 DEF Python
<1>3. CASE Reader \/ (\E c \in Calls : Task(c)) \/ UNCHANGED vars
  BY <1>3 DEF Reader, Task, vars, pipes
<1>4. CASE Run
  BY <1>d, <1>4 DEF Run
<1> QED  BY <1>1, <1>2, <1>3, <1>4 DEF Next, Stopped

\* What is gone stays gone.
Over == process = "dead" /\ queue = <<>> /\ up = <<>> /\ writer = "stopped"

LEMMA StaysOver ==
    ASSUME Over, FrameWriter \/ Python \/ Reader \/ \E c \in Calls : Task(c)
    PROVE  Over'
<1> USE DEF Over, python
<1>1. ~FrameWriter
  BY DEF FrameWriter, WriteBegin, WriteEnd, WriteFail
<1>2. ~Python
  BY DEF Python, ReadCommand, EndCell, SendResult, Interrupted, Tear, Exit, Call, SendCall,
         CancelCall, SendCancel, Write
<1>3. CASE Reader
  BY <1>3 DEF Reader, Refuse, Enqueue, Reading, CancelFrame, RpcFrame, OtherFrame, Eof, Spawn,
              Insert, Refused
<1>4. CASE \E c \in Calls : Task(c)
  BY <1>4 DEF Task, Answer, SendReply, Finish, Enqueue
<1> QED  BY <1>1, <1>2, <1>3, <1>4

LEMMA StepOwnerParts ==
    ASSUME Types, Flags, OwnerParts, [Next]_vars
    PROVE  OwnerParts'
<1> USE DEF Types, OwnerTypes, OwnerParts, Over, owner
<1>1. CASE FrameWriter \/ Python \/ Reader \/ \E c \in Calls : Task(c)
  <2>1. UNCHANGED owner  BY <1>1 DEF FrameWriter, Python, Reader, Task
  <2> QED  BY <1>1, <2>1, StaysOver
<1>2. CASE Run
  <2>1. CASE Owner /\ UNCHANGED <<process, cell, unsent, cancels, fatal, up, down, reader>>
    <3>1. CASE QueueCell \/ CellSent
      BY <2>1, <3>1 DEF QueueCell, CellSent, Becomes, Enqueue
    <3>2. CASE CellNotSent \/ Receive
      BY <2>1, <3>2 DEF CellNotSent, Receive, End, Becomes
    <3>3. CASE RequestCancel \/ Interrupt \/ Drain \/ Clear
      BY <2>1, <3>3 DEF RequestCancel, Interrupt, Drain, Clear, Becomes
    <3>4. CASE Settle \/ Retire
      BY <2>1, <3>4 DEF Settle, Retire
    <3>5. CASE \E r \in Runs : Begin(r)
      BY <2>1, <3>5 DEF Begin
    <3> QED  BY <2>1, <3>1, <3>2, <3>3, <3>4, <3>5 DEF Owner
  <2>2. CASE Drop /\ Dies /\ up' = <<>>
    BY <2>2, DeadTypes DEF Drop
  <2> QED  BY <1>2, <2>1, <2>2 DEF Run
<1>3. CASE UNCHANGED vars
  BY <1>3 DEF vars, python, pipes
<1> QED  BY <1>1, <1>2, <1>3 DEF Next, Stopped

LEMMA StepReaderParts ==
    ASSUME Types, Flags, ReaderParts, Once, [Next]_vars
    PROVE  ReaderParts'
<1> USE DEF Types, RpcTypes, ReaderParts, owner, rpcs
<1>1. CASE FrameWriter \/ Python \/ UNCHANGED vars
  BY <1>1 DEF FrameWriter, Python, vars
<1>2. CASE Reader
  <2>1. UNCHANGED owner  BY <1>2 DEF Reader
  <2>2. CASE CancelFrame
    BY <2>1, <2>2 DEF CancelFrame
  <2>3. CASE RpcFrame
    <3>1. up # <<>> /\ Head(up).type = "rpc" /\ reading' = Head(up).id /\ task' = task
          /\ reader' \in {"checked", "refusing"}
      BY <2>3 DEF RpcFrame
    <3>2. up[1] = Head(up) /\ 1 \in 1..Len(up) /\ Head(up) \in UpFrame
      BY <3>1, Taken DEF PipeTypes
    <3>3. Head(up).id \in Calls /\ up[1] = Rpc(Head(up).id)
      BY <3>1, <3>2 DEF UpFrame, Rpc
    <3>4. Coming(Head(up).id)  BY <3>2, <3>3 DEF Coming
    <3> QED  BY <3>1, <3>3, <3>4 DEF Once
  <2>4. CASE OtherFrame \/ Eof
    BY <2>1, <2>4 DEF OtherFrame, Eof
  <2>5. CASE Spawn
    BY <2>1, <2>5 DEF Spawn
  <2>6. CASE Insert \/ Refuse \/ Refused
    BY <2>1, <2>6 DEF Insert, Refuse, Refused
  <2> QED  BY <1>2, <2>2, <2>3, <2>4, <2>5, <2>6 DEF Reader, Reading
<1>3. ASSUME NEW c \in Calls, Task(c) PROVE ReaderParts'
  BY <1>3 DEF Task, Answer, SendReply, Finish
<1>4. CASE Run
  <2>1. \A c \in Calls : task[c] = "none" => task'[c] = "none"
    BY <1>4, AbortedTypes DEF Run, Owner, QueueCell, CellSent, CellNotSent, Receive, RequestCancel,
       Interrupt, Drain, Clear, Settle, Retire, Begin, Drop, Drained, Unfinished
  <2>2. reading' = reading  BY <1>4 DEF Run
  <2>3. CASE reader' = reader /\ alive' = alive  BY <2>1, <2>2, <2>3
  <2>4. CASE alive' = FALSE /\ (reader' = IF reader \in {"checked", "spawned"} THEN reader ELSE "ended")
    BY <2>1, <2>2, <2>4
  <2> QED  BY <1>4, <2>3, <2>4 DEF Run, Owner, QueueCell, CellSent, CellNotSent, Receive, RequestCancel,
       Interrupt, Drain, Clear, Settle, Retire, Begin, Drop, Becomes, End
<1> QED  BY <1>1, <1>2, <1>3, <1>4 DEF Next, Stopped

-----------------------------------------------------------------------------
(* The way to the worker.                                                    *)

\* What the actions other than those of the frame writer do to the queue and to the pipe.
Grows == /\ down' = down /\ writer' = writer /\ writer # "stopped"
         /\ \E f \in Frame : /\ queue' = Append(queue, f)
                             /\ Starts(f) => f.id = current /\ exec = "queueing" /\ QueueCell
PipeMoves ==
    \/ UNCHANGED <<queue, down, writer>>
    \/ Grows
    \/ queue' = <<>> /\ writer' = "stopped" /\ down' = down
    \/ Dies /\ ((queue' = <<>> /\ writer' = "stopped") \/ UNCHANGED <<queue, writer>>)
    \/ ReadCommand /\ UNCHANGED <<queue, writer>>

LEMMA StepPipes ==
    ASSUME Types, OwnerParts, ReaderParts,
           Python \/ Reader \/ (\E c \in Calls : Task(c)) \/ Run \/ UNCHANGED vars
    PROVE  PipeMoves
<1> USE DEF Types, PipeMoves, Grows
<1>1. CASE Python
  <2>1. UNCHANGED <<queue, writer>>  BY <1>1 DEF Python
  <2> QED  BY <1>1, <2>1 DEF Python, EndCell, SendResult, Interrupted, Tear, Exit, Call,
              SendCall, CancelCall, SendCancel
<1>2. CASE Reader
  <2>1. UNCHANGED <<writer, down>> /\ (UNCHANGED queue \/ Refuse)  BY <1>2 DEF Reader
  <2>2. Refuse => /\ writer # "stopped"
                  /\ Reply(reading) \in Frame /\ queue' = Append(queue, Reply(reading))
                  /\ ~Starts(Reply(reading))
    BY Frames DEF Refuse, ReaderParts, Enqueue, Reply, Starts
  <2> QED  BY <2>1, <2>2
<1>3. ASSUME NEW c \in Calls, Task(c) PROVE PipeMoves
  <2>1. UNCHANGED <<writer, down>>  BY <1>3 DEF Task
  <2>2. \/ UNCHANGED queue
        \/ /\ writer # "stopped" /\ Reply(c) \in Frame /\ queue' = Append(queue, Reply(c))
           /\ ~Starts(Reply(c))
    BY <1>3, Frames DEF Task, Answer, SendReply, Finish, Enqueue, Reply, Starts
  <2> QED  BY <2>1, <2>2
<1>4. CASE Run
  <2>1. CASE Drop /\ Dies  BY <2>1 DEF Drop
  <2>2. CASE Owner /\ down' = down
    <3>1. QueueCell => /\ writer' = writer /\ writer # "stopped" /\ exec = "queueing"
                       /\ Execute(current) \in Frame /\ queue' = Append(queue, Execute(current))
                       /\ Execute(current).id = current
      BY Frames DEF QueueCell, OwnerParts, Enqueue, Becomes, Execute
    <3>2. UNCHANGED <<queue, writer>> \/ (queue' = <<>> /\ writer' = "stopped") \/ QueueCell
      BY <2>2 DEF Owner, CellSent, CellNotSent, Receive, RequestCancel, Interrupt, Drain, Clear,
                  Settle, Retire, Begin
    <3> QED  BY <2>2, <3>1, <3>2
  <2> QED  BY <1>4, <2>1, <2>2 DEF Run
<1>5. CASE UNCHANGED vars
  BY <1>5 DEF vars, pipes, python
<1> QED  BY <1>1, <1>2, <1>3, <1>4, <1>5

LEMMA StaysDead ==
    ASSUME process = "dead", [Next]_vars
    PROVE  process' = "dead"
  BY DEF Next, FrameWriter, WriteBegin, WriteEnd, WriteFail, Dies, Python, ReadCommand, EndCell,
         SendResult, Interrupted, Tear, Exit, Call, SendCall, CancelCall, SendCancel, Write,
         Reader, Task, Run, Stopped, vars, python

LEMMA StepInPart ==
    ASSUME Types, PythonParts, OwnerParts, ReaderParts, InPart, [Next]_vars
    PROVE  InPart'
<1> USE DEF Types, PipeTypes
<1>e. down' = <<>> /\ (process' = "dead" \/ writer' = "stopped") => InPart'
  BY Empty DEF InPart
<1>1. CASE FrameWriter
  <2>1. CASE WriteBegin
    <3> DEFINE f == [frame |-> Head(queue), whole |-> FALSE]
    <3>1. /\ writer = "idle" /\ queue # <<>> /\ writer' = "writing" /\ queue' = queue
          /\ down' = Append(down, f)
      BY <2>1 DEF WriteBegin
    <3>2. f \in DownFrame /\ f.whole = FALSE /\ f.frame = Head(queue)
      BY <3>1, Taken DEF DownFrame
    <3> HIDE DEF f
    <3>3. /\ Len(down) \in Nat /\ Len(down') = Len(down) + 1 /\ down' # <<>>
          /\ down'[Len(down) + 1] = f
          /\ \A i \in 1..Len(down) : down'[i] = down[i]
      BY <3>1, <3>2, Appended
    <3>4. \A i \in 1..Len(down) : down[i].whole  BY <3>1 DEF InPart
    <3>5. ~down'[Len(down')].whole  BY <3>2, <3>3
    <3> QED  BY <3>1, <3>2, <3>3, <3>4, <3>5 DEF InPart
  <2>2. CASE WriteEnd
    <3>1. /\ down # <<>> /\ writer' = "idle"
          /\ down' = [down EXCEPT ![Len(down)].whole = TRUE]
      BY <2>2 DEF WriteEnd, InPart
    <3>2. Len(down) \in Nat /\ Len(down) >= 1 /\ Len(down') = Len(down)  BY <3>1, Taken
    <3>3. \A i \in 1..Len(down) : down'[i].whole
      <4>1. \A i \in 1..Len(down) - 1 : down'[i] = down[i]  BY <3>1, <3>2
      <4>2. down'[Len(down)] = [down[Len(down)] EXCEPT !.whole = TRUE]  BY <3>1, <3>2
      <4>3. down[Len(down)] \in DownFrame  BY <3>2
      <4>4. down'[Len(down)].whole  BY <4>2, <4>3 DEF DownFrame
      <4> QED  BY <3>2, <4>1, <4>4 DEF InPart
    <3> QED  BY <3>1, <3>2, <3>3 DEF InPart
  <2>3. CASE WriteFail
    BY <1>e, <2>3, DeadTypes DEF WriteFail
  <2> QED  BY <1>1, <2>1, <2>2, <2>3 DEF FrameWriter
<1>2. CASE PipeMoves
  <2>1. CASE UNCHANGED <<queue, down, writer>>
    BY <2>1, StaysDead DEF InPart
  <2>2. CASE Grows
    <3>1. queue # <<>> => queue' # <<>> /\ Head(queue') = Head(queue)
      <4>1. PICK f \in Frame : queue' = Append(queue, f)  BY <2>2, Zenon DEF Grows
      <4>2. Append(queue, f) \in Seq(Frame) /\ Append(queue, f) # <<>>
            /\ Len(queue) \in Nat /\ \A i \in 1..Len(queue) : Append(queue, f)[i] = queue[i]
        BY Appended
      <4>3. queue # <<>> => Head(queue) = queue[1] /\ Len(queue) >= 1  BY Taken
      <4>4. Head(queue') = queue'[1]  BY <4>1, <4>2, Taken
      <4> QED  BY <4>1, <4>2, <4>3, <4>4
    <3> QED  BY <2>2, <3>1, StaysDead DEF InPart, Grows
  <2>3. CASE queue' = <<>> /\ writer' = "stopped" /\ down' = down
    BY <2>3 DEF InPart
  <2>4. CASE Dies
    BY <1>e, <2>4, DeadTypes
  <2>5. CASE ReadCommand /\ UNCHANGED <<queue, writer>>
    <3>1. process # "dead" /\ down # <<>> /\ Head(down).whole /\ down' = Tail(down)
      BY <2>5 DEF ReadCommand
    <3>2. /\ Len(down) \in Nat /\ Len(down) >= 1 /\ Len(down') = Len(down) - 1
          /\ Head(down) = down[1] /\ down' \in Seq(DownFrame)
          /\ \A i \in 1..Len(down) - 1 : down'[i] = down[i + 1]
      BY <3>1, Taken
    <3>3. \A i \in 1..Len(down') - 1 : down'[i].whole
      <4> TAKE i \in 1..Len(down') - 1
      <4>1. i + 1 \in 1..Len(down) - 1 /\ i \in 1..Len(down) - 1  BY <3>2
      <4>2. down'[i] = down[i + 1]  BY <3>2, <4>1
      <4>3. down[i + 1].whole  BY <4>1 DEF InPart
      <4> QED  BY <4>2, <4>3
    <3>4. CASE writer = "idle"
      BY <2>5, <3>2, <3>3, <3>4 DEF InPart
    <3>5. CASE writer = "writing"
      <4>1. ~down[Len(down)].whole  BY <3>1, <3>5 DEF InPart
      <4>2. Len(down) # 1  BY <3>1, <3>2, <4>1
      <4>3. down'[Len(down')] = down[Len(down)] /\ Len(down') >= 1  BY <3>2, <4>2
      <4>4. down' # <<>>  BY <4>3, Empty
      <4> QED  BY <2>5, <3>1, <3>3, <3>5, <4>1, <4>3, <4>4 DEF InPart
    <3>6. CASE writer = "stopped"
      BY <2>5, <3>3, <3>6 DEF InPart
    <3> QED  BY <3>4, <3>5, <3>6
  <2> QED  BY <1>2, <2>1, <2>2, <2>3, <2>4, <2>5 DEF PipeMoves
<1> QED  BY <1>1, <1>2, StepPipes DEF Next, Stopped

\* The worker changes hands at rest.
Untouched == UNCHANGED <<process, cell, unsent, cancels, fatal, future, up, torn, queue, writer, down,
                         reader, reading, event, task, handles>>

LEMMA StepCurrent ==
    ASSUME Types, OwnerParts, Results, AtRest, [Next]_vars
    PROVE  \/ current' = current
           \/ Quiet /\ Unfinished = {} /\ Untouched /\ alive' = alive
           \/ ~alive' /\ down' = <<>> /\ cell' = NoRun
<1> USE DEF Types, OwnerTypes, OwnerParts
<1>1. CASE UNCHANGED owner
  BY <1>1 DEF owner
<1>2. CASE Run
  <2>1. CASE Owner /\ UNCHANGED <<process, cell, unsent, cancels, fatal, up, down, reader>>
    <3>1. current' = current \/ Settle \/ \E r \in Runs : Begin(r)
      BY <2>1 DEF Owner, QueueCell, CellSent, CellNotSent, Receive, RequestCancel, Interrupt, Drain,
                  Clear, Retire, End, Becomes
    <3>2. CASE Settle
      <4>1. current' = current \/ (outcome[current] = "preserved" /\ Untouched /\ alive' = alive)
        BY <1>2, <2>1, <3>2 DEF Settle, Untouched, Run
      <4>2. outcome[current] = "preserved" => event[current] = "result" /\ Unfinished = {}
        BY <3>2 DEF Settle, AtRest
      <4>3. current \in Runs  BY <3>2 DEF Settle
      <4>4. event[current] = "result" => Quiet
        BY <4>3 DEF Results
      <4> QED  BY <4>1, <4>2, <4>4
    <3>3. CASE \E r \in Runs : Begin(r)
      <4>1. exec = "idle" /\ alive' = alive /\ Untouched  BY <1>2, <2>1, <3>3 DEF Begin, Untouched, Run
      <4> QED  BY <4>1 DEF AtRest
    <3> QED  BY <3>1, <3>2, <3>3
  <2>2. CASE Drop /\ Dies
    BY <2>2, DeadTypes DEF Drop
  <2> QED  BY <1>2, <2>1, <2>2 DEF Run
<1> QED  BY <1>1, <1>2 DEF Next, Stopped, FrameWriter, Python, Reader, Task, vars

LEMMA StepCell ==
    ASSUME Types, [Next]_vars
    PROVE  cell' = cell \/ cell' = NoRun \/ ReadCommand
  BY DeadTypes DEF Next, FrameWriter, WriteBegin, WriteEnd, WriteFail, Python, EndCell,
         SendResult, Interrupted, Tear, Exit, Call, SendCall, CancelCall, SendCancel, Write,
         Reader, Task, Run, Stopped, vars, python

LEMMA StepToken ==
    ASSUME Types, PythonParts, OwnerParts, ReaderParts, InPart, Token, Results, AtRest, [Next]_vars,
           OwnerParts'
    PROVE  Token'
<1> USE DEF Types, PipeTypes, Starts
<1>e. down' = <<>> /\ queue' = <<>> /\ cell' = NoRun => Token'
  BY Empty DEF Token
<1>1. CASE FrameWriter
  <2>1. current' = current  BY <1>1 DEF FrameWriter, owner
  <2>2. CASE WriteBegin
    <3> DEFINE f == [frame |-> Head(queue), whole |-> FALSE]
    <3>1. /\ writer = "idle" /\ queue # <<>> /\ writer' = "writing" /\ queue' = queue
          /\ down' = Append(down, f) /\ cell' = cell
      BY <2>2 DEF WriteBegin, python
    <3>2. f \in DownFrame /\ f.frame = queue[1] /\ 1 \in 1..Len(queue)
      BY <3>1, Taken DEF DownFrame
    <3> HIDE DEF f
    <3>3. /\ Len(down) \in Nat /\ Len(down') = Len(down) + 1
          /\ down'[Len(down) + 1] = f
          /\ \A i \in 1..Len(down) : down'[i] = down[i]
      BY <3>1, <3>2, Appended
    <3>4. \A i \in 1..Len(queue) : Starts(queue[i]) =>
             /\ queue[i].id = current /\ cell = NoRun
             /\ \A j \in 1..Len(queue) : Starts(queue[j]) => j = i
             /\ \A j \in 1..Len(down) : ~Starts(down[j].frame)
      BY <3>1 DEF Token
    <3>5. \A j \in 1..Len(down') : Starts(down'[j].frame) =>
             \/ j = Len(down') /\ Starts(queue[1])
             \/ j \in 1..Len(down) /\ Starts(down[j].frame) /\ down'[j] = down[j]
      BY <3>2, <3>3
    <3>6. ASSUME NEW i \in 1..Len(queue), Starts(queue[i])
          PROVE  /\ queue[i].id = current /\ cell = NoRun
                 /\ \A j \in 1..Len(queue) : Starts(queue[j]) => j = i
                 /\ \A j \in 1..Len(down') : Starts(down'[j].frame) => j = Len(down') /\ i = 1
      BY <3>2, <3>4, <3>5, <3>6
    <3>7. ASSUME NEW i \in 1..Len(down'), Starts(down'[i].frame)
          PROVE  /\ down'[i].frame.id = current /\ cell = NoRun
                 /\ \A j \in 1..Len(down') : Starts(down'[j].frame) => j = i
      <4>1. CASE i = Len(down') /\ Starts(queue[1])
        <5>1. down'[i].frame = queue[1]  BY <3>2, <3>3, <4>1
        <5> QED  BY <3>2, <3>4, <3>6, <4>1, <5>1
      <4>2. CASE i \in 1..Len(down) /\ Starts(down[i].frame) /\ down'[i] = down[i]
        <5>1. ~Starts(queue[1])  BY <3>2, <3>4, <4>2
        <5> QED  BY <3>5, <4>2, <5>1 DEF Token
      <4> QED  BY <3>5, <3>7, <4>1, <4>2
    <3>8. cell # NoRun => cell = current  BY DEF Token
    <3> QED  BY <2>1, <3>1, <3>6, <3>7, <3>8 DEF Token
  <2>3. CASE WriteEnd
    <3>1. /\ writer = "writing" /\ down # <<>> /\ queue # <<>> /\ queue' = Tail(queue) /\ cell' = cell
          /\ down' = [down EXCEPT ![Len(down)].whole = TRUE]
      BY <2>3 DEF WriteEnd, InPart, python
    <3>2. Len(down) \in Nat /\ Len(down) >= 1 /\ Len(down') = Len(down)  BY <3>1, Taken
    <3>3. \A i \in 1..Len(down) : down'[i].frame = down[i].frame
      <4>1. \A i \in 1..Len(down) - 1 : down'[i] = down[i]  BY <3>1, <3>2
      <4>2. down'[Len(down)] = [down[Len(down)] EXCEPT !.whole = TRUE]  BY <3>1, <3>2
      <4>3. down[Len(down)] \in DownFrame  BY <3>2
      <4>4. down'[Len(down)].frame = down[Len(down)].frame  BY <4>2, <4>3 DEF DownFrame
      <4>5. \A i \in 1..Len(down) : i \in 1..Len(down) - 1 \/ i = Len(down)  BY <3>2
      <4> QED  BY <4>1, <4>4, <4>5
    <3>4. /\ Len(queue) \in Nat /\ Len(queue') = Len(queue) - 1
          /\ \A i \in 1..Len(queue') : queue'[i] = queue[i + 1] /\ i + 1 \in 1..Len(queue)
      BY <3>1, Taken
    <3>5. ASSUME NEW i \in 1..Len(queue'), Starts(queue'[i])
          PROVE  /\ queue'[i].id = current /\ cell = NoRun
                 /\ \A j \in 1..Len(queue') : Starts(queue'[j]) => j = i
                 /\ \A j \in 1..Len(down') : ~Starts(down'[j].frame)
      <4>1. Starts(queue[i + 1]) /\ i + 1 \in 1..Len(queue) /\ i + 1 # 1  BY <3>4, <3>5
      <4>2. \A j \in 1..Len(down) : ~Starts(down[j].frame)  BY <4>1 DEF Token
      <4>3. \A j \in 1..Len(queue') : Starts(queue'[j]) => j + 1 = i + 1
        BY <3>4, <4>1 DEF Token
      <4>4. \A j \in 1..Len(queue') : Starts(queue'[j]) => j = i  BY <4>3, <3>4
      <4>5. \A j \in 1..Len(down') : ~Starts(down'[j].frame)  BY <3>2, <3>3, <4>2
      <4>6. queue'[i].id = current /\ cell = NoRun  BY <3>4, <4>1 DEF Token
      <4> QED  BY <4>4, <4>5, <4>6
    <3>6. ASSUME NEW i \in 1..Len(down'), Starts(down'[i].frame)
          PROVE  /\ down'[i].frame.id = current /\ cell = NoRun
                 /\ \A j \in 1..Len(down') : Starts(down'[j].frame) => j = i
      BY <3>2, <3>3, <3>6 DEF Token
    <3>7. cell # NoRun => cell = current  BY DEF Token
    <3> QED  BY <2>1, <3>1, <3>5, <3>6, <3>7 DEF Token
  <2>4. CASE WriteFail
    BY <1>e, <2>4, DeadTypes DEF WriteFail
  <2> QED  BY <1>1, <2>2, <2>3, <2>4 DEF FrameWriter
<1>2. CASE PipeMoves
  <2>1. CASE ReadCommand /\ UNCHANGED <<queue, writer>> /\ current' = current
    <3>1. process # "dead" /\ down # <<>> /\ Head(down).whole /\ down' = Tail(down)
          /\ \/ Head(down).frame.type = "execute" /\ cell' = Head(down).frame.id
             \/ Head(down).frame.type = "reply" /\ cell' = cell
      BY <2>1 DEF ReadCommand
    <3>2. /\ Len(down) \in Nat /\ Len(down) >= 1 /\ Len(down') = Len(down) - 1
          /\ Head(down) = down[1]
          /\ \A i \in 1..Len(down') : down'[i] = down[i + 1] /\ i + 1 \in 1..Len(down)
      BY <3>1, Taken
    <3>3. CASE Starts(down[1].frame)
      <4>1. \A i \in 1..Len(down') : ~Starts(down'[i].frame)
        <5>1. \A i \in 1..Len(down) : Starts(down[i].frame) => i = 1
          BY <3>2, <3>3 DEF Token
        <5> QED  BY <3>2, <5>1
      <4>2. \A i \in 1..Len(queue) : ~Starts(queue[i])
        <5>1. ASSUME NEW i \in 1..Len(queue), Starts(queue[i]) PROVE FALSE
          <6>1. writer = "writing" /\ Len(down) = 1  BY <3>2, <3>3, <5>1 DEF Token
          <6> QED  BY <3>1, <3>2, <6>1 DEF InPart
        <5> QED  BY <5>1
      <4>3. down[1].frame.id = current  BY <3>2, <3>3 DEF Token
      <4>4. cell' = current  BY <3>1, <3>2, <3>3, <4>3
      <4> QED  BY <2>1, <4>1, <4>2, <4>4 DEF Token
    <3>4. CASE ~Starts(down[1].frame)
      <4>1. cell' = cell  BY <3>1, <3>2, <3>4
      <4>2. ASSUME NEW i \in 1..Len(down'), Starts(down'[i].frame)
            PROVE  /\ down'[i].frame.id = current /\ cell = NoRun
                   /\ \A j \in 1..Len(down') : Starts(down'[j].frame) => j = i
        <5>1. \A j \in 1..Len(down') : Starts(down'[j].frame) => j + 1 = i + 1
          BY <3>2, <4>2 DEF Token
        <5>2. \A j \in 1..Len(down') : Starts(down'[j].frame) => j = i
          <6> HIDE DEF Starts
          <6>1. \A j \in 1..Len(down') : j + 1 = i + 1 => j = i  BY <3>2
          <6> QED  BY <5>1, <6>1
        <5>3. i + 1 \in 1..Len(down) /\ down'[i] = down[i + 1] /\ Starts(down[i + 1].frame)
          BY <3>2, <4>2
        <5>4. down[i + 1].frame.id = current /\ cell = NoRun  BY <5>3 DEF Token
        <5> QED  BY <5>2, <5>3, <5>4
      <4>3. ASSUME NEW i \in 1..Len(queue), Starts(queue[i])
            PROVE  /\ queue[i].id = current /\ cell = NoRun
                   /\ \A j \in 1..Len(queue) : Starts(queue[j]) => j = i
                   /\ \A j \in 1..Len(down') : Starts(down'[j].frame) =>
                         writer = "writing" /\ j = Len(down') /\ i = 1
        <5>1. \A j \in 1..Len(down') : Starts(down'[j].frame) =>
                         writer = "writing" /\ j + 1 = Len(down) /\ i = 1
          BY <3>2, <4>3 DEF Token
        <5> QED  BY <3>2, <4>3, <5>1 DEF Token
      <4> QED  BY <2>1, <4>1, <4>2, <4>3 DEF Token
    <3> QED  BY <3>3, <3>4
  <2>2. CASE ~ReadCommand /\ current' = current
    <3>1. cell' = cell \/ cell' = NoRun  BY <2>2, StepCell
    <3>2. CASE UNCHANGED <<queue, down, writer>>
      BY <2>2, <3>1, <3>2 DEF Token
    <3>3. CASE Grows
      <4>1. PICK f \in Frame : /\ queue' = Append(queue, f)
                               /\ Starts(f) => f.id = current /\ exec = "queueing"
        BY <3>3, Zenon DEF Grows
      <4>2. /\ Len(queue) \in Nat /\ Len(queue') = Len(queue) + 1
            /\ queue'[Len(queue) + 1] = f
            /\ \A i \in 1..Len(queue) : queue'[i] = queue[i]
        BY <4>1, Appended
      <4>3. CASE Starts(f)
        <5>1. Rested /\ cell = NoRun  BY <4>1, <4>3 DEF AtRest, Quiet, Rested, PythonParts
        <5>2. \A i \in 1..Len(queue') : Starts(queue'[i]) => i = Len(queue) + 1
          BY <4>2, <5>1 DEF Rested
        <5>3. \A i \in 1..Len(down') : ~Starts(down'[i].frame)  BY <3>3, <5>1 DEF Rested, Grows
        <5> QED  BY <2>2, <3>1, <4>1, <4>2, <5>1, <5>2, <5>3 DEF Token
      <4>4. CASE ~Starts(f)
        <5>1. \A i \in 1..Len(queue') : Starts(queue'[i]) =>
                i \in 1..Len(queue) /\ queue'[i] = queue[i] /\ Starts(queue[i])
          BY <4>2, <4>4
        <5> QED  BY <2>2, <3>1, <3>3, <5>1 DEF Token, Grows
      <4> QED  BY <4>3, <4>4
    <3>4. CASE queue' = <<>> /\ down' = down
      <4>1. \A i : i \notin 1..Len(queue')  BY <3>4, Empty
      <4> QED  BY <2>2, <3>1, <3>4, <4>1 DEF Token
    <3>5. CASE Dies /\ ((queue' = <<>> /\ writer' = "stopped") \/ UNCHANGED <<queue, writer>>)
      <4>1. down' = <<>> /\ cell' = NoRun  BY <3>5, DeadTypes
      <4>2. \A i : i \notin 1..Len(down')  BY <4>1, Empty
      <4> QED  BY <1>e, <2>2, <3>5, <4>1, <4>2 DEF Token
    <3> QED  BY <1>2, <2>2, <3>2, <3>3, <3>4, <3>5 DEF PipeMoves
  <2>3. CASE Quiet /\ Untouched
    BY <2>3 DEF Token, Quiet, Rested, Untouched, PythonParts
  <2>4. CASE ~alive' /\ down' = <<>> /\ cell' = NoRun
    BY <1>e, <2>4 DEF OwnerParts
  <2>5. CASE ReadCommand /\ ~UNCHANGED <<queue, writer>>
    <3>1. down # <<>> /\ down' = Tail(down) /\ process' # "dead"  BY <2>5 DEF ReadCommand
    <3>2. Len(down) \in Nat /\ Len(down') # Len(down)  BY <3>1, Taken
    <3>3. down' # down /\ ~Dies  BY <3>1, <3>2 DEF Dies
    <3> QED  BY <1>2, <2>5, <3>3 DEF PipeMoves, Grows
  <2> QED  BY <2>1, <2>2, <2>3, <2>4, <2>5, StepCurrent
<1> QED  BY <1>1, <1>2, StepPipes DEF Next, Stopped

-----------------------------------------------------------------------------
(* The way back.                                                             *)

\* A process that is at rest stays so until it is sent a cell.
LEMMA StaysRested ==
    ASSUME Types, PythonParts, OwnerParts, ReaderParts, InPart, Rested, ~QueueCell, [Next]_vars
    PROVE  Rested'
<1> USE DEF Types, PipeTypes
<1>1. process' \in {"idle", "dead"} /\ (process' = "idle" => process = "idle")
  <2>1. ReadCommand => process' = process
    <3>1. ReadCommand => down # <<>> /\ (Head(down).frame.type = "execute" \/ process' = process)
      BY DEF ReadCommand
    <3>2. down # <<>> => 1 \in 1..Len(down) /\ Head(down) = down[1]  BY Taken
    <3> QED  BY <3>1, <3>2 DEF Rested, Starts
  <2> QED
    BY <2>1, DeadTypes DEF Rested, Next, FrameWriter, WriteBegin, WriteEnd, WriteFail, Python, EndCell,
         SendResult, Interrupted, Tear, Exit, Call, SendCall, CancelCall, SendCancel, Write,
         Reader, Task, Run, Stopped, vars, python
<1>2. process = "idle" => torn' = torn \/ torn' = FALSE
  BY DEF Rested, PythonParts, Next, FrameWriter, Python, ReadCommand, EndCell, SendResult,
         Interrupted, Tear, Exit, Call, SendCall, CancelCall, SendCancel, Write,
         Reader, Task, Run, Stopped, vars, pipes
<1>3. /\ \A i \in 1..Len(queue') : ~Starts(queue'[i])
      /\ \A i \in 1..Len(down') : ~Starts(down'[i].frame)
  <2>1. CASE FrameWriter
    <3>1. CASE WriteBegin
      <4> DEFINE f == [frame |-> Head(queue), whole |-> FALSE]
      <4>1. queue # <<>> /\ queue' = queue /\ down' = Append(down, f)  BY <3>1 DEF WriteBegin
      <4>2. f \in DownFrame /\ f.frame = queue[1] /\ 1 \in 1..Len(queue)
        BY <4>1, Taken DEF DownFrame
      <4> HIDE DEF f
      <4>3. /\ Len(down) \in Nat /\ Len(down') = Len(down) + 1
            /\ down'[Len(down) + 1] = f
            /\ \A i \in 1..Len(down) : down'[i] = down[i]
        BY <4>1, <4>2, Appended
      <4> QED  BY <4>1, <4>2, <4>3 DEF Rested
    <3>2. CASE WriteEnd
      <4>1. /\ down # <<>> /\ queue # <<>> /\ queue' = Tail(queue)
            /\ down' = [down EXCEPT ![Len(down)].whole = TRUE]
        BY <3>2 DEF WriteEnd, InPart
      <4>2. Len(down) \in Nat /\ Len(down) >= 1 /\ Len(down') = Len(down)  BY <4>1, Taken
      <4>3. \A i \in 1..Len(down) : down'[i].frame = down[i].frame
        <5>1. \A i \in 1..Len(down) - 1 : down'[i] = down[i]  BY <4>1, <4>2
        <5>2. down'[Len(down)] = [down[Len(down)] EXCEPT !.whole = TRUE]  BY <4>1, <4>2
        <5>3. down[Len(down)] \in DownFrame  BY <4>2
        <5>4. down'[Len(down)].frame = down[Len(down)].frame  BY <5>2, <5>3 DEF DownFrame
        <5>5. \A i \in 1..Len(down) : i \in 1..Len(down) - 1 \/ i = Len(down)  BY <4>2
        <5> QED  BY <5>1, <5>4, <5>5
      <4>4. /\ Len(queue) \in Nat /\ Len(queue') = Len(queue) - 1
            /\ \A i \in 1..Len(queue') : queue'[i] = queue[i + 1] /\ i + 1 \in 1..Len(queue)
        BY <4>1, Taken
      <4> QED  BY <4>2, <4>3, <4>4 DEF Rested
    <3>3. CASE WriteFail
      <4>1. queue' = <<>> /\ down' = <<>>  BY <3>3, DeadTypes DEF WriteFail
      <4>2. \A i : i \notin 1..Len(queue') /\ i \notin 1..Len(down')  BY <4>1, Empty
      <4> QED  BY <4>2
    <3> QED  BY <2>1, <3>1, <3>2, <3>3 DEF FrameWriter
  <2>2. CASE PipeMoves
    <3>1. CASE UNCHANGED <<queue, down, writer>>
      BY <3>1 DEF Rested
    <3>2. CASE Grows
      <4>1. PICK f \in Frame : queue' = Append(queue, f) /\ ~Starts(f)  BY <3>2 DEF Grows
      <4>2. /\ Len(queue) \in Nat /\ Len(queue') = Len(queue) + 1
            /\ queue'[Len(queue) + 1] = f
            /\ \A i \in 1..Len(queue) : queue'[i] = queue[i]
        BY <4>1, Appended
      <4>3. down' = down  BY <3>2 DEF Grows
      <4> QED  BY <4>1, <4>2, <4>3 DEF Rested
    <3>3. CASE queue' = <<>> /\ down' = down
      <4>1. \A i : i \notin 1..Len(queue')  BY <3>3, Empty
      <4> QED  BY <3>3, <4>1 DEF Rested
    <3>4. CASE Dies /\ (queue' = queue \/ queue' = <<>>)
      <4>1. \A i : i \notin 1..Len(down')  BY <3>4, DeadTypes, Empty
      <4>2. queue' = <<>> => \A i : i \notin 1..Len(queue')  BY Empty
      <4> QED  BY <3>4, <4>1, <4>2 DEF Rested
    <3>5. CASE ReadCommand /\ queue' = queue
      <4>1. down # <<>> /\ down' = Tail(down)  BY <3>5 DEF ReadCommand
      <4>2. /\ Len(down) \in Nat /\ Len(down') = Len(down) - 1
            /\ \A i \in 1..Len(down') : down'[i] = down[i + 1] /\ i + 1 \in 1..Len(down)
        BY <4>1, Taken
      <4> QED  BY <3>5, <4>2 DEF Rested
    <3> QED  BY <2>2, <3>1, <3>2, <3>3, <3>4, <3>5 DEF PipeMoves
  <2> QED  BY <2>1, <2>2, StepPipes DEF Next, Stopped
<1> QED  BY <1>1, <1>2, <1>3 DEF Rested

\* What the actions do to the frames on the way back.
Reads == reader = "idle" /\ up # <<>> /\ up' = Tail(up)
Writes == \/ \E c \in Calls : (SendCall(c) /\ Write(Rpc(c))) \/ (SendCancel(c) /\ Write(Cancel(c)))
          \/ SendResult /\ Write(Result(cell))

LEMMA StepUp ==
    ASSUME [Next]_vars
    PROVE  \/ up' = up
           \/ Reads /\ Reader /\ (CancelFrame \/ RpcFrame \/ OtherFrame)
           \/ Python /\ Writes
           \/ Run /\ Drop /\ up' = <<>>
<1>1. CASE FrameWriter \/ (\E c \in Calls : Task(c)) \/ UNCHANGED vars
  BY <1>1 DEF FrameWriter, Task, vars, pipes
<1>2. CASE Python
  BY <1>2 DEF Python, ReadCommand, EndCell, SendResult, Interrupted, Tear, Exit, Call, SendCall,
              CancelCall, SendCancel, Writes
<1>3. CASE Reader
  BY <1>3 DEF Reader, Refuse, Reading, CancelFrame, RpcFrame, OtherFrame, Eof, Spawn, Insert,
              Refused, Reads
<1>4. CASE Run
  BY <1>4 DEF Run
<1> QED  BY <1>1, <1>2, <1>3, <1>4 DEF Next, Stopped

\* A process at rest has nothing to write.
LEMMA RestWrites ==
    ASSUME PythonParts, Rested
    PROVE  ~Writes
  BY DEF PythonParts, Rested, Writes, SendCall, SendCancel, SendResult

LEMMA ReadFrame ==
    ASSUME Types, Reads
    PROVE  /\ Head(up) = up[1] /\ 1 \in 1..Len(up) /\ Head(up) \in UpFrame
           /\ Len(up) \in Nat /\ Len(up') = Len(up) - 1 /\ up' \in Seq(UpFrame)
           /\ \A i \in 1..Len(up') : up'[i] = up[i + 1] /\ i + 1 \in 1..Len(up)
  BY Taken DEF Reads, Types, PipeTypes

LEMMA StepUnfinished ==
    ASSUME Types, ReaderParts, [Next]_vars
    PROVE  Unfinished' \subseteq Unfinished \/ (Reader /\ Spawn /\ Unfinished' \subseteq Unfinished \cup {reading})
<1> USE DEF Types, RpcTypes, Unfinished
<1>1. CASE FrameWriter \/ Python \/ UNCHANGED vars
  BY <1>1 DEF FrameWriter, Python, vars, rpcs
<1>2. CASE Reader
  <2>1. CASE CancelFrame
    BY <2>1, AbortedTypes DEF CancelFrame
  <2>2. CASE Spawn
    BY <1>2, <2>2 DEF Spawn, ReaderParts
  <2>3. CASE Refuse \/ RpcFrame \/ OtherFrame \/ Eof \/ Insert \/ Refused
    BY <2>3 DEF Refuse, RpcFrame, OtherFrame, Eof, Insert, Refused
  <2> QED  BY <1>2, <2>1, <2>2, <2>3 DEF Reader, Reading
<1>3. ASSUME NEW c \in Calls, Task(c) PROVE Unfinished' \subseteq Unfinished
  BY <1>3 DEF Task, Answer, SendReply, Finish
<1>4. CASE Run
  BY <1>4, AbortedTypes DEF Run, Owner, QueueCell, CellSent, CellNotSent, Receive, RequestCancel,
       Interrupt, Drain, Clear, Settle, Retire, Begin, Drop, Drained
<1> QED  BY <1>1, <1>2, <1>3, <1>4 DEF Next, Stopped

\* Where nothing more comes, nothing is read and no task begins.
LEMMA StaysQuiet ==
    ASSUME Types, PythonParts, ReaderParts, Quiet, [Next]_vars
    PROVE  /\ NoneComing' /\ reader' \notin {"checked", "spawned"}
           /\ Unfinished' \subseteq Unfinished /\ event' = event
<1> USE DEF Quiet
<1>1. NoneComing'
  <2>1. CASE up' = up  BY <2>1 DEF NoneComing, Last
  <2>2. CASE Reads  BY <2>2, ReadFrame DEF NoneComing, Last
  <2>3. CASE up' = <<>>
    <3>1. \A i : i \notin 1..Len(up')  BY <2>3, Empty
    <3> QED  BY <3>1 DEF NoneComing
  <2> QED  BY <2>1, <2>2, <2>3, StepUp, RestWrites
<1>2. ~RpcFrame /\ (OtherFrame => event' = event)
  <2>1. RpcFrame \/ OtherFrame => Reads  BY DEF RpcFrame, OtherFrame, Reads
  <2>2. Reads => Head(up).type \notin {"rpc", "result", "fatal"}
    BY ReadFrame DEF NoneComing, Last
  <2> QED  BY <2>1, <2>2 DEF RpcFrame, OtherFrame
<1>3. event' = event
  BY <1>2 DEF Next, FrameWriter, Python, Reader, Refuse, Reading, CancelFrame, Eof, Spawn, Insert,
     Refused, Task, Run, Stopped, vars, rpcs
<1>4. reader' = reader \/ reader' \in {"idle", "refusing", "refused", "ended"}
  BY <1>2 DEF Next, FrameWriter, Python, Reader, Refuse, Reading, CancelFrame, OtherFrame, Eof, Spawn,
     Insert, Refused, Task, Run, Stopped, vars, rpcs
<1>5. Unfinished' \subseteq Unfinished  BY StepUnfinished DEF Spawn
<1> QED  BY <1>1, <1>3, <1>4, <1>5

LEMMA ResultsKept ==
    ASSUME Types, Results, Rested => Rested', current' = current, event' = event,
           \A r \in Runs : outcome[r] # "none" => outcome'[r] # "none",
           Quiet => reader' \notin {"checked", "spawned"},
           up' = up \/ Reads
    PROVE  Results'
<1>1. \E d \in {0, 1} : \A i \in 1..Len(up') : i + d \in 1..Len(up) /\ up'[i] = up[i + d]
  <2>1. CASE up' = up
    <3>1. \A i \in 1..Len(up') : i + 0 \in 1..Len(up) /\ up'[i] = up[i + 0]
      BY <2>1 DEF Types, PipeTypes
    <3> QED  BY <3>1
  <2>2. CASE Reads
    <3>1. \A i \in 1..Len(up') : i + 1 \in 1..Len(up) /\ up'[i] = up[i + 1]  BY <2>2, ReadFrame
    <3> QED  BY <3>1
  <2> QED  BY <2>1, <2>2
<1> PICK d \in {0, 1} : \A i \in 1..Len(up') : i + d \in 1..Len(up) /\ up'[i] = up[i + d]  BY <1>1
<1>2. Len(up) \in Nat /\ Len(up') \in Nat
  BY ReadFrame DEF Types, PipeTypes
<1>3. ASSUME NEW i \in 1..Len(up'), Last(i)'
      PROVE  /\ up'[i].id = current /\ event[current] = "none" /\ Rested'
             /\ \A j \in 1..Len(up') : Last(j)' => j = i
             /\ \A j \in i + 1..Len(up') : up'[j].type # "rpc"
  <2>1. i + d \in 1..Len(up) /\ up'[i] = up[i + d]  OBVIOUS
  <2>2. /\ up[i + d].id = current /\ event[current] = "none" /\ Rested
        /\ \A j \in 1..Len(up) : Last(j) => j = i + d
        /\ \A j \in i + d + 1..Len(up) : up[j].type # "rpc"
    BY <1>3, <2>1 DEF Results, Last
  <2>3. \A j \in 1..Len(up') : Last(j)' => j = i
    BY <1>2, <2>1, <2>2 DEF Last
  <2>4. ASSUME NEW j \in i + 1..Len(up') PROVE up'[j].type # "rpc"
    <3>1. j \in 1..Len(up')  BY <1>2
    <3>2. j + d \in i + d + 1..Len(up) /\ up'[j] = up[j + d]  BY <1>2, <3>1
    <3> QED  BY <2>2, <3>2
  <2> QED  BY <2>1, <2>2, <2>3, <2>4
<1>4. NoneComing => NoneComing'
  BY DEF NoneComing, Last
<1>5. Quiet => Quiet'  BY <1>4 DEF Quiet
<1>6. ASSUME NEW i \in 1..Len(up'), Last(i)'
      PROVE  /\ up'[i].id = current' /\ event'[current'] = "none" /\ Rested'
             /\ \A j \in 1..Len(up') : Last(j)' => j = i
             /\ \A j \in i + 1..Len(up') : up'[j].type # "rpc"
  BY <1>3, <1>6
<1>7. ASSUME NEW r \in Runs, event'[r] # "none"
      PROVE  \/ outcome'[r] # "none" /\ r # current'
             \/ r = current' /\ Quiet'
  BY <1>5, <1>7 DEF Results
<1> QED  BY <1>6, <1>7 DEF Results

LEMMA StepOutcome ==
    ASSUME Types, OwnerParts, [Next]_vars
    PROVE  \A r \in Runs : outcome[r] # "none" => outcome'[r] # "none"
<1> USE DEF Types, OwnerTypes, OwnerParts
<1>1. CASE UNCHANGED owner  BY <1>1 DEF owner
<1>2. CASE Run
  <2>1. UNCHANGED outcome \/ CellNotSent \/ Receive \/ Drop
    BY <1>2 DEF Run, Owner, QueueCell, CellSent, RequestCancel, Interrupt, Drain, Clear, Settle,
                Retire, Begin
  <2>2. CellNotSent \/ Receive => \E how \in {"preserved", "fatal", "gone", "overdue", "unsent"} :
                                     outcome' = [outcome EXCEPT ![current] = how]
    BY DEF CellNotSent, Receive, End
  <2>3. CASE Drop  BY <2>3 DEF Drop
  <2> QED  BY <2>1, <2>2, <2>3
<1> QED  BY <1>1, <1>2 DEF Next, Stopped, FrameWriter, Python, Reader, Task, vars

LEMMA StepOwner ==
    ASSUME [Next]_vars
    PROVE  \/ current' = current /\ ~QueueCell
           \/ Run /\ (QueueCell \/ Settle \/ Drop \/ \E r \in Runs : Begin(r))
<1>1. UNCHANGED owner => current' = current /\ ~QueueCell
  BY DEF owner, QueueCell, Becomes
<1>2. Owner => \/ current' = current /\ ~QueueCell
               \/ QueueCell \/ Settle \/ \E r \in Runs : Begin(r)
  BY DEF Owner, CellSent, CellNotSent, Receive, RequestCancel, Interrupt, Drain, Clear,
         Retire, End, Becomes, QueueCell
<1> QED  BY <1>1, <1>2 DEF Next, Stopped, FrameWriter, Python, Reader, Task, Run, vars

LEMMA StepResults ==
    ASSUME Types, Flags, PythonParts, OwnerParts, ReaderParts, InPart, Token, Results, AtRest,
           [Next]_vars, OwnerParts'
    PROVE  Results'
<1> USE DEF Types, PipeTypes
<1>o. \A r \in Runs : outcome[r] # "none" => outcome'[r] # "none"  BY StepOutcome
<1>1. CASE Python /\ Writes
  <2>1. UNCHANGED <<current, event, outcome, queue>> /\ ~Rested
    BY <1>1, RestWrites DEF Python, owner, rpcs
  <2>2. \A i \in 1..Len(up) : ~Last(i)  BY <2>1 DEF Results
  <2>3. \A r \in Runs : event[r] # "none" => outcome[r] # "none" /\ r # current
    BY <2>1 DEF Results, Quiet
  <2>4. ASSUME NEW f \in UpFrame, f.type \notin {"result", "fatal"}, up' = Append(up, f)
        PROVE  Results'
    <3>1. /\ Len(up) \in Nat /\ Len(up') = Len(up) + 1 /\ up'[Len(up) + 1] = f
          /\ \A i \in 1..Len(up) : up'[i] = up[i]
      BY <2>4, Appended
    <3>2. \A i \in 1..Len(up') : ~Last(i)'  BY <2>2, <2>4, <3>1 DEF Last
    <3> QED  BY <2>1, <2>3, <3>2 DEF Results
  <2>5. ASSUME NEW f \in UpFrame, f.type \notin {"result", "fatal"}, Write(f) PROVE Results'
    <3>1. CASE torn
      <4>1. [type |-> "garbled", id |-> f.id] \in UpFrame  BY Frames, FrameTypes
      <4>2. up' = Append(up, [type |-> "garbled", id |-> f.id])  BY <2>5, <3>1 DEF Write
      <4> QED  BY <2>4, <4>1, <4>2
    <3>2. CASE ~torn
      <4>1. up' = Append(up, f)  BY <2>5, <3>2 DEF Write
      <4> QED  BY <2>4, <2>5, <4>1
    <3> QED  BY <3>1, <3>2 DEF Flags
  <2>6. CASE \E c \in Calls : Write(Rpc(c)) \/ Write(Cancel(c))
    <3>1. \A c \in Calls : Rpc(c).type = "rpc" /\ Cancel(c).type = "cancel"  BY DEF Rpc, Cancel
    <3> QED  BY <2>5, <2>6, <3>1, Frames
  <2>7. CASE SendResult /\ Write(Result(cell))
    <3> DEFINE f == Result(cell)
    <3>1. process = "ending" /\ cell \in Runs /\ cell = current
      BY <2>7 DEF SendResult, PythonParts, PythonTypes, Token
    <3>2. f \in UpFrame /\ f.id = current /\ f.type \in {"result", "fatal"}
      BY <3>1, Frames DEF Result
    <3>3. CASE torn
      <4>1. [type |-> "garbled", id |-> f.id] \in UpFrame  BY <3>2, Frames, FrameTypes
      <4>2. up' = Append(up, [type |-> "garbled", id |-> f.id])  BY <2>7, <3>3 DEF Write
      <4> QED  BY <2>4, <4>1, <4>2
    <3>4. CASE ~torn
      <4>1. up' = Append(up, f) /\ torn' = FALSE  BY <2>7, <3>4 DEF Write
      <4> HIDE DEF f
      <4>2. /\ Len(up) \in Nat /\ Len(up') = Len(up) + 1 /\ up'[Len(up) + 1] = f
            /\ \A i \in 1..Len(up) : up'[i] = up[i]
        BY <3>2, <4>1, Appended
      <4>3. \A i \in 1..Len(up') : Last(i)' => i = Len(up')  BY <2>2, <4>2 DEF Last
      <4>4. event[current] = "none"  BY <2>3, <3>1
      <4>5. /\ \A i \in 1..Len(queue) : ~Starts(queue[i])
            /\ \A i \in 1..Len(down) : ~Starts(down[i].frame)
        BY <3>1 DEF Token, PythonParts
      <4>6. process' \in {"idle", "dead"} /\ (down' = down \/ down' = <<>>)
        BY <2>7, DeadTypes DEF SendResult
      <4>7. \A i \in 1..Len(down') : ~Starts(down'[i].frame)
        <5>1. down' = <<>> => \A i : i \notin 1..Len(down')  BY Empty
        <5> QED  BY <4>5, <4>6, <5>1
      <4>8. Rested'  BY <2>1, <4>1, <4>5, <4>6, <4>7 DEF Rested
      <4>9. ASSUME NEW i \in 1..Len(up'), Last(i)'
            PROVE  /\ up'[i].id = current' /\ event'[current'] = "none"
                   /\ \A j \in 1..Len(up') : Last(j)' => j = i
                   /\ \A j \in i + 1..Len(up') : up'[j].type # "rpc"
        <5>1. i = Len(up')  BY <4>3, <4>9
        <5> QED  BY <2>1, <3>2, <4>2, <4>3, <4>4, <5>1
      <4> QED  BY <2>1, <2>3, <4>8, <4>9 DEF Results
    <3> QED  BY <3>3, <3>4 DEF Flags
  <2> QED  BY <1>1, <2>6, <2>7 DEF Writes
<1>q. Quiet => NoneComing' /\ reader' \notin {"checked", "spawned"} /\ event' = event
  BY StaysQuiet
<1>r. ~QueueCell => (Rested => Rested')  BY StaysRested
<1>2. CASE Reader
  <2>1. UNCHANGED <<current, outcome>> /\ ~QueueCell
    BY <1>2 DEF Reader, owner, QueueCell, Becomes
  <2>2. up' = up \/ Reads
    BY <1>2 DEF Reader, Refuse, Reading, CancelFrame, RpcFrame, OtherFrame, Eof, Spawn, Insert,
              Refused, Reads
  <2>3. CASE event' = event
    BY <1>o, <1>q, <1>r, <2>1, <2>2, <2>3, ResultsKept
  <2>4. CASE OtherFrame /\ Head(up).type \in {"result", "fatal"}
    <3> DEFINE f == Head(up)
    <3>1. Reads /\ event' = [event EXCEPT ![f.id] = f.type] /\ reader' = "idle"
      BY <2>4 DEF OtherFrame, Reads
    <3>2. f = up[1] /\ 1 \in 1..Len(up)  BY <3>1, ReadFrame
    <3>3. /\ f.id = current /\ Rested
          /\ \A j \in 1..Len(up) : Last(j) => j = 1
          /\ \A j \in 2..Len(up) : up[j].type # "rpc"
      BY <2>4, <3>2 DEF Results, Last
    <3>4. \A i \in 1..Len(up') : up'[i].type # "rpc" /\ ~Last(i)'
      <4> TAKE i \in 1..Len(up')
      <4>1. up'[i] = up[i + 1] /\ i + 1 \in 1..Len(up) /\ i + 1 # 1 /\ i + 1 \in 2..Len(up)
        BY <3>1, ReadFrame
      <4> QED  BY <3>3, <4>1 DEF Last
    <3>5. Quiet'  BY <1>r, <2>1, <3>1, <3>3, <3>4 DEF Quiet, NoneComing
    <3>6. \A r \in Runs : event'[r] # "none" => r = current \/ event[r] # "none"
      BY <3>1, <3>3 DEF RpcTypes
    <3> QED  BY <1>o, <2>1, <3>4, <3>5, <3>6 DEF Results
  <2>5. event' = event \/ (OtherFrame /\ Head(up).type \in {"result", "fatal"})
    BY <1>2 DEF Reader, Refuse, Reading, CancelFrame, RpcFrame, OtherFrame, Eof, Spawn, Insert, Refused
  <2> QED  BY <2>3, <2>4, <2>5
<1>3. CASE event' = event /\ current' = current /\ ~QueueCell /\ up' = up
  BY <1>3, <1>o, <1>q, <1>r, ResultsKept
<1>4. CASE Run /\ ~Drop
  <2>1. up' = up /\ event' = event /\ Owner  BY <1>4 DEF Run
  <2>2. CASE QueueCell
    <3>1. NoneComing /\ event[current] = "none" /\ current' = current
      BY <2>2 DEF QueueCell, AtRest, Quiet, Becomes
    <3>2. \A i \in 1..Len(up') : ~Last(i)'  BY <2>1, <3>1 DEF NoneComing, Last
    <3> QED  BY <1>o, <2>1, <3>1, <3>2 DEF Results
  <2>3. CASE Settle
    <3>1. CASE outcome[current] = "preserved"
      <4>1. current' = NoRun /\ outcome' = outcome  BY <2>3, <3>1 DEF Settle
      <4>2. current \in Runs /\ Quiet
        BY <2>3, <3>1 DEF Settle, AtRest, OwnerParts, Results
      <4>3. \A i \in 1..Len(up') : ~Last(i)'  BY <2>1, <4>2 DEF Quiet, NoneComing, Last
      <4> QED  BY <2>1, <3>1, <4>1, <4>3 DEF Results
    <3>2. CASE outcome[current] # "preserved"
      <4>1. current' = current /\ ~QueueCell
        BY <2>3, <3>2 DEF Settle, QueueCell
      <4> QED  BY <1>3, <2>1, <4>1
    <3> QED  BY <3>1, <3>2
  <2>4. ASSUME NEW r \in Runs, Begin(r) PROVE Results'
    <3>1. exec = "idle" /\ current' = r /\ outcome' = outcome /\ outcome[r] = "none" /\ current = NoRun
      BY <2>4 DEF Begin, OwnerParts
    <3>2. NoneComing  BY <3>1 DEF AtRest, Quiet
    <3>3. \A i \in 1..Len(up') : ~Last(i)'  BY <2>1, <3>2 DEF NoneComing, Last
    <3> QED  BY <2>1, <3>1, <3>3 DEF Results
  <2> QED  BY <1>3, <1>4, <2>1, <2>2, <2>3, <2>4, StepOwner
<1>5. CASE Run /\ Drop
  <2>1. current' = NoRun /\ event' = event /\ up' = <<>>
        /\ \A r \in Runs : outcome'[r] = IF r = current /\ outcome[r] = "none" THEN "abandoned"
                                         ELSE outcome[r]
    BY <1>5, OwnerParts' DEF Drop, Run, OwnerParts
  <2>2. \A i : i \notin 1..Len(up')  BY <2>1, Empty
  <2> QED  BY <2>1, <2>2 DEF Results
<1>6. CASE FrameWriter \/ (\E c \in Calls : Task(c)) \/ UNCHANGED vars
  <2>1. event' = event /\ current' = current /\ up' = up /\ exec' = exec
    BY <1>6 DEF FrameWriter, Task, vars, rpcs, owner, pipes
  <2> QED  BY <1>3, <2>1 DEF QueueCell, Becomes
<1>7. CASE Python /\ ~Writes
  <2>1. event' = event /\ current' = current /\ exec' = exec  BY <1>7 DEF Python, rpcs, owner
  <2>2. up' = up
    BY <1>7 DEF Python, ReadCommand, EndCell, SendResult, Interrupted, Tear, Exit, Call, SendCall,
              CancelCall, SendCancel, Writes
  <2> QED  BY <1>3, <2>1, <2>2 DEF QueueCell, Becomes
<1> QED  BY <1>1, <1>2, <1>4, <1>5, <1>6, <1>7 DEF Next, Stopped

LEMMA StepAtRest ==
    ASSUME Types, PythonParts, OwnerParts, ReaderParts, InPart, Results, AtRest, Owned, [Next]_vars
    PROVE  AtRest'
<1> USE DEF Types
<1>q. Quiet => /\ Unfinished' \subseteq Unfinished /\ event' = event
               /\ ~QueueCell => Quiet'
  BY StaysQuiet, StaysRested DEF Quiet
<1>r. \A r \in Runs : event[r] # "none" => (outcome[r] # "none" /\ r # current) \/ (r = current /\ Quiet)
  BY DEF Results
<1>1. CASE UNCHANGED owner
  <2>1. exec' = exec /\ current' = current /\ outcome' = outcome /\ ~QueueCell
    BY <1>1 DEF owner, QueueCell, Becomes
  <2>2. CASE exec \in {"idle", "queueing"}
    <3>1. Quiet /\ Unfinished = {}  BY <2>2 DEF AtRest
    <3> QED  BY <1>q, <2>1, <2>2, <3>1 DEF AtRest
  <2>3. CASE exec \in {"ending", "clearing", "settling"} /\ outcome[current] = "preserved"
    <3>1. current \in Runs /\ event[current] = "result"  BY <2>3 DEF AtRest, OwnerParts
    <3>2. Quiet  BY <1>r, <3>1
    <3> QED  BY <1>q, <2>1, <2>3, <3>2 DEF AtRest
  <2> QED  BY <2>1, <2>2, <2>3 DEF AtRest
<1>2. CASE Run /\ Owner
  <2>1. UNCHANGED event  BY <1>2 DEF Run
  <2>2. CASE QueueCell \/ CellSent \/ RequestCancel \/ Interrupt \/ Retire
    BY <2>2 DEF QueueCell, CellSent, RequestCancel, Interrupt, Retire, Becomes, AtRest
  <2>3. CASE CellNotSent \/ Receive
    <3>1. exec' = "ending" /\ current' = current /\ current \in Runs
      BY <2>3 DEF CellNotSent, Receive, End, Becomes, OwnerParts
    <3>2. outcome'[current] = "preserved" => event[current] = "result"
      BY <2>3, <3>1 DEF CellNotSent, Receive, End, OwnerTypes
    <3> QED  BY <2>1, <3>1, <3>2 DEF AtRest
  <2>4. CASE Drain
    <3>1. exec = "ending" /\ exec' = "clearing" /\ UNCHANGED <<current, outcome>> /\ task' = Aborted(handles)
      BY <2>4 DEF Drain, Becomes, Drained
    <3>2. ASSUME outcome[current] = "preserved"
          PROVE  event[current] = "result" /\ Unfinished' = {}
      <4>1. event[current] = "result" /\ current \in Runs  BY <3>1, <3>2 DEF AtRest, OwnerParts
      <4>2. Quiet /\ alive  BY <1>r, <3>1, <4>1 DEF OwnerParts
      <4>3. reading \notin Unfinished
        BY <4>2 DEF Quiet, ReaderParts, Unfinished, RpcTypes
      <4>4. Unfinished \subseteq handles  BY <4>2, <4>3 DEF Owned
      <4>5. \A c \in Calls : task'[c] = IF c \in handles /\ c \in Unfinished THEN "aborted" ELSE task[c]
        BY <3>1, AbortedTypes
      <4> QED  BY <4>1, <4>4, <4>5 DEF Unfinished
    <3> QED  BY <2>1, <3>1, <3>2 DEF AtRest
  <2>5. CASE Clear
    <3>1. exec = "clearing" /\ exec' = "settling" /\ UNCHANGED <<current, outcome, task>>
      BY <2>5 DEF Clear, Becomes
    <3> QED  BY <2>1, <3>1 DEF AtRest, Unfinished
  <2>6. CASE Settle
    <3>1. CASE outcome[current] = "preserved"
      <4>1. exec = "settling" /\ exec' = "idle" /\ ~QueueCell
        BY <2>6, <3>1 DEF Settle, QueueCell
      <4>2. current \in Runs /\ event[current] = "result" /\ Unfinished = {}
        BY <3>1, <4>1 DEF AtRest, OwnerParts
      <4>3. Quiet  BY <1>r, <4>2
      <4> QED  BY <1>q, <4>1, <4>2, <4>3 DEF AtRest
    <3>2. CASE outcome[current] # "preserved"
      BY <2>6, <3>2 DEF Settle, AtRest
    <3> QED  BY <3>1, <3>2
  <2>7. ASSUME NEW r \in Runs, Begin(r) PROVE AtRest'
    <3>1. exec = "idle" /\ exec' = "queueing" /\ current' = r /\ outcome[r] = "none" /\ current = NoRun
          /\ ~QueueCell
      BY <2>7 DEF Begin, OwnerParts, QueueCell
    <3>2. Quiet /\ Unfinished = {}  BY <3>1 DEF AtRest
    <3>3. event[r] = "none"  BY <1>r, <3>1
    <3> QED  BY <1>q, <2>1, <3>1, <3>2, <3>3 DEF AtRest
  <2> QED  BY <1>2, <2>2, <2>3, <2>4, <2>5, <2>6, <2>7 DEF Owner
<1>3. CASE Drop
  BY <1>3 DEF Drop, AtRest
<1> QED  BY <1>1, <1>2, <1>3 DEF Next, FrameWriter, Python, Reader, Task, Run, Stopped, vars

-----------------------------------------------------------------------------
(* The calls.                                                                *)

LEMMA OneMore ==
    ASSUME NEW S, IsFiniteSet(S), NEW T, NEW x, NEW n \in Nat,
           Cardinality(S) < n, T \subseteq S \cup {x}
    PROVE  Cardinality(T) <= n
<1> DEFINE U == S \cup {x}
<1>1. Cardinality(S) \in Nat  BY FS_CardinalityType
<1>2. IsFiniteSet(U) /\ Cardinality(U) = IF x \in S THEN Cardinality(S) ELSE Cardinality(S) + 1
  BY FS_AddElement
<1>3. T \in SUBSET U  OBVIOUS
<1>4. IsFiniteSet(T) /\ Cardinality(T) <= Cardinality(U)  BY <1>2, <1>3, FS_Subset
<1>5. Cardinality(T) \in Nat /\ Cardinality(U) \in Nat  BY <1>2, <1>4, FS_CardinalityType
<1> HIDE DEF U
<1> QED  BY <1>1, <1>2, <1>4, <1>5

\* A set that loses elements keeps to its limit.
LEMMA NoMore ==
    ASSUME NEW S, IsFiniteSet(S), NEW T \in SUBSET S, NEW n \in Nat, Cardinality(S) <= n
    PROVE  Cardinality(T) <= n
<1>1. IsFiniteSet(T) /\ Cardinality(T) <= Cardinality(S)  BY FS_Subset
<1>2. Cardinality(T) \in Nat /\ Cardinality(S) \in Nat  BY <1>1, FS_CardinalityType
<1> QED  BY <1>1, <1>2

LEMMA Finite == IsFiniteSet(Unfinished) /\ IsFiniteSet(Retained)
<1>1. Unfinished \in SUBSET Calls /\ Retained \in SUBSET Calls  BY DEF Unfinished, Retained
<1> QED  BY <1>1, FS_Subset

LEMMA StepOwned ==
    ASSUME Types, OwnerParts, ReaderParts, Owned, [Next]_vars
    PROVE  Owned'
<1> USE DEF Types, RpcTypes
<1>a. alive' => alive
  BY DEF Next, FrameWriter, Python, Reader, Task, Run, Owner, QueueCell, CellSent, CellNotSent,
     Receive, RequestCancel, Interrupt, Drain, Clear, Settle, Retire, Begin, Drop, Becomes, End,
     Stopped, vars, owner, OwnerParts
<1>b. Unfinished' \subseteq Unfinished /\ Cardinality(Unfinished) <= Limit => Cardinality(Unfinished') <= Limit
  BY Finite, NoMore
<1>1. CASE Spawn /\ alive
  <2>1. reader = "checked" /\ reading \in Calls /\ reading' = reading /\ handles' = Retained
    BY <1>1 DEF Spawn, ReaderParts
  <2>2. Unfinished \subseteq Retained \cup {reading}  BY <1>1 DEF Owned, Retained
  <2>3. CASE Cardinality(Retained) >= Limit
    <3>1. task' = task  BY <1>1, <2>3 DEF Spawn
    <3> QED  BY <1>1, <2>1, <2>2, <3>1 DEF Owned, Unfinished
  <2>4. CASE ~(Cardinality(Retained) >= Limit)
    <3>1. Unfinished' \subseteq Unfinished \cup {reading}
      BY <1>1, <2>1, <2>4 DEF Spawn, Unfinished
    <3>2. Unfinished' \subseteq Retained \cup {reading}  BY <2>2, <3>1
    <3>3. Cardinality(Retained) \in Nat /\ Limit \in Nat  BY Finite, FS_CardinalityType
    <3>4. Cardinality(Retained) < Limit  BY <2>4, <3>3
    <3>5. Cardinality(Unfinished') <= Limit  BY <3>2, <3>3, <3>4, Finite, OneMore
    <3> QED  BY <2>1, <3>2, <3>5 DEF Owned
  <2> QED  BY <2>3, <2>4
<1>2. CASE Reader /\ ~Spawn /\ alive
  <2>1. Unfinished' \subseteq Unfinished  BY <1>2, StepUnfinished
  <2>2. Unfinished \subseteq handles \cup {reading} /\ Cardinality(Unfinished) <= Limit
    BY <1>2 DEF Owned
  <2>3. CASE CancelFrame
    <3>1. reading' = reading /\ \/ UNCHANGED handles
                                \/ /\ handles' = handles \ {Head(up).id}
                                   /\ task' = Aborted({Head(up).id})
      BY <2>3 DEF CancelFrame
    <3>2. task' = Aborted({Head(up).id}) => Head(up).id \notin Unfinished'
      BY AbortedTypes DEF Unfinished
    <3> QED  BY <1>b, <2>1, <2>2, <3>1, <3>2 DEF Owned
  <2>4. CASE ~CancelFrame
    <3>1. handles' = handles \/ handles' = handles \cup {reading}
      BY <1>2, <2>4 DEF Reader, Reading, RpcFrame, OtherFrame, Eof, Insert, Refuse, Refused
    <3>2. \/ reading' = reading
          \/ handles' = handles \cup {reading}
          \/ reading \notin Unfinished
      BY <1>2, <2>4 DEF Reader, Reading, RpcFrame, OtherFrame, Eof, Insert, Refuse, Refused, ReaderParts,
                        Unfinished
    <3> QED  BY <1>b, <2>1, <2>2, <3>1, <3>2 DEF Owned
  <2> QED  BY <2>3, <2>4
<1>3. CASE ~Reader /\ alive
  <2>1. Unfinished' \subseteq Unfinished  BY <1>3, StepUnfinished
  <2>2. reading' = reading /\ (handles' = handles \/ Drained)
    BY <1>3 DEF Next, FrameWriter, Python, Task, Run, Owner, QueueCell, CellSent, CellNotSent,
       Receive, RequestCancel, Interrupt, Drain, Clear, Settle, Retire, Begin, Drop, Stopped, vars, rpcs
  <2>3. Drained => handles \cap Unfinished' = {}  BY AbortedTypes DEF Drained, Unfinished
  <2>4. Unfinished \subseteq handles \cup {reading} /\ Cardinality(Unfinished) <= Limit
    BY <1>3 DEF Owned
  <2>5. Unfinished' \subseteq handles' \cup {reading'}  BY <2>1, <2>2, <2>3, <2>4
  <2> QED  BY <1>b, <2>1, <2>4, <2>5 DEF Owned
<1> QED  BY <1>a, <1>1, <1>2, <1>3 DEF Owned

\* A call is registered once, then its frame is written.
LEMMA StepFuture ==
    ASSUME Types, [Next]_vars
    PROVE  \A c \in Calls : /\ future'[c] = "none" => future[c] = "none"
                            /\ c \in unsent' => c \in unsent \/ (Python /\ Call(c) /\ up' = up)
<1> USE DEF Types, PythonTypes
<1>1. CASE FrameWriter
  BY <1>1, DeadTypes DEF FrameWriter, WriteBegin, WriteEnd, WriteFail, python
<1>2. CASE Python
  <2>1. CASE ReadCommand
    <3>1. unsent' = unsent /\ down # <<>>
          /\ \/ future' = future
             \/ /\ Head(down).frame.type = "reply"
                /\ future' = [future EXCEPT ![Head(down).frame.id] = IF @ = "waiting" THEN "answered" ELSE @]
      BY <2>1 DEF ReadCommand
    <3>2. Head(down).frame.type = "reply" => Head(down).frame.id \in Calls
      <4>1. Head(down) \in DownFrame  BY <3>1, Taken DEF PipeTypes
      <4> QED  BY <4>1, FrameTypes DEF DownFrame
    <3> QED  BY <3>1, <3>2
  <2>2. ASSUME NEW c \in Calls, Call(c)
        PROVE  up' = up /\ unsent' = unsent \cup {c} /\ future' = [future EXCEPT ![c] = "waiting"]
    BY <2>2 DEF Call
  <2>3. ASSUME NEW c \in Calls, SendCall(c) \/ CancelCall(c) \/ SendCancel(c)
        PROVE  /\ unsent' \subseteq unsent
               /\ future' = future \/ future' = [future EXCEPT ![c] = "cancelled"]
    BY <2>3 DEF SendCall, CancelCall, SendCancel
  <2>4. CASE EndCell
    BY <2>4 DEF EndCell
  <2>5. CASE SendResult \/ Interrupted \/ Exit
    BY <2>5, DeadTypes DEF SendResult, Interrupted, Exit
  <2>6. CASE Tear
    <3>1. /\ unsent' \subseteq unsent
          /\ future' = future \/ \E c \in Calls : future' = [future EXCEPT ![c] = "cancelled"]
      BY <2>6 DEF Tear
    <3> QED  BY <3>1
  <2> QED  BY <1>2, <2>1, <2>2, <2>3, <2>4, <2>5, <2>6 DEF Python
<1>3. CASE Reader \/ (\E c \in Calls : Task(c)) \/ UNCHANGED vars
  BY <1>3 DEF Reader, Task, vars, python
<1>4. CASE Run
  BY <1>4, DeadTypes DEF Run
<1> QED  BY <1>1, <1>2, <1>3, <1>4 DEF Next, Stopped

LEMMA StepReading ==
    ASSUME Types, ReaderParts, [Next]_vars
    PROVE  \A c \in Calls :
              /\ reading' = c => reading = c \/ (Reads /\ Head(up) = Rpc(c))
              /\ task'[c] # "none" => task[c] # "none" \/ reading = c
<1> USE DEF Types, RpcTypes
<1>1. CASE FrameWriter \/ Python \/ UNCHANGED vars
  BY <1>1 DEF FrameWriter, Python, vars, rpcs
<1>2. CASE Reader
  <2>1. CASE CancelFrame
    <3>1. reading' = reading /\ (task' = task \/ task' = Aborted({Head(up).id}))
      BY <2>1 DEF CancelFrame
    <3> QED  BY <3>1, AbortedTypes DEF Unfinished
  <2>2. CASE RpcFrame
    <3>1. Reads /\ Head(up).type = "rpc" /\ reading' = Head(up).id /\ task' = task
      BY <2>2 DEF RpcFrame, Reads
    <3>2. Head(up) \in UpFrame  BY <3>1, ReadFrame
    <3>3. Head(up) = Rpc(Head(up).id)  BY <3>1, <3>2 DEF UpFrame, Rpc
    <3> QED  BY <3>1, <3>3
  <2>3. CASE Spawn
    BY <2>3 DEF Spawn, ReaderParts
  <2>4. CASE Refuse \/ OtherFrame \/ Eof \/ Insert \/ Refused
    BY <2>4 DEF Refuse, OtherFrame, Eof, Insert, Refused
  <2> QED  BY <1>2, <2>1, <2>2, <2>3, <2>4 DEF Reader, Reading
<1>3. ASSUME NEW c \in Calls, Task(c)
      PROVE  reading' = reading /\ \A d \in Calls : task'[d] # "none" => task[d] # "none"
  BY <1>3 DEF Task, Answer, SendReply, Finish
<1>4. CASE Run
  <2>1. reading' = reading /\ (task' = task \/ task' = Aborted(handles))
    BY <1>4 DEF Run, Owner, QueueCell, CellSent, CellNotSent, Receive, RequestCancel, Interrupt,
       Drain, Clear, Settle, Retire, Begin, Drop, Drained
  <2> QED  BY <2>1, AbortedTypes DEF Unfinished
<1> QED  BY <1>1, <1>2, <1>3, <1>4 DEF Next, Stopped

\* What is written is of one of these kinds, or cannot be made out; the rest is read.
LEMMA StepFrames ==
    ASSUME Types, Flags, PythonParts, [Next]_vars
    PROVE  \/ \E f \in UpFrame : /\ up' = Append(up, f) /\ Python
                                 /\ \/ \E d \in Calls : f = Rpc(d) /\ SendCall(d)
                                    \/ \E d \in Calls : f = Cancel(d) /\ SendCancel(d)
                                    \/ f.type \notin {"rpc", "cancel"}
           \/ /\ \/ up' = up \/ ~alive'
                 \/ Reads /\ (CancelFrame \/ RpcFrame \/ OtherFrame)
              /\ \E d \in {0, 1} : \A i \in 1..Len(up') : i + d \in 1..Len(up) /\ up'[i] = up[i + d]
<1> USE DEF Types, PipeTypes
<1>1. CASE up' = up
  <2>1. \A i \in 1..Len(up') : i + 0 \in 1..Len(up) /\ up'[i] = up[i + 0]  BY <1>1
  <2> QED  BY <1>1, <2>1
<1>2. CASE Reads /\ (CancelFrame \/ RpcFrame \/ OtherFrame)
  <2>1. \A i \in 1..Len(up') : i + 1 \in 1..Len(up) /\ up'[i] = up[i + 1]  BY <1>2, ReadFrame
  <2> QED  BY <1>2, <2>1
<1>3. CASE Drop /\ up' = <<>>
  <2>1. \A i : i \notin 1..Len(up')  BY <1>3, Empty
  <2>2. alive' = FALSE  BY <1>3 DEF Drop
  <2> QED  BY <2>1, <2>2
<1>4. CASE Python /\ Writes
  <2>1. ASSUME NEW f \in UpFrame, Write(f)
        PROVE  \/ up' = Append(up, f)
               \/ \E g \in UpFrame : g.type \notin {"rpc", "cancel"} /\ up' = Append(up, g)
    <3> DEFINE g == [type |-> "garbled", id |-> f.id]
    <3>1. g \in UpFrame /\ g.type \notin {"rpc", "cancel"}  BY Frames, FrameTypes
    <3>2. up' = Append(up, f) \/ up' = Append(up, g)  BY <2>1 DEF Write
    <3> HIDE DEF g
    <3> QED  BY <3>1, <3>2
  <2>2. ASSUME NEW c \in Calls, SendCall(c), Write(Rpc(c))
        PROVE  \/ up' = Append(up, Rpc(c))
               \/ \E g \in UpFrame : g.type \notin {"rpc", "cancel"} /\ up' = Append(up, g)
    BY <2>1, <2>2, Frames
  <2>3. ASSUME NEW c \in Calls, SendCancel(c), Write(Cancel(c))
        PROVE  \/ up' = Append(up, Cancel(c))
               \/ \E g \in UpFrame : g.type \notin {"rpc", "cancel"} /\ up' = Append(up, g)
    BY <2>1, <2>3, Frames
  <2>4. CASE SendResult /\ Write(Result(cell))
    <3>1. cell \in Runs  BY <2>4 DEF SendResult, PythonParts, PythonTypes
    <3>2. Result(cell).type \notin {"rpc", "cancel"} /\ Result(cell) \in UpFrame
      BY <3>1, Frames DEF Result
    <3>3. \E g \in UpFrame : g.type \notin {"rpc", "cancel"} /\ up' = Append(up, g)
      BY <2>1, <2>4, <3>2
    <3> QED  BY <1>4, <3>3
  <2> QED  BY <1>4, <2>2, <2>3, <2>4, Frames DEF Writes
<1> QED  BY <1>1, <1>2, <1>3, <1>4, StepUp

\* The frames of calls on the way back are those of before, but for one that is sent.
LEMMA StepComing ==
    ASSUME Types, Flags, PythonParts, [Next]_vars
    PROVE  \/ \E d \in Calls : Python /\ SendCall(d) /\ up' = Append(up, Rpc(d))
           \/ \E d \in {0, 1} : \A c \in Calls, i \in 1..Len(up') : up'[i] = Rpc(c) =>
                                   i + d \in 1..Len(up) /\ up[i + d] = Rpc(c)
<1> USE DEF Types, PipeTypes
<1>1. ASSUME NEW f \in UpFrame, up' = Append(up, f), f.type # "rpc"
      PROVE  \A c \in Calls, i \in 1..Len(up') : up'[i] = Rpc(c) => i + 0 \in 1..Len(up) /\ up[i + 0] = Rpc(c)
  <2>1. /\ Len(up) \in Nat /\ Len(up') = Len(up) + 1 /\ up'[Len(up) + 1] = f
        /\ \A i \in 1..Len(up) : up'[i] = up[i]
    BY <1>1, Appended
  <2>2. \A c \in Calls : f # Rpc(c)  BY <1>1 DEF Rpc
  <2> QED  BY <2>1, <2>2
<1>2. \A c \in Calls : Cancel(c).type # "rpc"  BY DEF Cancel
<1>3. CASE \E f \in UpFrame : /\ up' = Append(up, f) /\ Python
                              /\ \/ \E d \in Calls : f = Rpc(d) /\ SendCall(d)
                                 \/ \E d \in Calls : f = Cancel(d) /\ SendCancel(d)
                                 \/ f.type \notin {"rpc", "cancel"}
  <2>1. PICK f \in UpFrame : /\ up' = Append(up, f) /\ Python
                             /\ \/ \E d \in Calls : f = Rpc(d) /\ SendCall(d)
                                \/ \E d \in Calls : f = Cancel(d) /\ SendCancel(d)
                                \/ f.type \notin {"rpc", "cancel"}
    BY <1>3
  <2>2. CASE \E d \in Calls : f = Rpc(d) /\ SendCall(d)  BY <2>1, <2>2
  <2>3. CASE f.type # "rpc"  BY <1>1, <2>1, <2>3
  <2> QED  BY <1>2, <2>1, <2>2, <2>3
<1>4. CASE \E d \in {0, 1} : \A i \in 1..Len(up') : i + d \in 1..Len(up) /\ up'[i] = up[i + d]
  BY <1>4
<1> QED  BY <1>3, <1>4, StepFrames

LEMMA StepOnce ==
    ASSUME Types, Flags, PythonParts, ReaderParts, Once, [Next]_vars, Types'
    PROVE  Once'
<1> USE DEF Types, PipeTypes
<1>f. \A c \in Calls : /\ future'[c] = "none" => future[c] = "none"
                       /\ c \in unsent' => c \in unsent \/ (Python /\ Call(c) /\ up' = up)
  BY StepFuture
<1>r. \A c \in Calls :
         /\ reading' = c => reading = c \/ (Reads /\ Head(up) = Rpc(c))
         /\ task'[c] # "none" => task[c] # "none" \/ reading = c
  BY StepReading
<1>h. Reads => Head(up) = up[1] /\ 1 \in 1..Len(up)  BY ReadFrame
<1>l. Len(up) \in Nat /\ Len(up') \in Nat  OBVIOUS
<1>1. CASE \E d \in Calls : Python /\ SendCall(d) /\ up' = Append(up, Rpc(d))
  <2>1. PICK d \in Calls : Python /\ SendCall(d) /\ up' = Append(up, Rpc(d))  BY <1>1
  <2>2. /\ d \in unsent /\ unsent' = unsent \ {d} /\ future' = future
        /\ UNCHANGED <<reading, task>>
    BY <2>1 DEF SendCall, Python, rpcs
  <2>3. /\ Len(up') = Len(up) + 1 /\ up'[Len(up) + 1] = Rpc(d)
        /\ \A i \in 1..Len(up) : up'[i] = up[i]
    BY <2>1, Frames, Appended
  <2>4. \A c \in Calls : Rpc(c) = Rpc(d) => c = d  BY DEF Rpc
  <2>5. ~Spoken(d) /\ future[d] # "none"  BY <2>2 DEF Once
  <2>6. ASSUME NEW c \in Calls, c # d
        PROVE  \A i \in 1..Len(up') : up'[i] = Rpc(c) => i \in 1..Len(up) /\ up[i] = Rpc(c)
    BY <1>l, <2>3, <2>4, <2>6
  <2>7. \A i \in 1..Len(up') : up'[i] = Rpc(d) => i = Len(up) + 1
    <3>1. \A i \in 1..Len(up) : up[i] # Rpc(d)  BY <2>5 DEF Spoken, Coming
    <3>2. \A i \in 1..Len(up') : i \in 1..Len(up) \/ i = Len(up) + 1  BY <1>l, <2>3
    <3> QED  BY <2>3, <3>1, <3>2
  <2>8. ASSUME NEW c \in Calls
        PROVE  /\ future'[c] = "none" => c \notin unsent' /\ ~Spoken(c)'
               /\ c \in unsent' => ~Spoken(c)'
               /\ Coming(c)' => reading' # c /\ task'[c] = "none"
               /\ \A i, j \in 1..Len(up') : up'[i] = Rpc(c) /\ up'[j] = Rpc(c) => i = j
    <3>1. CASE c = d
      <4>1. c \notin unsent' /\ future'[c] # "none"  BY <2>2, <2>5, <3>1
      <4>2. reading' # c /\ task'[c] = "none"  BY <2>2, <2>5, <3>1 DEF Spoken
      <4>3. \A i, j \in 1..Len(up') : up'[i] = Rpc(c) /\ up'[j] = Rpc(c) => i = j
        BY <2>7, <3>1
      <4> QED  BY <4>1, <4>2, <4>3
    <3>2. CASE c # d
      <4>1. Coming(c)' => Coming(c)  BY <2>6, <3>2 DEF Coming
      <4>2. Spoken(c)' => Spoken(c)  BY <2>2, <4>1 DEF Spoken
      <4> QED  BY <2>2, <2>6, <3>2, <4>1, <4>2 DEF Once
    <3> QED  BY <3>1, <3>2
  <2> QED  BY <2>8 DEF Once
<1>2. CASE \E d \in {0, 1} : \A c \in Calls, i \in 1..Len(up') : up'[i] = Rpc(c) =>
                                i + d \in 1..Len(up) /\ up[i + d] = Rpc(c)
  <2>1. PICK d \in {0, 1} : \A c \in Calls, i \in 1..Len(up') : up'[i] = Rpc(c) =>
                               i + d \in 1..Len(up) /\ up[i + d] = Rpc(c)
    BY <1>2
  <2>2. ASSUME NEW c \in Calls
        PROVE  /\ future'[c] = "none" => c \notin unsent' /\ ~Spoken(c)'
               /\ c \in unsent' => ~Spoken(c)'
               /\ Coming(c)' => reading' # c /\ task'[c] = "none"
               /\ \A i, j \in 1..Len(up') : up'[i] = Rpc(c) /\ up'[j] = Rpc(c) => i = j
    <3>1. Coming(c)' => Coming(c)  BY <2>1 DEF Coming
    <3>2. Spoken(c)' => Spoken(c)
      <4>1. Reads /\ Head(up) = Rpc(c) => Coming(c)  BY <1>h DEF Coming
      <4> QED  BY <1>r, <3>1, <4>1 DEF Spoken
    <3>3. \A i, j \in 1..Len(up') : up'[i] = Rpc(c) /\ up'[j] = Rpc(c) => i = j
      <4>1. \A i, j \in 1..Len(up') : up'[i] = Rpc(c) /\ up'[j] = Rpc(c) => i + d = j + d
        BY <2>1 DEF Once
      <4>2. \A i, j \in 1..Len(up') : i + d = j + d => i = j
        BY <1>l
      <4> QED  BY <4>1, <4>2
    <3>4. Coming(c)' => reading' # c /\ task'[c] = "none"
      <4>1. ASSUME Coming(c)' PROVE ~(Reads /\ Head(up) = Rpc(c))
        <5>1. PICK i \in 1..Len(up') : up'[i] = Rpc(c)  BY <4>1 DEF Coming
        <5>2. Reads => i + 1 \in 1..Len(up) /\ up[i + 1] = Rpc(c) /\ i + 1 # 1  BY <5>1, ReadFrame
        <5> QED  BY <1>h, <5>2 DEF Once
      <4> QED  BY <1>r, <3>1, <4>1 DEF Once
    <3>5. c \in unsent' => c \in unsent \/ (future[c] = "none" /\ future'[c] = "waiting")
      BY <1>f DEF Call, PythonTypes
    <3>6. (future[c] = "none" => c \notin unsent /\ ~Spoken(c)) /\ (c \in unsent => ~Spoken(c))
      BY DEF Once
    <3> QED  BY <1>f, <3>2, <3>3, <3>4, <3>5, <3>6
  <2> QED  BY <2>2 DEF Once
<1> QED  BY <1>1, <1>2, StepComing

\* What a call can be carried on with is from before, or has just been made.
LEMMA StepSent ==
    ASSUME Types, Flags, PythonParts, ReaderParts, [Next]_vars
    PROVE  \A c \in Calls : Sent(c)' => Sent(c) \/ (Python /\ SendCall(c))
<1> TAKE c \in Calls
<1>1. Coming(c)' => Coming(c) \/ (Python /\ SendCall(c))
  <2>1. CASE \E d \in Calls : Python /\ SendCall(d) /\ up' = Append(up, Rpc(d))
    <3>1. PICK d \in Calls : Python /\ SendCall(d) /\ up' = Append(up, Rpc(d))  BY <2>1
    <3>2. /\ Len(up) \in Nat /\ Len(up') = Len(up) + 1 /\ up'[Len(up) + 1] = Rpc(d)
          /\ \A i \in 1..Len(up) : up'[i] = up[i]
      BY <3>1, Frames, Appended DEF Types, PipeTypes
    <3>3. Rpc(c) = Rpc(d) => c = d  BY DEF Rpc
    <3>4. \A i \in 1..Len(up') : i \in 1..Len(up) \/ i = Len(up) + 1  BY <3>2
    <3> QED  BY <3>1, <3>2, <3>3, <3>4 DEF Coming
  <2>2. CASE \E d \in {0, 1} : \A b \in Calls, i \in 1..Len(up') : up'[i] = Rpc(b) =>
                                  i + d \in 1..Len(up) /\ up[i + d] = Rpc(b)
    BY <2>2 DEF Coming
  <2> QED  BY <2>1, <2>2, StepComing
<1>2. reading' = c /\ reader' \in {"checked", "spawned"} => Sent(c)
  <2>1. reading' = c => reading = c \/ (Reads /\ Head(up) = Rpc(c))  BY StepReading
  <2>2. Reads /\ Head(up) = Rpc(c) => Coming(c)  BY ReadFrame DEF Coming
  <2>3. CASE reading = c /\ ~Reads
    <3>1. ~RpcFrame  BY <2>3 DEF RpcFrame, Reads
    <3>2. reader' \in {"checked", "spawned"} => reader \in {"checked", "spawned"}
      BY <3>1 DEF Next, FrameWriter, Python, Reader, Refuse, Reading, CancelFrame, OtherFrame, Eof,
         Spawn, Insert, Refused, Task, Run, Stopped, vars, rpcs
    <3> QED  BY <2>3, <3>2 DEF Sent
  <2>4. CASE reading = c /\ Reads
    BY <2>4, NoCall \notin Calls DEF Reads, ReaderParts
  <2> QED  BY <2>1, <2>2, <2>3, <2>4 DEF Sent
<1>3. c \in Unfinished' => Sent(c)
  <2>1. Spawn => reading \in Calls /\ reader = "checked"  BY DEF Spawn, ReaderParts
  <2> QED  BY <2>1, StepUnfinished DEF Sent
<1> QED  BY <1>1, <1>2, <1>3 DEF Sent

LEMMA StepHomes ==
    ASSUME Types, Flags, PythonParts, OwnerParts, ReaderParts, Token, Results, AtRest, Homes, [Next]_vars
    PROVE  Homes'
<1> SUFFICES ASSUME alive', NEW c \in Calls, c \in unsent' \/ Sent(c)'
             PROVE  Home[c] = current'
  BY DEF Homes
<1>a. alive
  BY DEF Next, FrameWriter, Python, Reader, Task, Run, Owner, QueueCell, CellSent, CellNotSent,
     Receive, RequestCancel, Interrupt, Drain, Clear, Settle, Retire, Begin, Drop, Becomes, End,
     Stopped, vars, owner, OwnerParts
<1>1. c \in unsent \/ Sent(c) \/ (Python /\ Call(c))
  BY StepSent, StepFuture DEF SendCall
<1>2. c \in unsent \/ Sent(c) => Home[c] = current  BY <1>a DEF Homes
<1>3. Python /\ Call(c) => Home[c] = current /\ current' = current
  BY NoRun \notin Runs, Home \in [Calls -> Runs] DEF Call, Token, Python, owner
<1>4. CASE Quiet /\ Unfinished = {} /\ Untouched
  <2>1. unsent' = {}  BY <1>4 DEF Quiet, Rested, PythonParts, Untouched
  <2>2. ~Sent(c) /\ (Sent(c)' => Sent(c))
    <3>1. ~Coming(c)  BY <1>4 DEF Quiet, NoneComing, Coming, Rpc
    <3>2. Coming(c)' => Coming(c)  BY <1>4 DEF Untouched, Coming
    <3> QED  BY <1>4, <3>1, <3>2 DEF Sent, Quiet, Untouched, Unfinished
  <2> QED  BY <2>1, <2>2
<1> QED  BY <1>1, <1>2, <1>3, <1>4, StepCurrent

-----------------------------------------------------------------------------
(* Calls that are given up.                                                  *)

\* A new run begins, or one gives its worker back, at rest.
LEMMA StepStopping ==
    ASSUME Types, Flags, OwnerParts, [Next]_vars, Stopping, alive'
    PROVE  Stopping' \/ Settle \/ \E r \in Runs : Begin(r)
<1>1. CASE process = "dead"  BY <1>1, StaysDead DEF Stopping
<1>2. CASE UNCHANGED owner  BY <1>1, <1>2, StaysDead, Zenon DEF Stopping, owner
<1>3. CASE Run /\ ~Drop
  <2>1. CASE CellNotSent \/ Receive \/ Drain \/ Clear \/ Retire
    BY <2>1, Zenon DEF CellNotSent, Receive, Drain, Clear, Retire, End, Becomes, Stopping
  <2>2. CASE RequestCancel \/ Interrupt
    BY <2>2, Zenon DEF RequestCancel, Interrupt, Stopping
  <2>3. CASE QueueCell \/ CellSent
    <3>1. cancelled' = cancelled /\ exec \in {"queueing", "sent"}
      BY <2>3, Zenon DEF QueueCell, CellSent
    <3> QED  BY <1>1, <3>1 DEF Stopping
  <2> QED  BY <1>3, <2>1, <2>2, <2>3, Zenon DEF Run, Owner
<1>4. CASE Drop
  BY <1>4, Zenon DEF Drop, Stopping
<1> QED  BY <1>2, <1>3, <1>4, Zenon DEF Next, FrameWriter, Python, Reader, Task, Run, Stopped, vars

LEMMA StepTorn ==
    ASSUME Types, Flags, PythonParts, OwnerParts, AtRest, Torn, [Next]_vars
    PROVE  Torn'
<1> SUFFICES ASSUME process' # "dead"
             PROVE  /\ sigint' /\ process' # "idle" => cancelled'
                    /\ torn' => cancelled'
  BY DEF Torn
<1>1. process # "dead"  BY StaysDead
<1>2. /\ sigint /\ process # "idle" => cancelled
      /\ torn => cancelled
  BY <1>1 DEF Torn
<1>3. CASE FrameWriter
  BY <1>2, <1>3, DeadTypes DEF FrameWriter, WriteBegin, WriteEnd, WriteFail, python, owner
<1>4. CASE Python
  <2>1. cancelled' = cancelled  BY <1>4 DEF Python, owner
  <2>2. CASE ReadCommand
    BY <1>2, <2>1, <2>2 DEF ReadCommand
  <2>3. ASSUME NEW c \in Calls, Call(c) \/ SendCall(c) \/ CancelCall(c) \/ SendCancel(c)
        PROVE  UNCHANGED <<process, sigint>> /\ (torn' = torn \/ torn' = FALSE)
    BY <2>3 DEF Call, SendCall, CancelCall, SendCancel, Write
  <2>4. CASE EndCell
    BY <1>2, <2>1, <2>4 DEF EndCell
  <2>5. CASE SendResult
    BY <1>2, <2>1, <2>5, DeadTypes DEF SendResult, Write
  <2>6. CASE Interrupted \/ Exit
    BY <1>2, <2>1, <2>6, DeadTypes DEF Interrupted, Exit
  <2>7. CASE Tear
    BY <1>2, <2>1, <2>7 DEF Tear, PythonParts
  <2> QED  BY <1>2, <1>4, <2>1, <2>2, <2>3, <2>4, <2>5, <2>6, <2>7 DEF Python
<1>5. CASE Reader \/ (\E c \in Calls : Task(c)) \/ UNCHANGED vars
  BY <1>2, <1>5 DEF Reader, Task, vars, python, owner, pipes
<1>6. CASE Run
  <2>1. torn' = torn  BY <1>6 DEF Run
  <2>2. CASE Drop /\ Dies  BY <2>2, DeadTypes
  <2>3. CASE Owner /\ process' = process
    <3>1. CASE RequestCancel \/ Interrupt
      BY <3>1 DEF RequestCancel, Interrupt
    <3>2. ASSUME NEW r \in Runs, Begin(r) PROVE process' = "idle" /\ ~torn
      BY <1>1, <2>3, <3>2 DEF Begin, AtRest, Quiet, Rested
    <3>3. UNCHANGED <<cancelled, sigint>> \/ RequestCancel \/ Interrupt \/ \E r \in Runs : Begin(r)
      BY <2>3 DEF Owner, QueueCell, CellSent, CellNotSent, Receive, Drain, Clear, Settle, Retire
    <3> QED  BY <1>2, <2>1, <2>3, <3>1, <3>2, <3>3
  <2> QED  BY <1>6, <2>2, <2>3 DEF Run
<1> QED  BY <1>3, <1>4, <1>5, <1>6 DEF Next, Stopped

\* Where the words come from, and the calls that are given up.
LEMMA StepCancels ==
    ASSUME Types, PythonParts, [Next]_vars
    PROVE  \A c \in Calls :
              /\ c \in cancels' => c \in cancels \/ (c \notin unsent' /\ future'[c] # "none")
              /\ future'[c] = "cancelled" => future[c] = "cancelled" \/ c \in cancels' \/ c \in unsent
              /\ c \in cancels => c \in cancels' \/ SendCancel(c) \/ Tear \/ process' = "dead"
<1> USE DEF Types, PythonTypes
<1>1. CASE FrameWriter
  BY <1>1, DeadTypes DEF FrameWriter, WriteBegin, WriteEnd, WriteFail, python
<1>2. CASE Python
  <2>1. CASE ReadCommand
    <3>1. /\ cancels' = cancels /\ down # <<>>
          /\ \/ future' = future
             \/ /\ Head(down).frame.type = "reply"
                /\ future' = [future EXCEPT ![Head(down).frame.id] = IF @ = "waiting" THEN "answered" ELSE @]
      BY <2>1 DEF ReadCommand
    <3>2. Head(down).frame.type = "reply" => Head(down).frame.id \in Calls
      <4>1. Head(down) \in DownFrame  BY <3>1, Taken DEF PipeTypes
      <4> QED  BY <4>1, FrameTypes DEF DownFrame
    <3> QED  BY <3>1, <3>2
  <2>2. ASSUME NEW c \in Calls, Call(c)
        PROVE  cancels' = cancels /\ future' = [future EXCEPT ![c] = "waiting"]
    BY <2>2 DEF Call
  <2>3. ASSUME NEW c \in Calls, SendCall(c)
        PROVE  /\ unsent' = unsent \ {c} /\ future' = future
               /\ cancels' = IF future[c] = "cancelled" THEN cancels \cup {c} ELSE cancels
    BY <2>3 DEF SendCall
  <2>4. ASSUME NEW c \in Calls, CancelCall(c)
        PROVE  /\ c \notin unsent /\ unsent' = unsent /\ cancels' = cancels \cup {c}
               /\ future' = [future EXCEPT ![c] = "cancelled"]
    BY <2>4 DEF CancelCall
  <2>5. ASSUME NEW c \in Calls, SendCancel(c)
        PROVE  future' = future /\ cancels' = cancels \ {c}
    BY <2>5 DEF SendCancel
  <2>6. CASE EndCell
    BY <2>6 DEF EndCell, Pending
  <2>7. CASE SendResult \/ Interrupted \/ Exit
    BY <2>7, DeadTypes DEF SendResult, Interrupted, Exit
  <2>8. CASE Tear
    <3>1. /\ cancels' \subseteq cancels
          /\ future' = future \/ \E c \in unsent : future' = [future EXCEPT ![c] = "cancelled"]
      BY <2>8 DEF Tear
    <3> QED  BY <2>8, <3>1
  <2> QED  BY <1>2, <2>1, <2>2, <2>3, <2>4, <2>5, <2>6, <2>7, <2>8 DEF Python
<1>3. CASE Reader \/ (\E c \in Calls : Task(c)) \/ UNCHANGED vars
  BY <1>3 DEF Reader, Task, vars, python
<1>4. CASE Run
  BY <1>4, DeadTypes DEF Run
<1> QED  BY <1>1, <1>2, <1>3, <1>4 DEF Next, Stopped

Told(c) == \E i \in 1..Len(up) : up[i] = Cancel(c)

LEMMA StepWords ==
    ASSUME Types, Flags, PythonParts, Once, Words, [Next]_vars, Types'
    PROVE  Words'
<1> USE DEF Types, PipeTypes
<1>l. Len(up) \in Nat /\ Len(up') \in Nat  OBVIOUS
<1>d. \A c, d \in Calls : (Rpc(c) = Rpc(d) => c = d) /\ (Cancel(c) = Cancel(d) => c = d) /\ Rpc(c) # Cancel(d)
  BY DEF Rpc, Cancel
<1>1. ASSUME NEW c \in Calls
      PROVE  /\ Told(c)' => Told(c) \/ c \in cancels
             /\ \A i, j \in 1..Len(up') : up'[i] = Cancel(c) /\ up'[j] = Rpc(c) => j < i
  <2>o. \A i, j \in 1..Len(up) : up[i] = Cancel(c) /\ up[j] = Rpc(c) => j < i  BY DEF Words
  <2>1. ASSUME NEW f \in UpFrame, up' = Append(up, f),
               \/ \E d \in Calls : f = Rpc(d) /\ SendCall(d)
               \/ \E d \in Calls : f = Cancel(d) /\ SendCancel(d)
               \/ f.type \notin {"rpc", "cancel"}
        PROVE  /\ Told(c)' => Told(c) \/ c \in cancels
               /\ \A i, j \in 1..Len(up') : up'[i] = Cancel(c) /\ up'[j] = Rpc(c) => j < i
    <3>1. /\ Len(up') = Len(up) + 1 /\ up'[Len(up) + 1] = f
          /\ \A i \in 1..Len(up) : up'[i] = up[i]
      BY <2>1, Appended
    <3>2. \A i \in 1..Len(up') : i = Len(up) + 1 \/ (i \in 1..Len(up) /\ up'[i] = up[i])
      BY <1>l, <3>1
    <3>3. f = Cancel(c) => c \in cancels
      <4>1. Cancel(c).type = "cancel"  BY DEF Cancel
      <4> QED  BY <1>d, <2>1, <4>1 DEF SendCancel
    <3>4. Told(c)' => Told(c) \/ c \in cancels  BY <3>1, <3>2, <3>3 DEF Told
    <3>5. f = Rpc(c) => ~Told(c)
      <4>1. Rpc(c).type = "rpc"  BY DEF Rpc
      <4>2. f = Rpc(c) => c \in unsent  BY <1>d, <2>1, <4>1 DEF SendCall
      <4> QED  BY <4>2 DEF Words, Word, Told
    <3>6. ASSUME NEW i \in 1..Len(up'), NEW j \in 1..Len(up'), up'[i] = Cancel(c), up'[j] = Rpc(c)
          PROVE  j < i
      <4>1. CASE j \in 1..Len(up) /\ up'[j] = up[j]
        <5>1. CASE i = Len(up) + 1  BY <1>l, <4>1, <5>1
        <5>2. CASE i \in 1..Len(up) /\ up'[i] = up[i]  BY <2>o, <3>6, <4>1, <5>2
        <5> QED  BY <3>2, <5>1, <5>2
      <4>2. CASE j = Len(up) + 1
        <5>1. f = Rpc(c)  BY <3>1, <3>6, <4>2
        <5>2. f # Cancel(c)  BY <1>d, <5>1
        <5>3. i \in 1..Len(up) /\ up[i] = Cancel(c)  BY <3>1, <3>2, <3>6, <5>2
        <5> QED  BY <3>5, <5>1, <5>3 DEF Told
      <4> QED  BY <3>2, <4>1, <4>2
    <3> QED  BY <3>4, <3>6
  <2>2. ASSUME NEW d \in {0, 1}, \A i \in 1..Len(up') : i + d \in 1..Len(up) /\ up'[i] = up[i + d]
        PROVE  /\ Told(c)' => Told(c)
               /\ \A i, j \in 1..Len(up') : up'[i] = Cancel(c) /\ up'[j] = Rpc(c) => j < i
    <3>1. Told(c)' => Told(c)  BY <2>2 DEF Told
    <3>2. ASSUME NEW i \in 1..Len(up'), NEW j \in 1..Len(up'), up'[i] = Cancel(c), up'[j] = Rpc(c)
          PROVE  j < i
      <4>1. j + d < i + d  BY <2>2, <2>o, <3>2
      <4> QED  BY <1>l, <4>1
    <3> QED  BY <3>1, <3>2
  <2> QED  BY <2>1, <2>2, StepFrames
<1>2. ASSUME NEW c \in Calls, Word(c)'
      PROVE  c \notin unsent' /\ future'[c] # "none"
  <2>1. Word(c) \/ (c \notin unsent' /\ future'[c] # "none")
    BY <1>1, <1>2, StepCancels DEF Word, Told
  <2>2. Word(c) => c \notin unsent /\ future[c] # "none"  BY DEF Words
  <2>3. c \in unsent' => c \in unsent \/ future[c] = "none"  BY StepFuture DEF Call
  <2>4. future'[c] = "none" => future[c] = "none"  BY StepFuture
  <2> QED  BY <2>1, <2>2, <2>3, <2>4
<1> QED  BY <1>1, <1>2 DEF Words

LEMMA StepGivenUp ==
    ASSUME Types, Flags, PythonParts, OwnerParts, ReaderParts, Token, Results, AtRest, Once, Homes, Owned,
           Torn, Words, GivenUp, [Next]_vars
    PROVE  GivenUp'
<1> SUFFICES ASSUME alive', ~Stopping', NEW c \in Calls, Sent(c)', future'[c] = "cancelled"
             PROVE  Word(c)'
  BY DEF GivenUp
<1> USE DEF Types, PipeTypes
<1>a. alive
  BY DEF Next, FrameWriter, Python, Reader, Task, Run, Owner, QueueCell, CellSent, CellNotSent,
     Receive, RequestCancel, Interrupt, Drain, Clear, Settle, Retire, Begin, Drop, Becomes, End,
     Stopped, vars, owner, OwnerParts
<1>p. process' # "dead" /\ process # "dead"  BY StaysDead DEF Stopping
<1>q. Quiet /\ Unfinished = {} => ~Sent(c)
  <2>1. Quiet => ~Coming(c)  BY DEF Quiet, NoneComing, Coming, Rpc
  <2> QED  BY <2>1 DEF Sent, Quiet
<1>1. CASE Python /\ SendCall(c)
  BY <1>1 DEF SendCall, Word
<1>2. CASE Sent(c) /\ Stopping
  <2>1. CASE Settle
    <3>1. outcome[current] = "preserved"  BY <2>1 DEF Settle, Stopping
    <3>2. current \in Runs /\ event[current] = "result" /\ Unfinished = {}
      BY <2>1, <3>1 DEF Settle, AtRest, OwnerParts
    <3>3. Quiet  BY <3>2 DEF Results
    <3> QED  BY <1>2, <1>q, <3>2, <3>3
  <2>2. CASE \E r \in Runs : Begin(r)
    BY <1>2, <1>q, <2>2 DEF Begin, AtRest
  <2> QED  BY <1>2, <2>1, <2>2, StepStopping
<1>3. CASE Sent(c) /\ ~Stopping
  <2>s. ~cancelled  BY <1>3 DEF Stopping
  <2>t. ~(sigint /\ process # "idle") /\ ~torn  BY <1>p, <2>s DEF Torn
  <2>1. ~Tear  BY <2>t DEF Tear, PythonParts
  <2>2. c \notin unsent  BY <1>3 DEF Sent, Once, Spoken, Unfinished
  <2>3. CASE future[c] # "cancelled"
    BY <2>2, <2>3, StepCancels DEF Word
  <2>4. CASE c \in cancels
    <3>1. CASE SendCancel(c)
      <4>1. up' = Append(up, Cancel(c))  BY <2>t, <3>1 DEF SendCancel, Write
      <4>2. /\ Len(up) \in Nat /\ Len(up') = Len(up) + 1 /\ up'[Len(up) + 1] = Cancel(c)
        BY <4>1, Frames, Appended
      <4> QED  BY <4>2 DEF Word
    <3> QED  BY <1>p, <2>1, <2>4, <3>1, StepCancels DEF Word
  <2>5. CASE Told(c)
    <3>1. PICK k \in 1..Len(up) : up[k] = Cancel(c)  BY <2>5 DEF Told
    <3>2. CASE \E f \in UpFrame : up' = Append(up, f)
      <4>1. Len(up) \in Nat /\ Len(up') = Len(up) + 1 /\ \A i \in 1..Len(up) : up'[i] = up[i]
        BY <3>2, Appended
      <4> QED  BY <3>1, <4>1 DEF Word
    <3>3. CASE up' = up
      BY <3>1, <3>3 DEF Word
    <3>4. CASE Reads /\ Head(up) # Cancel(c)
      <4>1. k # 1  BY <3>1, <3>4, ReadFrame
      <4>2. k - 1 \in 1..Len(up') /\ up'[k - 1] = up[(k - 1) + 1]  BY <3>4, <4>1, ReadFrame
      <4>3. (k - 1) + 1 = k  OBVIOUS
      <4> QED  BY <3>1, <4>2, <4>3 DEF Word
    <3>5. CASE Reads /\ (CancelFrame \/ RpcFrame \/ OtherFrame) /\ Head(up) = Cancel(c)
      <4>1. Cancel(c).type = "cancel" /\ Cancel(c).id = c  BY DEF Cancel
      <4>2. CancelFrame /\ reader = "idle" /\ reading = NoCall /\ reading' = NoCall
        BY <3>5, <4>1 DEF RpcFrame, OtherFrame, CancelFrame, ReaderParts
      <4>3. ~Coming(c)'
        <5>1. ASSUME NEW j \in 1..Len(up'), up'[j] = Rpc(c) PROVE FALSE
          <6>1. /\ up[1] = Cancel(c) /\ 1 \in 1..Len(up)
                /\ j + 1 \in 1..Len(up) /\ up[j + 1] = Rpc(c)
            BY <3>5, <5>1, ReadFrame
          <6>2. j + 1 < 1  BY <6>1 DEF Words
          <6> QED  BY <6>1, <6>2
        <5> QED  BY <5>1 DEF Coming
      <4>4. c \in Unfinished'  BY <4>2, <4>3, NoCall \notin Calls DEF Sent
      <4>5. c \in Unfinished  BY <4>2, <4>4, StepUnfinished DEF Spawn
      <4>6. c \in handles  BY <1>a, <4>2, <4>5, NoCall \notin Calls DEF Owned
      <4>7. Home[c] = run
        <5>1. Home[c] = current  BY <1>a, <1>3 DEF Homes
        <5>2. exec \in {"queueing", "sent", "running", "interrupted"}
          BY <1>a, <1>3, <4>5 DEF Stopping, AtRest, OwnerParts, OwnerTypes, Awaits
        <5> QED  BY <5>1, <5>2 DEF OwnerParts
      <4>8. task' = Aborted({c})  BY <3>5, <4>1, <4>2, <4>6, <4>7 DEF CancelFrame
      <4> QED  BY <4>4, <4>8, AbortedTypes DEF Unfinished
    <3> QED  BY <1>a, <3>2, <3>3, <3>4, <3>5, StepFrames
  <2> QED  BY <1>a, <1>3, <2>3, <2>4, <2>5 DEF GivenUp, Word, Told
<1> QED  BY <1>1, <1>2, <1>3, StepSent

-----------------------------------------------------------------------------
(* The inductive invariant.                                                  *)

Parts == PythonParts /\ OwnerParts /\ ReaderParts
IInv == /\ Types /\ Flags /\ Parts
        /\ InPart /\ Token /\ Results /\ AtRest
        /\ Once /\ Homes /\ Owned
        /\ Torn /\ Words /\ GivenUp

LEMMA InitIInv == Init => IInv
<1> SUFFICES ASSUME Init PROVE IInv  OBVIOUS
<1> USE DEF Init
<1>e. \A i : i \notin 1..Len(<<>>)  OBVIOUS
<1>1. Types /\ Flags
  BY Empty DEF Types, Flags, PythonTypes, PipeTypes, OwnerTypes, RpcTypes
<1>2. Parts
  BY DEF Parts, PythonParts, OwnerParts, ReaderParts, Awaits
<1>3. InPart /\ Token
  BY <1>e DEF InPart, Token
<1>4. Unfinished = {}  BY DEF Unfinished
<1>5. Quiet  BY <1>e DEF Quiet, Rested, NoneComing
<1>6. Results /\ AtRest
  BY <1>e, <1>4, <1>5 DEF Results, AtRest
<1>7. \A c \in Calls : ~Coming(c) /\ ~Spoken(c) /\ ~Sent(c) /\ ~Word(c)
  BY <1>e, <1>4, NoCall \notin Calls DEF Coming, Spoken, Sent, Word
<1>8. Once /\ Homes /\ Words /\ GivenUp
  BY <1>e, <1>7 DEF Once, Homes, Words, GivenUp
<1>9. Owned
  BY <1>4, FS_EmptySet DEF Owned
<1>10. Torn
  BY DEF Torn
<1> QED  BY <1>1, <1>2, <1>3, <1>6, <1>8, <1>9, <1>10 DEF IInv

LEMMA StepIInv == IInv /\ [Next]_vars => IInv'
<1> SUFFICES ASSUME IInv, [Next]_vars PROVE IInv'  OBVIOUS
<1>a. /\ Types /\ Flags /\ PythonParts /\ OwnerParts /\ ReaderParts
      /\ InPart /\ Token /\ Results /\ AtRest
      /\ Once /\ Homes /\ Owned
      /\ Torn /\ Words /\ GivenUp
  BY DEF IInv, Parts
<1>1. Types' /\ Flags'  BY <1>a, StepTypes, StepFlags
<1>2. PythonParts' /\ OwnerParts' /\ ReaderParts'
  BY <1>a, StepPythonParts, StepOwnerParts, StepReaderParts
<1>3. InPart' /\ Token'  BY <1>a, <1>2, StepInPart, StepToken
<1>4. Results' /\ AtRest'  BY <1>a, <1>2, StepResults, StepAtRest
<1>5. Once' /\ Homes' /\ Owned'  BY <1>a, <1>1, StepOnce, StepHomes, StepOwned
<1>6. Torn' /\ Words' /\ GivenUp'  BY <1>a, <1>1, StepTorn, StepWords, StepGivenUp
<1> QED  BY <1>1, <1>2, <1>3, <1>4, <1>5, <1>6 DEF IInv, Parts

LEMMA Inductive == Spec => []IInv
  BY InitIInv, StepIInv, PTL DEF Spec

-----------------------------------------------------------------------------
(* The theorems.                                                             *)

\* The state of a worker and of its supervisor is always well-formed, whatever of their
\* frames is written, torn, read or lost.
THEOREM TypeCorrect == Spec => []TypeOK
<1>1. IInv => TypeOK
  <2> SUFFICES ASSUME IInv PROVE TypeOK  OBVIOUS
  <2> DEFINE U == [type : {"rpc", "cancel", "result", "fatal", "garbled"}, id : Calls \cup Runs]
  <2>1. Types /\ Flags  BY DEF IInv
  <2>2. UpFrame \subseteq U  BY DEF UpFrame
  <2>3. up \in Seq(UpFrame)  BY <2>1 DEF Types, PipeTypes
  <2> HIDE DEF U
  <2>4. up \in Seq(U)  BY <2>2, <2>3
  <2>5. fatal \in BOOLEAN /\ sigint \in BOOLEAN /\ torn \in BOOLEAN
        /\ cancelled \in BOOLEAN /\ alive \in BOOLEAN
    BY <2>1, Zenon DEF Flags
  <2> USE DEF U
  <2> QED
    BY <2>1, <2>4, <2>5
       DEF TypeOK, Types, PythonTypes, PipeTypes, OwnerTypes, RpcTypes, DownFrame
<1> QED  BY <1>1, Inductive, PTL

\* A run that has preserved its worker, as execute_inner calls it, leaves it without a
\* call: every call of it was read before its result, and drained with the table.
THEOREM NextRunStartsClean == Spec => []KeptWorkerIsQuiet
<1>1. IInv => KeptWorkerIsQuiet
  BY DEF IInv, AtRest, Quiet, NoneComing, InPart, KeptWorkerIsQuiet
<1> QED  BY <1>1, Inductive, PTL

\* Every RPC task that runs can be aborted by the run that owns its worker, and there
\* are no more of them than the limit.
THEOREM NoTaskEscapes == Spec => []TasksAreOwned
<1>1. IInv => TasksAreOwned
  BY DEF IInv, Owned, TasksAreOwned
<1> QED  BY <1>1, Inductive, PTL

\* A call that its cell has given up goes on only while the word of it is on the way, or
\* until the run ends: the word comes after the call and finds the task in the table.
THEOREM GivenUpIsHeard == Spec => []GivenUpCallStops
<1>1. IInv => GivenUpCallStops
  <2>1. \A c \in Unfinished : c \in Calls /\ Sent(c)  BY DEF Unfinished, Sent
  <2>2. IInv => GivenUp  BY DEF IInv
  <2> QED  BY <2>1, <2>2 DEF GivenUp, Word, Stopping, GivenUpCallStops
<1> QED  BY <1>1, Inductive, PTL
=============================================================================

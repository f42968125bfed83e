---------------------------- MODULE GuardianProofs ----------------------------
(* Theorems about a guardian, the process it owns and the jobs of that process. *)
EXTENDS Guardian, TLAPS, SequenceTheorems

USE GuardianAssumption

-----------------------------------------------------------------------------
(* The parts of the inductive invariant.                                     *)

\* The id of the guardian is free only when the server has given it up.
Ids == free => guardian = "over" /\ ~unreaped /\ owner \in {"reaped", "dropped", "gone"}

\* The guardian has a child only between its spawn and the end of its group.
Tree == /\ guardian \in {"reading", "checking"} => child = "none"
        /\ guardian = "over" => child # "live"

\* A frame is about a group that has been started, and that is gone if it says so.
Started(j) == group[j] \notin {"none", "silent"}
Believable(e) == IF e.action = "started" THEN Started(e.job) ELSE group[e.job] = "freed"
Frames == /\ \A i \in 1..Len(up) : Believable(up[i])
          /\ \A i \in 1..Len(out) : Believable(out[i])
          /\ output = "writing" => Believable(frame)

\* A job that has been heard of and is not in the table has ended for good.
Told(S, T) == \A j \in S : Started(j) /\ (j \notin T => group[j] # "live")
Tables ==
    /\ Told(read, IF swept THEN {} ELSE table)
    /\ Told(heard, known)
    /\ owner \in {"launching", "dropped"} => known = {}
-----------------------------------------------------------------------------
(* Types.                                                                    *)

\* The flags go one way, except the child's reading of its input.
LEMMA FlagMoves ==
    ASSUME [Next]_vars
    PROVE  /\ unreaped' = unreaped \/ unreaped' = FALSE
           /\ header' = header \/ header' = TRUE
           /\ stop' = stop \/ stop' = TRUE
           /\ watching' = watching \/ watching' = FALSE
           /\ backlog' = backlog \/ backlog' = ~backlog
           /\ free' = free \/ free' = TRUE
           /\ swept' = swept \/ swept' = TRUE
<1> USE DEF handle, proxy, pipes, history
<1>1. CASE Server
  BY <1>1 DEF Server, Launch, LaunchFails, Hear, Interrupt, CloseInput, KillJobs, ForceEnd, Reap,
              Settle, Drop, Crash
<1>2. CASE Guard
  BY <1>2 DEF Guard, Ending, Watch, ReadHeader, Spawn, KillChild, Sweep, Flush, Leave,
              InputEnds, Register, Forward, OutputEnds
<1>3. CASE Child
  BY <1>3 DEF Child, Stall, Exit, Detach, JobEnds, Finish
<1>4. CASE UNCHANGED vars
  BY <1>4 DEF vars
<1> QED  BY <1>1, <1>2, <1>3, <1>4 DEF Next, Quiet

Flags == {unreaped, header, stop, watching, backlog, free, swept} \subseteq BOOLEAN

LEMMA FlagsType ==
    ASSUME Flags, [Next]_vars
    PROVE  Flags'
<1>1. unreaped' \in BOOLEAN  BY FlagMoves, Zenon DEF Flags
<1>2. header' \in BOOLEAN  BY FlagMoves, Zenon DEF Flags
<1>3. stop' \in BOOLEAN  BY FlagMoves, Zenon DEF Flags
<1>4. watching' \in BOOLEAN  BY FlagMoves, Zenon DEF Flags
<1>5. backlog' \in BOOLEAN  BY FlagMoves, Zenon DEF Flags
<1>6. free' \in BOOLEAN  BY FlagMoves, Zenon DEF Flags
<1>7. swept' \in BOOLEAN  BY FlagMoves, Zenon DEF Flags
<1> QED  BY <1>1, <1>2, <1>3, <1>4, <1>5, <1>6, <1>7, Zenon DEF Flags

\* Where the three processes stand.
Places ==
    /\ server \in {"up", "gone"}
    /\ owner \in {"launching", "held", "closing", "waiting", "reaped", "dropped", "gone"}
    /\ stdin \in {"open", "closed"}
    /\ guardian \in {"reading", "checking", "serving", "sweeping", "flushing", "joining", "over"}
    /\ output \in {"reading", "writing", "stopped"}
    /\ child \in {"none", "live", "dead"}

LEMMA PlacesType ==
    ASSUME Places, [Next]_vars
    PROVE  Places'
<1> USE DEF Places, handle, proxy, pipes, history, SignalGroup, Dying
<1>1. CASE Server
  BY <1>1 DEF Server, Launch, LaunchFails, Hear, Interrupt, CloseInput, KillJobs, ForceEnd, Reap,
              Drop, Crash
<1>2. CASE Guard
  BY <1>2 DEF Guard, Ending, Watch, ReadHeader, Spawn, KillChild, Sweep, Flush, Leave,
              InputEnds, Register, Forward, OutputEnds
<1>3. CASE Child
  BY <1>3 DEF Child, Stall, Exit, Detach, JobEnds, Finish
<1>4. CASE UNCHANGED vars
  BY <1>4 DEF vars
<1> QED  BY <1>1, <1>2, <1>3, <1>4 DEF Next, Quiet

\* What the pipes and the tables hold.
Contents ==
    /\ frame \in Events \cup {None} /\ (output = "writing" => frame \in Events)
    /\ known \subseteq Jobs /\ table \subseteq Jobs /\ read \subseteq Jobs /\ heard \subseteq Jobs
    /\ group \in [Jobs -> {"none", "silent", "live", "dead", "freed"}]
    /\ up \in Seq(Events) /\ Len(up) <= UpLimit
    /\ out \in Seq(Events) /\ Len(out) <= OutLimit

\* Taking a frame from a pipe, putting one in.
LEMMA PipeEnds ==
    ASSUME NEW S, NEW s \in Seq(S)
    PROVE  /\ \A e \in S : Append(s, e) \in Seq(S) /\ Len(Append(s, e)) = Len(s) + 1
           /\ s # <<>> => /\ Head(s) \in S /\ Tail(s) \in Seq(S) /\ Len(Tail(s)) = Len(s) - 1
                          /\ Len(s) \in Nat \ {0}
<1>1. \A e \in S : Append(s, e) \in Seq(S) /\ Len(Append(s, e)) = Len(s) + 1
  BY AppendProperties
<1>2. s # <<>> => /\ Head(s) \in S /\ Tail(s) \in Seq(S) /\ Len(Tail(s)) = Len(s) - 1
  BY HeadTailProperties
<1>3. s # <<>> => Len(s) \in Nat \ {0}
  BY LenProperties, EmptySeq
<1> QED  BY <1>1, <1>2, <1>3

LEMMA KilledType ==
    ASSUME NEW S, group \in [Jobs -> {"none", "silent", "live", "dead", "freed"}]
    PROVE  Killed(S) \in [Jobs -> {"none", "silent", "live", "dead", "freed"}]
BY DEF Killed

LEMMA RegisteredType ==
    ASSUME NEW S \in SUBSET Jobs, NEW e \in Events
    PROVE  Registered(S, e) \in SUBSET Jobs /\ e.job \in Jobs
BY DEF Registered, Events

LEMMA ContentsType ==
    ASSUME Contents, [Next]_vars
    PROVE  Contents'
<1>p. /\ up # <<>> => Head(up) \in Events /\ Tail(up) \in Seq(Events) /\ Len(Tail(up)) <= UpLimit
      /\ out # <<>> => Head(out) \in Events /\ Tail(out) \in Seq(Events) /\ Len(Tail(out)) <= OutLimit
  BY PipeEnds, GuardianAssumption DEF Contents
<1>q. /\ Len(up) < UpLimit => \A e \in Events : /\ Append(up, e) \in Seq(Events)
                                               /\ Len(Append(up, e)) <= UpLimit
      /\ Len(out) < OutLimit => \A e \in Events : /\ Append(out, e) \in Seq(Events)
                                                 /\ Len(Append(out, e)) <= OutLimit
  <2>1. Len(up) \in Nat /\ Len(out) \in Nat  BY LenProperties DEF Contents
  <2> QED  BY <2>1, PipeEnds, GuardianAssumption DEF Contents
<1>k. \A S : Killed(S) \in [Jobs -> {"none", "silent", "live", "dead", "freed"}]
  BY KilledType DEF Contents
<1> USE DEF handle, proxy, pipes, history
<1>1. CASE Server
  <2>1. UNCHANGED <<frame, output, table, read, up>>  BY <1>1 DEF Server
  <2>2. CASE Launch \/ LaunchFails \/ CloseInput \/ ForceEnd \/ Reap \/ Crash
    <3>1. UNCHANGED <<known, heard, group, out>>
      BY <2>2 DEF Launch, LaunchFails, CloseInput, ForceEnd, Reap, Crash
    <3> QED  BY <2>1, <3>1 DEF Contents
  <2>3. CASE Hear
    <3>1. out # <<>> /\ known' = Registered(known, Head(out)) /\ out' = Tail(out) /\ group' = group
          /\ heard' \in {heard, heard \cup {Head(out).job}}
      BY <2>3 DEF Hear
    <3>2. known' \subseteq Jobs /\ heard' \subseteq Jobs
      BY <1>p, <3>1, RegisteredType DEF Contents
    <3> QED  BY <1>p, <2>1, <3>1, <3>2 DEF Contents
  <2>4. CASE Interrupt \/ KillJobs \/ Drop
    <3>1. KillKnown /\ UNCHANGED <<heard, out>>  BY <2>4 DEF Interrupt, KillJobs, Drop
    <3> QED  BY <1>k, <2>1, <3>1 DEF KillKnown, Contents
  <2> QED  BY <1>1, <2>2, <2>3, <2>4 DEF Server
<1>2. CASE Guard
  <2>1. UNCHANGED <<known, heard>>  BY <1>2 DEF Guard
  <2>2. CASE Watch \/ ReadHeader \/ Spawn \/ KillChild \/ Flush \/ Leave \/ InputEnds \/ OutputEnds
    <3>1. UNCHANGED <<frame, table, group, up, out, read>> /\ output' \in {output, "stopped"}
      BY <2>2 DEF Watch, ReadHeader, Spawn, KillChild, Flush, Leave, InputEnds, OutputEnds
    <3> QED  BY <2>1, <3>1 DEF Contents
  <2>3. CASE Sweep
    BY <1>k, <2>1, <2>3 DEF Sweep, Contents
  <2>4. CASE Register
    <3>1. /\ up # <<>> /\ frame' = Head(up) /\ up' = Tail(up) /\ table' = Registered(table, Head(up))
          /\ read' = Noted(Head(up)) /\ UNCHANGED <<group, out>>
      BY <2>4 DEF Register
    <3>2. table' \subseteq Jobs /\ read' \subseteq Jobs
      BY <1>p, <3>1, RegisteredType DEF Contents, Noted
    <3> QED  BY <1>p, <2>1, <3>1, <3>2 DEF Contents
  <2>5. CASE Forward
    <3>1. /\ frame' = None /\ UNCHANGED <<table, group, up, read>> /\ output = "writing"
          /\ output' \in {"reading", "stopped"}
          /\ out' = out \/ (Len(out) < OutLimit /\ out' = Append(out, frame))
      BY <2>5 DEF Forward
    <3> QED  BY <1>q, <2>1, <3>1 DEF Contents
  <2> QED  BY <1>2, <2>2, <2>3, <2>4, <2>5 DEF Guard, Ending
<1>3. CASE Child
  <2>1. UNCHANGED <<frame, output, known, table, read, heard, out>>  BY <1>3 DEF Child
  <2>2. \/ up' = up
        \/ \E e \in Events : Len(up) < UpLimit /\ up' = Append(up, e)
    BY <1>3 DEF Child, Stall, Exit, Detach, JobEnds, Finish, Say, Event, Events
  <2>3. \/ group' = group
        \/ \E j \in Jobs, s \in {"silent", "live", "dead", "freed"} : group' = [group EXCEPT ![j] = s]
    BY <1>3 DEF Child, Stall, Exit, Detach, JobEnds, Finish
  <2> QED  BY <1>q, <2>1, <2>2, <2>3 DEF Contents
<1>4. CASE UNCHANGED vars
  BY <1>4 DEF vars, Contents
<1> QED  BY <1>1, <1>2, <1>3, <1>4 DEF Next, Quiet

-----------------------------------------------------------------------------
(* The id of the guardian, and its child.                                    *)

\* A step after which the guardian's group is gone, or which leaves it alone.
LEMMA StepIds ==
    ASSUME Ids, Tree, stray = FALSE, [Next]_vars
    PROVE  Ids' /\ stray' = FALSE
<1> USE DEF Ids, handle, proxy, pipes, history
<1>1. CASE Server
  <2>1. CASE Launch \/ Hear \/ Interrupt \/ CloseInput \/ KillJobs \/ Crash
    BY <2>1 DEF Launch, Hear, Interrupt, CloseInput, KillJobs, Crash
  <2>2. CASE LaunchFails \/ ForceEnd
    <3>1. ~free /\ SignalGroup /\ free' = free  BY <2>2 DEF LaunchFails, ForceEnd
    <3> QED  BY <3>1 DEF SignalGroup
  <2>3. CASE Reap
    <3>1. guardian' = "over" /\ unreaped' = FALSE /\ owner' = "reaped" /\ stray' = stray
      BY <2>3 DEF Reap, Settle
    <3> QED  BY <3>1
  <2>4. CASE Drop
    <3>1. owner' = "dropped" /\ UNCHANGED <<unreaped, free>>  BY <2>4 DEF Drop
    <3>2. CASE unreaped
      <4>1. ~free /\ SignalGroup  BY <2>4, <3>2 DEF Drop
      <4> QED  BY <3>1, <4>1 DEF SignalGroup
    <3>3. CASE ~unreaped
      BY <2>4, <3>1, <3>3 DEF Drop
    <3> QED  BY <3>2, <3>3
  <2> QED  BY <1>1, <2>1, <2>2, <2>3, <2>4 DEF Server
<1>2. CASE Guard
  <2>1. UNCHANGED <<free, stray, unreaped, owner>>  BY <1>2 DEF Guard
  <2>2. guardian = "over" => guardian' = "over"
    BY <1>2 DEF Guard, Ending, Watch, ReadHeader, Spawn, KillChild, Sweep, Flush, Leave,
                InputEnds, Register, Forward, OutputEnds
  <2> QED  BY <2>1, <2>2
<1>3. CASE Child
  BY <1>3 DEF Child
<1>4. CASE UNCHANGED vars
  BY <1>4 DEF vars
<1> QED  BY <1>1, <1>2, <1>3, <1>4 DEF Next, Quiet

LEMMA StepTree ==
    ASSUME Tree, [Next]_vars
    PROVE  Tree'
<1> USE DEF Tree, handle, proxy, pipes, history, SignalGroup, Dying
<1>1. CASE Server
  BY <1>1 DEF Server, Launch, LaunchFails, Hear, Interrupt, CloseInput, KillJobs, ForceEnd, Reap,
              Drop, Crash
<1>2. CASE Guard
  BY <1>2 DEF Guard, Ending, Watch, ReadHeader, Spawn, KillChild, Sweep, Flush, Leave,
              InputEnds, Register, Forward, OutputEnds
<1>3. CASE Child
  BY <1>3 DEF Child, Stall, Exit, Detach, JobEnds, Finish
<1>4. CASE UNCHANGED vars
  BY <1>4 DEF vars
<1> QED  BY <1>1, <1>2, <1>3, <1>4 DEF Next, Quiet

TypeInv == Flags /\ Places /\ Contents /\ Ids /\ Tree /\ stray = FALSE

LEMMA TypeInvariant == Spec => []TypeInv
<1>1. Init => TypeInv
  <2> SUFFICES ASSUME Init PROVE TypeInv
    OBVIOUS
  <2>1. Flags
    <3>1. unreaped \in BOOLEAN  BY Zenon DEF Init
    <3>2. header \in BOOLEAN  BY Zenon DEF Init
    <3>3. stop \in BOOLEAN  BY Zenon DEF Init
    <3>4. watching \in BOOLEAN  BY Zenon DEF Init
    <3>5. backlog \in BOOLEAN  BY Zenon DEF Init
    <3>6. free \in BOOLEAN  BY Zenon DEF Init
    <3>7. swept \in BOOLEAN  BY Zenon DEF Init
    <3> QED  BY <3>1, <3>2, <3>3, <3>4, <3>5, <3>6, <3>7, Zenon DEF Flags
  <2>2. Places /\ Tree  BY DEF Init, Places, Tree
  <2>3. Contents  BY EmptySeq, GuardianAssumption DEF Init, Contents
  <2>4. Ids /\ stray = FALSE  BY DEF Init, Ids
  <2> QED  BY <2>1, <2>2, <2>3, <2>4 DEF TypeInv
<1>2. TypeInv /\ [Next]_vars => TypeInv'
  BY FlagsType, PlacesType, ContentsType, StepIds, StepTree DEF TypeInv
<1> QED  BY <1>1, <1>2, PTL DEF Spec

\* Every variable keeps its type, and the server never signals the process group of a
\* guardian whose id the system may already have given to another process (Worker::drop,
\* terminate).
THEOREM TypeCorrect == Spec => []TypeOK
<1>1. TypeInv => TypeOK
  BY DEF TypeInv, Flags, Places, Contents, TypeOK
<1> QED  BY <1>1, TypeInvariant, PTL

-----------------------------------------------------------------------------
(* Jobs.                                                                     *)

\* A group starts, ends and is reaped, in that order.
Ages == \A j \in Jobs : /\ Started(j) => Started(j)'
                        /\ group[j] = "freed" => group'[j] = "freed"
                        /\ group[j] \notin {"none", "silent", "live"} => group'[j] # "live"

\* What makes a frame believable after a step.
Credible(e) == IF e.action = "started" THEN group'[e.job] \notin {"none", "silent"}
                                       ELSE group'[e.job] = "freed"

LEMMA Believe ==
    ASSUME Ages, NEW e \in Events, Believable(e)
    PROVE  Credible(e)
BY DEF Ages, Believable, Credible, Events, Started

LEMMA KilledAges ==
    ASSUME Contents, NEW S, group' = Killed(S)
    PROVE  Ages /\ \A j \in S \cap Jobs : Started(j)' => group'[j] # "live"
BY DEF Contents, Ages, Killed, Started

LEMMA ToldStays ==
    ASSUME Ages, NEW S \in SUBSET Jobs, NEW T, Told(S, T)
    PROVE  Told(S, T)'
BY DEF Ages, Told, Started

\* Reading one more frame.
LEMMA ToldMore ==
    ASSUME NEW S \in SUBSET Jobs, NEW T \in SUBSET Jobs, NEW e \in Events, Told(S, T), Believable(e)
    PROVE  Told(IF e.action = "started" THEN S \cup {e.job} ELSE S, Registered(T, e))
BY DEF Told, Believable, Registered, Events, Started

\* Killing the jobs of a table.
LEMMA ToldKilled ==
    ASSUME Contents, NEW S \in SUBSET Jobs, NEW T, Told(S, T), group' = Killed(T)
    PROVE  Told(S, {})'
<1>1. Ages /\ \A j \in T \cap Jobs : Started(j)' => group'[j] # "live"  BY KilledAges
<1>2. ASSUME NEW j \in S PROVE Started(j)' /\ group'[j] # "live"
  <2>1. j \in Jobs /\ Started(j) /\ (j \notin T => group[j] # "live")  BY <1>2 DEF Told
  <2> QED  BY <1>1, <2>1 DEF Ages, Started
<1> QED  BY <1>2 DEF Told, Started

\* The pipes and the frame in hand after a step that reads or adds one frame.
PipeMove ==
    /\ \/ up' = up
       \/ up # <<>> /\ up' = Tail(up)
       \/ \E e \in Events : up' = Append(up, e) /\ Credible(e)
    /\ \/ out' = out
       \/ out # <<>> /\ out' = Tail(out)
       \/ output = "writing" /\ out' = Append(out, frame)
    /\ \/ output' = "writing" => output = "writing" /\ frame' = frame
       \/ up # <<>> /\ frame' = Head(up)

LEMMA MoveFrames ==
    ASSUME Contents, Frames, Ages, PipeMove
    PROVE  Frames'
<1> DEFINE All(s) == \A i \in 1..Len(s) : Credible(s[i])
<1>1. /\ up \in Seq(Events) /\ out \in Seq(Events) /\ (output = "writing" => frame \in Events)
      /\ Len(up) \in Nat /\ Len(out) \in Nat
  BY LenProperties DEF Contents
<1>2. All(up) /\ All(out) /\ (output = "writing" => Credible(frame))
  <2>1. \A i \in 1..Len(up) : up[i] \in Events /\ Believable(up[i])
    BY <1>1, LenProperties DEF Frames
  <2>2. \A i \in 1..Len(out) : out[i] \in Events /\ Believable(out[i])
    BY <1>1, LenProperties DEF Frames
  <2> QED  BY <1>1, <2>1, <2>2, Believe DEF Frames
<1>3. ASSUME NEW s \in Seq(Events), All(s), s # <<>>
      PROVE  All(Tail(s)) /\ Credible(Head(s))
  <2>1. /\ Len(s) \in Nat /\ Len(s) # 0 /\ Len(Tail(s)) = Len(s) - 1 /\ Head(s) = s[1]
        /\ \A i \in 1..(Len(s) - 1) : Tail(s)[i] = s[i + 1]
    BY <1>3, LenProperties, EmptySeq, HeadTailProperties
  <2> QED  BY <1>3, <2>1
<1>4. ASSUME NEW s \in Seq(Events), All(s), NEW e \in Events, Credible(e)
      PROVE  All(Append(s, e))
  <2>1. /\ Len(s) \in Nat /\ Len(Append(s, e)) = Len(s) + 1 /\ Append(s, e)[Len(s) + 1] = e
        /\ \A i \in 1..Len(s) : Append(s, e)[i] = s[i]
    BY LenProperties, AppendProperties
  <2> QED  BY <1>4, <2>1
<1> HIDE DEF All
<1>5. All(up')  BY <1>1, <1>2, <1>3, <1>4 DEF PipeMove
<1>6. All(out')  BY <1>1, <1>2, <1>3, <1>4 DEF PipeMove
<1>7. output' = "writing" => Credible(frame')  BY <1>1, <1>2, <1>3 DEF PipeMove
<1> QED  BY <1>5, <1>6, <1>7 DEF All, Frames, Believable, Credible, Started

\* Groups are ended, started and reaped by the child; the other two only kill.
LEMMA StepAges ==
    ASSUME Contents, [Next]_vars
    PROVE  Ages
<1> USE DEF handle, proxy, pipes, history
<1>0. group' = group => Ages  BY DEF Ages, Started
<1>1. CASE Server
  <2>1. CASE Interrupt \/ KillJobs \/ Drop
    <3>1. group' = Killed(known)  BY <2>1 DEF Interrupt, KillJobs, Drop, KillKnown
    <3> QED  BY <3>1, KilledAges
  <2>2. CASE Launch \/ LaunchFails \/ Hear \/ CloseInput \/ ForceEnd \/ Reap \/ Crash
    BY <1>0, <2>2 DEF Launch, LaunchFails, Hear, CloseInput, ForceEnd, Reap, Crash
  <2> QED  BY <1>1, <2>1, <2>2 DEF Server
<1>2. CASE Guard
  <2>1. CASE Sweep  BY <2>1, KilledAges DEF Sweep
  <2>2. CASE ~Sweep
    BY <1>0, <1>2, <2>2 DEF Guard, Ending, Watch, ReadHeader, Spawn, KillChild, Flush, Leave,
                            InputEnds, Register, Forward, OutputEnds
  <2> QED  BY <2>1, <2>2
<1>3. CASE Child
  <2>1. CASE Stall \/ Exit  BY <1>0, <2>1 DEF Stall, Exit
  <2>2. ASSUME NEW j \in Jobs, Detach(j) \/ JobEnds(j) \/ Finish(j) PROVE Ages
    BY <2>2 DEF Contents, Detach, JobEnds, Finish, Ages, Started
  <2> QED  BY <1>3, <2>1, <2>2 DEF Child
<1>4. CASE UNCHANGED vars  BY <1>0, <1>4 DEF vars
<1> QED  BY <1>1, <1>2, <1>3, <1>4 DEF Next, Quiet

LEMMA StepFrames ==
    ASSUME Contents, Frames, [Next]_vars
    PROVE  Frames'
<1> USE DEF handle, proxy, pipes, history
<1>1. CASE Server
  BY <1>1, StepAges, MoveFrames DEF PipeMove, Server, Launch, LaunchFails, Hear, Interrupt,
      CloseInput, KillJobs, ForceEnd, Reap, Drop, Crash
<1>2. CASE Guard
  <2>1. PipeMove
    BY <1>2 DEF PipeMove, Guard, Ending, Watch, ReadHeader, Spawn, KillChild, Sweep, Flush, Leave,
                InputEnds, Register, Forward, OutputEnds
  <2> QED  BY <2>1, StepAges, MoveFrames
<1>3. CASE Child
  <2>1. UNCHANGED <<out, output, frame>>  BY <1>3 DEF Child
  <2>2. up' = up \/ \E e \in Events : up' = Append(up, e) /\ Credible(e)
    <3>1. CASE Stall \/ Exit  BY <3>1 DEF Stall, Exit
    <3>2. ASSUME NEW j \in Jobs, Detach(j)
          PROVE  up' = up \/ \E e \in Events : up' = Append(up, e) /\ Credible(e)
      <4>1. CASE up' = up  BY <4>1
      <4>2. CASE /\ group[j] = "silent" /\ group' = [group EXCEPT ![j] = "live"]
                 /\ Say(Event("started", j))
        <5>1. Event("started", j) \in Events /\ Event("started", j).action = "started"
              /\ Event("started", j).job = j
          BY DEF Event, Events
        <5>2. group'[j] = "live"  BY <4>2 DEF Contents
        <5>3. Credible(Event("started", j))  BY <5>1, <5>2 DEF Credible
        <5> QED  BY <4>2, <5>1, <5>3 DEF Say
      <4> QED  BY <3>2, <4>1, <4>2 DEF Detach
    <3>3. ASSUME NEW j \in Jobs, Finish(j)
          PROVE  \E e \in Events : up' = Append(up, e) /\ Credible(e)
      <4>1. Event("finished", j) \in Events /\ Event("finished", j).action = "finished"
            /\ Event("finished", j).job = j
        BY DEF Event, Events
      <4>2. group'[j] = "freed"  BY <3>3 DEF Finish, Contents
      <4>3. Credible(Event("finished", j))  BY <4>1, <4>2 DEF Credible
      <4> QED  BY <3>3, <4>1, <4>3 DEF Finish, Say
    <3>4. ASSUME NEW j \in Jobs, JobEnds(j) PROVE up' = up  BY <3>4 DEF JobEnds
    <3> QED  BY <1>3, <3>1, <3>2, <3>3, <3>4 DEF Child
  <2> QED  BY <2>1, <2>2, StepAges, MoveFrames DEF PipeMove
<1>4. CASE UNCHANGED vars
  BY <1>4, StepAges, MoveFrames DEF vars, PipeMove
<1> QED  BY <1>1, <1>2, <1>3, <1>4 DEF Next, Quiet

LEMMA StepTables ==
    ASSUME Contents, Places, Frames, Tables, [Next]_vars
    PROVE  Tables'
<1> USE DEF handle, proxy, pipes, history
<1>t. /\ read \in SUBSET Jobs /\ heard \in SUBSET Jobs /\ known \in SUBSET Jobs
      /\ table \in SUBSET Jobs /\ Ages
      /\ up # <<>> => Head(up) \in Events /\ Believable(Head(up))
      /\ out # <<>> => Head(out) \in Events /\ Believable(Head(out))
  <2>1. ASSUME NEW s \in Seq(Events), s # <<>>, \A i \in 1..Len(s) : Believable(s[i])
        PROVE  Head(s) \in Events /\ Believable(Head(s))
    <3>1. Len(s) \in Nat /\ Len(s) # 0 /\ Head(s) = s[1] /\ Head(s) \in Events
      BY <2>1, LenProperties, EmptySeq, HeadTailProperties
    <3> QED  BY <2>1, <3>1
  <2> QED  BY <2>1, StepAges DEF Contents, Frames
<1> DEFINE Kept == IF swept THEN {} ELSE table
<1>k. Kept \in SUBSET Jobs /\ Told(read, Kept) /\ Told(heard, known)  BY <1>t DEF Tables
<1>r. UNCHANGED <<read, table, swept>> => Told(read, Kept)'
  BY <1>t, <1>k, ToldStays DEF Told, Started
<1>h. UNCHANGED <<heard, known>> => Told(heard, known)'
  BY <1>t, <1>k, ToldStays DEF Told, Started
<1>1. CASE Server
  <2>1. Told(read, Kept)'  BY <1>r, <1>1 DEF Server
  <2>2. CASE Launch \/ LaunchFails \/ CloseInput \/ ForceEnd \/ Reap \/ Crash
    <3>1. UNCHANGED <<heard, known>>
      BY <2>2 DEF Launch, LaunchFails, CloseInput, ForceEnd, Reap, Crash
    <3>2. owner' \in {"launching", "dropped"} => owner \in {"launching", "dropped"}
      BY <2>2 DEF Launch, LaunchFails, CloseInput, ForceEnd, Reap, Crash
    <3> QED  BY <1>h, <2>1, <3>1, <3>2 DEF Tables
  <2>3. CASE Hear
    <3>1. /\ out # <<>> /\ known' = Registered(known, Head(out)) /\ UNCHANGED <<group, owner>>
          /\ heard' = IF Head(out).action = "started" THEN heard \cup {Head(out).job} ELSE heard
          /\ owner \notin {"launching", "dropped"}
      BY <2>3 DEF Hear
    <3>2. Told(heard', known')  BY <1>t, <1>k, <3>1, ToldMore
    <3>3. Told(heard, known)'  BY <3>1, <3>2 DEF Told, Started
    <3> QED  BY <2>1, <3>1, <3>3 DEF Tables
  <2>4. CASE Interrupt \/ KillJobs \/ Drop
    <3>1. group' = Killed(known) /\ known' = {} /\ heard' = heard
      BY <2>4 DEF Interrupt, KillJobs, Drop, KillKnown
    <3>2. Told(heard, {})'
      BY <1>t, <1>k, <3>1, ToldKilled DEF Told, Started
    <3> QED  BY <2>1, <3>1, <3>2 DEF Tables
  <2> QED  BY <1>1, <2>2, <2>3, <2>4 DEF Server
<1>2. CASE Guard
  <2>1. Told(heard, known)' /\ UNCHANGED <<owner, known>>  BY <1>h, <1>2 DEF Guard
  <2>2. CASE Watch \/ ReadHeader \/ Spawn \/ KillChild \/ Flush \/ Leave \/ InputEnds
             \/ OutputEnds \/ Forward
    <3>1. UNCHANGED <<read, table, swept>>
      BY <2>2 DEF Watch, ReadHeader, Spawn, KillChild, Flush, Leave, InputEnds, OutputEnds, Forward
    <3> QED  BY <1>r, <2>1, <3>1 DEF Tables
  <2>3. CASE Sweep
    <3>1. group' = Killed(table) /\ table' = {} /\ read' = read /\ swept' = TRUE
      BY <2>3 DEF Sweep
    <3>2. Told(read, {})'
      <4>1. CASE swept
        BY <1>t, <1>k, <3>1, <4>1, ToldStays DEF Told, Started
      <4>2. CASE ~swept
        BY <1>t, <1>k, <3>1, <4>2, ToldKilled DEF Told, Started
      <4> QED  BY <4>1, <4>2
    <3> QED  BY <2>1, <3>1, <3>2 DEF Tables
  <2>4. CASE Register
    <3>1. /\ up # <<>> /\ table' = Registered(table, Head(up)) /\ UNCHANGED <<group, swept>>
          /\ read' = Noted(Head(up))
      BY <2>4 DEF Register
    <3>2. CASE swept
      <4>1. read' = read  BY <3>1, <3>2 DEF Noted
      <4>2. Told(read, {})  BY <1>k, <3>2
      <4>3. Told(read, {})'  BY <3>1, <4>1, <4>2 DEF Told, Started
      <4> QED  BY <2>1, <3>1, <3>2, <4>3 DEF Tables
    <3>3. CASE ~swept
      <4>1. read' = IF Head(up).action = "started" THEN read \cup {Head(up).job} ELSE read
        BY <3>1, <3>3 DEF Noted
      <4>2. Told(read', table')  BY <1>t, <1>k, <3>1, <3>3, <4>1, ToldMore
      <4>3. Told(read, table)'  BY <3>1, <4>2 DEF Told, Started
      <4> QED  BY <2>1, <3>1, <3>3, <4>3 DEF Tables
    <3> QED  BY <3>2, <3>3
  <2> QED  BY <1>2, <2>2, <2>3, <2>4 DEF Guard, Ending
<1>3. CASE Child
  BY <1>r, <1>h, <1>3 DEF Child, Tables
<1>4. CASE UNCHANGED vars
  BY <1>r, <1>h, <1>4 DEF vars, Tables
<1> QED  BY <1>1, <1>2, <1>3, <1>4 DEF Next, Quiet

LEMMA JobsInvariant == Spec => [](Frames /\ Tables)
<1>1. Init => Frames /\ Tables
  <2> SUFFICES ASSUME Init PROVE Frames /\ Tables
    OBVIOUS
  <2>1. Len(up) = 0 /\ Len(out) = 0  BY EmptySeq DEF Init
  <2> QED  BY <2>1 DEF Init, Frames, Tables, Told
<1>2. TypeInv /\ Frames /\ Tables /\ [Next]_vars => Frames' /\ Tables'
  BY StepFrames, StepTables DEF TypeInv
<1> QED  BY <1>1, <1>2, TypeInvariant, PTL DEF Spec

\* Whichever way a guardian comes to its end, also by a signal while it still reads its
\* command, its child does not survive it; a job whose start it has read before it swept
\* does not survive the sweep, and none the server has heard of survives the worker's drop
\* (owner, Worker::terminate, Worker::drop).
THEOREM NothingSurvives == Spec => []NothingLeft
<1>1. TypeInv /\ Tables => NothingLeft
  BY DEF TypeInv, Tree, Tables, Told, NothingLeft
<1> QED  BY <1>1, TypeInvariant, JobsInvariant, PTL
=============================================================================

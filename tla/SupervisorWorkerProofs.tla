------------------------- MODULE SupervisorWorkerProofs -------------------------
(* Theorems about the workers of a session: who ends them, which generation a  *)
(* cell runs on, what its result says, and the lane its callers are promised.  *)
EXTENDS SupervisorProofs

-----------------------------------------------------------------------------
(* The parts of the inductive invariant.                                     *)

\* Control points before the run's own worker can exist, and before its code runs.
Before == {"idle", "reserve", "inspect", "wait", "admit", "begin", "checks", "lock",
           "prepare", "stopping", "spawning"}
Unsent == Before \cup {"take", "armed", "sending"}

\* Where a run holds a worker.
Holding(r) == \/ pc[r] \in {"stopping", "spawning", "armed", "terminating"} \cup Armed
              \/ pc[r] = "take" /\ Fresh(r)

\* A live worker is in the slot or in the hands of the run that has the mutex.
Ownership ==
    /\ \A r \in Runs : held[r] # NoRun <=> Holding(r)
    /\ \A w \in Runs : Running(w) => slot = w \/ \E r \in Runs : held[r] = w
    /\ slot # NoRun => ~Fresh(slot) /\ pc[slot] \notin Before
    /\ \A r \in Runs : Holding(r) =>
          /\ held[r] = r \/ pc[held[r]] \notin Before
          /\ IF Fresh(r) THEN held[r] = r ELSE slot = NoRun /\ ~Fresh(held[r])
          /\ pc[r] = "spawning" => held[r] = r
    /\ \A r \in Runs : pc[r] = "take" /\ ~Fresh(r) => slot = r

\* A run is the active one from its admission until its answer.
Admitted == {"begin", "checks", "lock"} \cup Locking
ActiveInv == \A r \in Runs : pc[r] \in Admitted => active = r

\* A run close() finds on its way to a worker has been cancelled, and none is on one
\* while the slot is emptied or after that.
PastChecks == {"checks", "lock", "prepare", "stopping", "spawning", "take", "armed"}
CloseInv ==
    /\ closer # "open" => closed
    /\ closer \notin {"open", "cancelling"} => \A r \in Runs : pc[r] \in PastChecks => cancelled[r]
    /\ closer \in {"stopping", "closed", "dropped"} => \A r \in Runs : pc[r] \notin Armed

\* Nothing has run on a worker that does not exist yet, and no code before it is sent.
Histories ==
    /\ \A r \in Runs : pc[r] \in Unsent => ranOn[r] = NoRun
    /\ \A r \in Runs : ranOn[r] # NoRun => pc[ranOn[r]] \notin Before
    /\ \A r \in Runs : ranOn[r] # NoRun /\ Holding(r) => ranOn[r] = held[r]
    /\ \A r \in Runs : pc[r] \in Unsent => firstOn[r] = NoRun
    /\ \A r \in Runs : ranOn[r] = r /\ Recorded(r) => firstOn[r] = r

\* The generation a run that stated an expectation sees.
Expected(r) == request[r].expected
OnWorker == {"armed", "terminating"} \cup Armed
Generations ==
    /\ slot # NoRun => gen[slot] = generation /\ generation > 0
    /\ \A r \in Runs : ~Fresh(r) /\ pc[r] \in OnWorker => gen[held[r]] = generation /\ generation > 0
    /\ \A r \in Runs : Expected(r) # AnyGeneration /\ ~Fresh(r) =>
          /\ pc[r] \in {"lock", "prepare", "stopping", "spawning"} => generation = Expected(r)
          /\ pc[r] = "take" => generation = Expected(r) + 1
          /\ pc[r] \in OnWorker =>
                generation = IF request[r].reset \/ Expected(r) = 0 THEN Expected(r) + 1
                                                                    ELSE Expected(r)

\* A finished background run has been recorded.
InHistory(h, r) == \E i \in 1..Len(h) : h[i] = r
Retained(r) == InHistory(records, r) \/ Len(records) = HistoryLimit
RetainedInv ==
    /\ Len(records) <= HistoryLimit
    /\ \A r \in Runs : /\ Background(r) => Recorded(r)
                       /\ pc[r] = "idle" => outcome[r] = NoOutcome
    /\ \A r \in Runs : Background(r) /\ ~aborted[r] =>
          /\ pc[r] \in Before => outcome[r] = NoOutcome
          /\ pc[r] \in {"dropping", "release", "notify"} => Retained(r)
          /\ pc[r] = "done" /\ outcome[r] # NoOutcome => Retained(r)
          /\ pc[r] # "recordAbandoned"
          /\ pc[r] \in {"record", "dropping", "release"} => active = NoRun

-----------------------------------------------------------------------------
(* What a step of a request does with workers.                               *)

Keeps(r)   == /\ UNCHANGED <<slot, held, proc, generation, gen>>
              /\ pc'[r] \in OnWorker <=> pc[r] \in OnWorker
              /\ pc'[r] \in {"stopping", "spawning", "take"} => pc'[r] = pc[r]
              /\ pc[r] \in {"stopping", "spawning", "take"} =>
                     pc'[r] = pc[r] \/ (pc[r] = "take" /\ ~Fresh(r))
Takes(r)   == /\ ~Fresh(r)
              /\ pc[r] = "take" \/ (pc[r] = "prepare" /\ slot # NoRun)
              /\ \/ pc'[r] = "stopping" /\ pc[r] = "prepare"
                 \/ pc'[r] = "armed" /\ ~Stale(r) /\ (pc[r] = "prepare" => ~request[r].reset)
              /\ slot' = NoRun /\ held' = [held EXCEPT ![r] = slot]
              /\ UNCHANGED <<proc, generation, gen>>
Returns(r) == /\ ~Fresh(r) /\ pc[r] \in {"armed", "settling"} /\ pc'[r] = "answer"
              /\ slot' = held[r] /\ held' = [held EXCEPT ![r] = NoRun]
              /\ UNCHANGED <<proc, generation, gen>>
Ends(r)    == /\ pc[r] \in {"stopping", "spawning"} \cup OnWorker
              /\ pc'[r] \in {"prepare", "answer", "dropping"}
              /\ pc'[r] = "prepare" => pc[r] = "stopping"
              /\ proc' = [proc EXCEPT ![held[r]] = "killed"] /\ held' = [held EXCEPT ![r] = NoRun]
              /\ UNCHANGED <<slot, generation, gen>>
Starts(r)  == /\ Fresh(r) \/ slot = NoRun
              /\ pc[r] = "prepare" /\ pc'[r] = "spawning"
              /\ held' = [held EXCEPT ![r] = r] /\ proc' = [proc EXCEPT ![r] = "starting"]
              /\ UNCHANGED <<slot, generation, gen>>
Opens(r)   == /\ ~Fresh(r) /\ pc[r] = "spawning" /\ pc'[r] = "take"
              /\ proc' = [proc EXCEPT ![r] = "up"]
              /\ slot' = r /\ held' = [held EXCEPT ![r] = NoRun]
              /\ generation' = generation + 1 /\ gen' = [gen EXCEPT ![r] = generation + 1]
Readies(r) == /\ Fresh(r) /\ pc[r] = "spawning" /\ pc'[r] = "take"
              /\ proc' = [proc EXCEPT ![r] = "up"]
              /\ UNCHANGED <<slot, held, generation, gen>>
Boards(r)  == /\ Fresh(r) /\ pc[r] = "take" /\ pc'[r] = "armed"
              /\ held' = [held EXCEPT ![r] = held[r]]
              /\ UNCHANGED <<slot, proc, generation, gen>>

WorkerMove(r) ==
    /\ pc' = [pc EXCEPT ![r] = pc'[r]]
    /\ pc'[r] \in Before => pc[r] \in Before
    /\ pc[r] # "idle" => request' = request
    /\ \A q \in Runs \ {r} : request'[q] = request[q]
    /\ closer' = closer
    /\ \/ Keeps(r) \/ Takes(r) \/ Returns(r) \/ Ends(r) \/ Starts(r) \/ Opens(r)
       \/ Readies(r) \/ Boards(r)

LEMMA WorkerMoves ==
    ASSUME TypeOK, NEW r \in Runs, Arrival(r) \/ Step(r) \/ WorkerEvent(r) \/ Abandon(r)
    PROVE  WorkerMove(r)
<1>t. pc \in [Runs -> PC] /\ request \in [Runs -> Request]  BY DEF TypeOK
<1> USE <1>t DEF WorkerMove, Armed, OnWorker, Before
<1>1. CASE Arrival(r)
  BY <1>1 DEF Arrival, Arrive, Goto, Keeps, worker, close
<1>2. CASE Admission(r)
  BY <1>2 DEF Admission, Reserve, Inspect, Wait, Admit, StoreHandle, Goto, Keeps, worker, close
<1>3. CASE Preparation(r)
  <2> USE DEF Goto, close
  <2>0. UNCHANGED <<request, close>>  BY <1>3 DEF Preparation
  <2>1. CASE Begin(r) \/ Checks(r) \/ TryLock(r)
    BY <2>0, <2>1 DEF Begin, Checks, TryLock, Refuse, Keeps
  <2>2. CASE StopWorker(r)  BY <2>0, <2>2 DEF StopWorker, MustStop, Takes
  <2>3. CASE Stopped(r) \/ SpawnFails(r)  BY <2>0, <2>3 DEF Stopped, SpawnFails, Kill, Ends
  <2>4. CASE StartWorker(r)  BY <2>0, <2>4 DEF StartWorker, Starts
  <2>5. CASE Spawned(r)  BY <2>0, <2>5 DEF Spawned, Opens, Readies
  <2>6. CASE Take(r)
    <3>1. CASE Stale(r)
      <4>1. ~Fresh(r)  BY <3>1 DEF Stale
      <4> QED  BY <2>0, <2>6, <3>1, <4>1 DEF Take, Refuse, Keeps
    <3>2. CASE ~Stale(r)
      <4>1. pc' = [pc EXCEPT ![r] = "armed"] /\ UNCHANGED <<generation, proc, gen>>
            /\ held' = [held EXCEPT ![r] = IF Fresh(r) THEN @ ELSE slot]
            /\ slot' = IF Fresh(r) THEN slot ELSE NoRun
        BY <2>6, <3>2 DEF Take
      <4>2. pc[r] = "take" \/ (pc[r] = "prepare" /\ ~Fresh(r) /\ slot # NoRun /\ ~MustStop(r))
        BY <2>6 DEF Take
      <4>3. CASE Fresh(r)  BY <2>0, <4>1, <4>2, <4>3 DEF Boards
      <4>4. CASE ~Fresh(r)
        <5>1. slot' = NoRun /\ held' = [held EXCEPT ![r] = slot]  BY <4>1, <4>4
        <5>2. pc[r] = "prepare" => ~request[r].reset  BY <4>2 DEF MustStop
        <5>3. pc[r] = "take" \/ (pc[r] = "prepare" /\ slot # NoRun)  BY <4>2
        <5>4. Takes(r)  BY <3>2, <4>1, <4>4, <5>1, <5>2, <5>3 DEF Takes
        <5> QED  BY <2>0, <4>1, <4>2, <5>4
      <4> QED  BY <4>3, <4>4
    <3> QED  BY <3>1, <3>2
  <2> QED  BY <1>3, <2>1, <2>2, <2>3, <2>4, <2>5, <2>6 DEF Preparation
<1>4. CASE Execution(r)
  <2> USE DEF Goto, close
  <2>0. ExecutionFrame  BY <1>4 DEF Execution
  <2>1. CASE Send(r) \/ Sent(r) \/ SendFails(r) \/ Interrupt(r) \/ GraceExpires(r) \/ Retire(r)
    BY <2>0, <2>1 DEF Send, Sent, SendFails, Interrupt, GraceExpires, Retire, Settle, Keeps,
                      ExecutionFrame
  <2>2. CASE CancelDispatch(r)
    BY <2>0, <2>2 DEF CancelDispatch, Keeps, Returns, ExecutionFrame
  <2>3. CASE PutBack(r)
    BY <2>0, <2>3 DEF PutBack, Finish, Returns, ExecutionFrame
  <2>4. CASE Terminated(r)
    BY <2>0, <2>4 DEF Terminated, Finish, Kill, Ends, ExecutionFrame
  <2> QED  BY <1>4, <2>1, <2>2, <2>3, <2>4 DEF Execution
<1>5. CASE WorkerEvent(r)
  BY <1>5 DEF WorkerEvent, WorkerResult, WorkerLost, Settle, ExecutionFrame, Keeps, close
<1>6. CASE Completion(r)
  BY <1>6 DEF Completion, Answer, Record, DropReservation, RecordAbandoned, Release,
              Notify, Goto, Keeps, worker, close
<1>7. CASE Abandon(r)
  <2>0. UNCHANGED <<request, generation, slot, gen, close>>  BY <1>7 DEF Abandon
  <2>1. CASE AbandonWait(r)  BY <2>0, <2>1 DEF AbandonWait, Goto, Keeps, close
  <2>2. CASE AbandonPreparing(r)  BY <2>0, <2>2 DEF AbandonPreparing, Kill, Ends, close
  <2>3. CASE AbandonGuarded(r)  BY <2>0, <2>3 DEF AbandonGuarded, Kill, Ends, close
  <2> QED  BY <1>7, <2>1, <2>2, <2>3 DEF Abandon
<1> QED  BY <1>1, <1>2, <1>3, <1>4, <1>5, <1>6, <1>7 DEF Step

-----------------------------------------------------------------------------
(* Ownership.                                                                *)

\* A run that holds a worker is the only one, and has the mutex.
LEMMA OneHolder ==
    ASSUME SlotExclusive, NEW r \in Runs, NEW q \in Runs, pc[r] \in Locking, pc[q] \in Locking
    PROVE  q = r
BY DEF SlotExclusive

LEMMA MoveOwnership ==
    ASSUME TypeOK, SlotExclusive, Ownership, NEW r \in Runs, WorkerMove(r)
    PROVE  Ownership'
<1>t. /\ pc \in [Runs -> PC] /\ held \in [Runs -> Runs \cup {NoRun}] /\ slot \in Runs \cup {NoRun}
      /\ proc \in [Runs -> ProcState] /\ NoRun \notin Runs
  BY SupervisorAssumption DEF TypeOK, RunOrNone
<1>1. \A q \in Runs \ {r} : /\ pc'[q] = pc[q] /\ Fresh(q)' = Fresh(q)
                            /\ Holding(q)' <=> Holding(q)
  BY <1>t DEF WorkerMove, Fresh, Holding
<1>2. pc[r] # "idle" => \A q \in Runs : Fresh(q)' = Fresh(q)
  BY DEF WorkerMove, Fresh
<1>3. pc[r] \in Locking => \A q \in Runs \ {r} : ~Holding(q) /\ held[q] = NoRun
  BY OneHolder, <1>t DEF Holding, Locking, Ownership
<1>4. \A w \in Runs : w # r => (pc'[w] \in Before <=> pc[w] \in Before)  BY <1>1
<1>5. \A w \in Runs : pc[w] \notin Before => pc'[w] \notin Before /\ Fresh(w)' = Fresh(w)
  BY <1>1, <1>2 DEF WorkerMove, Before
<1> DEFINE Loose(w) == Running(w) => slot = w \/ \E q \in Runs : held[q] = w
           Hold(q) == Holding(q) =>
              /\ held[q] = q \/ pc[held[q]] \notin Before
              /\ IF Fresh(q) THEN held[q] = q ELSE slot = NoRun /\ ~Fresh(held[q])
              /\ pc[q] = "spawning" => held[q] = q
<1>6. CASE Keeps(r)
  <2>1. UNCHANGED <<slot, held, proc>>  BY <1>6 DEF Keeps
  <2>2. Holding(r)' <=> Holding(r)
    BY <1>6, <1>2 DEF Keeps, Holding, OnWorker, Armed
  <2>3. Holding(r) => pc[r] # "idle"  BY DEF Holding, Armed
  <2>4. pc'[r] \in {"spawning", "take"} => pc'[r] = pc[r] /\ pc[r] # "idle"
    BY <1>6 DEF Keeps
  <2>5. (\A q \in Runs : held[q] # NoRun <=> Holding(q))'
    BY <1>1, <2>1, <2>2 DEF Ownership
  <2>6. (\A w \in Runs : Loose(w))'  BY <2>1 DEF Ownership, Running
  <2>7. (slot # NoRun => ~Fresh(slot) /\ pc[slot] \notin Before)'
    BY <1>t, <1>5, <2>1 DEF Ownership
  <2>8. (\A q \in Runs : Hold(q))'
    BY <1>t, <1>1, <1>2, <1>5, <2>1, <2>2, <2>3, <2>4 DEF Ownership
  <2>9. (\A q \in Runs : pc[q] = "take" /\ ~Fresh(q) => slot = q)'
    BY <1>1, <1>2, <2>1, <2>4 DEF Ownership
  <2> QED  BY <2>5, <2>6, <2>7, <2>8, <2>9 DEF Ownership
<1>7. ASSUME pc[r] \in Locking, held' = [held EXCEPT ![r] = held'[r]],
             held'[r] # NoRun <=> Holding(r)',
             Loose(r)', \A w \in Runs \ {r} : Running(w)' => slot' = w \/ held'[r] = w,
             slot' # NoRun => ~Fresh(slot') /\ pc'[slot'] \notin Before,
             Hold(r)', pc'[r] = "take" /\ ~Fresh(r) => slot' = r
      PROVE  Ownership'
  <2>1. \A q \in Runs : Fresh(q)' = Fresh(q)  BY <1>2, <1>7 DEF Locking, Armed
  <2>2. \A q \in Runs \ {r} : held'[q] = NoRun /\ ~Holding(q)'  BY <1>1, <1>3, <1>7, <1>t
  <2>3. (\A q \in Runs : held[q] # NoRun <=> Holding(q))'  BY <1>7, <2>2
  <2>4. (\A w \in Runs : Running(w) => slot = w \/ \E q \in Runs : held[q] = w)'  BY <1>7
  <2>5. (slot # NoRun => ~Fresh(slot) /\ pc[slot] \notin Before)'
    <3>1. slot' # NoRun => ~Fresh(slot)'  BY <1>7, <1>2 DEF Locking, Armed, Fresh, WorkerMove
    <3> QED  BY <1>7, <3>1
  <2>6. (\A q \in Runs : Hold(q))'  BY <1>7, <2>2
  <2>7. (\A q \in Runs : pc[q] = "take" /\ ~Fresh(q) => slot = q)'
    <3>1. \A q \in Runs \ {r} : pc'[q] # "take"
      BY <1>1, <1>7, <1>t, OneHolder DEF Locking
    <3> QED  BY <1>7, <2>1, <3>1
  <2> QED  BY <2>3, <2>4, <2>5, <2>6, <2>7 DEF Ownership
<1>8. pc[r] \in Locking => /\ pc[r] # "idle" /\ (Fresh(r)' <=> Fresh(r))
                          /\ \A w \in Runs : Running(w) => slot = w \/ held[r] = w
  <2>1. pc[r] \in Locking => pc[r] # "idle"  BY DEF Locking, Armed
  <2>2. pc[r] \in Locking => \A w \in Runs : Running(w) => slot = w \/ held[r] = w
    BY <1>3, <1>t DEF Ownership
  <2> QED  BY <1>2, <2>1, <2>2
<1> HIDE DEF Loose, Hold
<1>9. CASE Takes(r)
  <2>1. pc[r] \in Locking /\ ~Holding(r) /\ held[r] = NoRun
    BY <1>9, <1>t DEF Takes, Locking, Holding, Armed, Ownership
  <2>2. slot \in Runs /\ slot # NoRun
    BY <1>9, <1>t DEF Takes, Ownership
  <2>3. /\ slot' = NoRun /\ held'[r] = slot /\ held' = [held EXCEPT ![r] = held'[r]]
        /\ proc' = proc /\ ~Fresh(r)
    BY <1>9, <1>t DEF Takes
  <2>4. Holding(r)' /\ pc'[r] \notin {"spawning", "take"}
    BY <1>9 DEF Takes, Holding
  <2>5. \A w \in Runs : Running(w)' => held'[r] = w
    BY <1>8, <2>1, <2>2, <2>3, <1>t DEF Running
  <2>6. Hold(r)'
    BY <1>5, <1>8, <2>1, <2>2, <2>3, <2>4 DEF Hold, Ownership
  <2> QED  BY <1>7, <1>t, <2>1, <2>2, <2>3, <2>4, <2>5, <2>6 DEF Loose
<1>10. CASE Returns(r)
  <2>1. pc[r] \in Locking /\ Holding(r) /\ held[r] \in Runs
    BY <1>10, <1>t DEF Returns, Locking, Holding, Armed, Ownership
  <2>2. /\ slot' = held[r] /\ held'[r] = NoRun /\ held' = [held EXCEPT ![r] = held'[r]]
        /\ proc' = proc /\ ~Fresh(r) /\ pc'[r] = "answer"
    BY <1>10, <1>t DEF Returns
  <2>3. ~Holding(r)' /\ pc'[r] \notin {"spawning", "take"}
    BY <2>2 DEF Holding, Armed
  <2>4. slot = NoRun /\ ~Fresh(held[r]) /\ (held[r] = r \/ pc[held[r]] \notin Before)
    BY <2>1, <2>2 DEF Ownership
  <2>5. \A w \in Runs : Running(w)' => slot' = w
    BY <1>8, <2>1, <2>2, <2>4, <1>t DEF Running
  <2>6. ~Fresh(slot') /\ pc'[slot'] \notin Before
    BY <1>1, <2>1, <2>2, <2>4, <1>t, <1>5 DEF Before
  <2> QED  BY <1>7, <1>t, <2>1, <2>2, <2>3, <2>5, <2>6 DEF Loose, Hold
<1>11. CASE Ends(r)
  <2>1. pc[r] \in Locking /\ Holding(r) /\ held[r] \in Runs
    BY <1>11, <1>t DEF Ends, Locking, Holding, Armed, Ownership, OnWorker
  <2>2. /\ slot' = slot /\ held'[r] = NoRun /\ held' = [held EXCEPT ![r] = held'[r]]
        /\ proc' = [proc EXCEPT ![held[r]] = "killed"]
        /\ pc'[r] \in {"prepare", "answer", "dropping"}
    BY <1>11, <1>t DEF Ends
  <2>3. ~Holding(r)' /\ pc'[r] \notin {"spawning", "take"}
    BY <2>2 DEF Holding, Armed
  <2>4. \A w \in Runs : Running(w)' => slot' = w
    BY <1>8, <2>1, <2>2, <1>t DEF Running
  <2>5. slot' # NoRun => ~Fresh(slot') /\ pc'[slot'] \notin Before
    BY <1>5, <2>2, <1>t DEF Ownership
  <2> QED  BY <1>7, <1>t, <2>1, <2>2, <2>3, <2>4, <2>5 DEF Loose, Hold
<1>12. CASE Starts(r)
  <2>1. pc[r] \in Locking /\ ~Holding(r) /\ held[r] = NoRun
    BY <1>12, <1>t DEF Starts, Locking, Holding, Armed, Ownership
  <2>2. /\ slot' = slot /\ held'[r] = r /\ held' = [held EXCEPT ![r] = held'[r]]
        /\ proc' = [proc EXCEPT ![r] = "starting"]
        /\ pc'[r] = "spawning" /\ (Fresh(r) \/ slot = NoRun)
    BY <1>12, <1>t DEF Starts
  <2>3. Holding(r)'  BY <2>2 DEF Holding
  <2>4. \A w \in Runs : Running(w)' => slot' = w \/ held'[r] = w
    BY <1>8, <2>1, <2>2, <1>t DEF Running
  <2>5. slot' # NoRun => ~Fresh(slot') /\ pc'[slot'] \notin Before
    BY <1>5, <2>2, <1>t DEF Ownership
  <2>6. Hold(r)'  BY <1>8, <2>1, <2>2 DEF Hold, Fresh
  <2> QED  BY <1>7, <1>t, <2>1, <2>2, <2>3, <2>4, <2>5, <2>6 DEF Loose
<1>13. CASE Opens(r)
  <2>1. pc[r] \in Locking /\ Holding(r) /\ held[r] = r
    BY <1>13, <1>t DEF Opens, Locking, Holding, Armed, Ownership
  <2>2. /\ slot' = r /\ held'[r] = NoRun /\ held' = [held EXCEPT ![r] = held'[r]]
        /\ proc' = [proc EXCEPT ![r] = "up"]
        /\ pc'[r] = "take" /\ ~Fresh(r)
    BY <1>13, <1>t DEF Opens
  <2>3. ~Holding(r)' /\ "take" \notin Before  BY <1>8, <2>1, <2>2 DEF Holding, Armed, Before
  <2>4. slot = NoRun  BY <2>1, <2>2 DEF Ownership
  <2>5. \A w \in Runs : Running(w)' => slot' = w
    BY <1>8, <2>1, <2>2, <2>4, <1>t DEF Running
  <2> QED  BY <1>7, <1>t, <2>1, <2>2, <2>3, <2>5 DEF Loose, Hold
<1>14. CASE Readies(r) \/ Boards(r)
  <2>1. pc[r] \in Locking /\ Holding(r) /\ held[r] = r
    BY <1>14, <1>t DEF Readies, Boards, Locking, Holding, Armed, Ownership
  <2>2. /\ slot' = slot /\ held' = held /\ Fresh(r)
        /\ proc' = proc \/ proc' = [proc EXCEPT ![r] = "up"]
        /\ pc'[r] \in {"take", "armed"}
    BY <1>14, <1>t DEF Readies, Boards
  <2>3. Holding(r)'  BY <1>8, <2>1, <2>2 DEF Holding
  <2>4. \A w \in Runs : Running(w)' => slot' = w \/ held'[r] = w
    BY <1>8, <2>1, <2>2, <1>t DEF Running
  <2>5. slot' # NoRun => ~Fresh(slot') /\ pc'[slot'] \notin Before
    BY <1>5, <2>2, <1>t DEF Ownership
  <2>6. Hold(r)'  BY <1>8, <2>1, <2>2 DEF Hold
  <2>7. held' = [held EXCEPT ![r] = held'[r]]  BY <2>2, <1>t
  <2> QED  BY <1>7, <1>8, <1>t, <2>1, <2>2, <2>3, <2>4, <2>5, <2>6, <2>7 DEF Loose
<1> QED
  BY <1>6, <1>9, <1>10, <1>11, <1>12, <1>13, <1>14 DEF WorkerMove

\* Closing and the environment end workers; they start none.
WorkersEnd == \A w \in Runs : Running(w)' => Running(w)

LEMMA CloseSlot ==
    ASSUME TypeOK, Close
    PROVE  /\ WorkersEnd
           /\ \/ slot' = slot /\ proc' = proc /\ closer' # "closed" /\ closer # "stopping"
              \/ /\ slot' = NoRun /\ (\A w \in Runs : Running(w)' => w # slot)
                 /\ \/ closer = "stopping" /\ closer' = "closed"
                    \/ \A r \in Runs : pc[r] \in {"idle", "done"}
<1> USE DEF CloserGoto
<1>1. CASE BeginClose \/ CancelActive \/ TakeBackground \/ Joined \/ JoinTimeout \/ CloserLock
  BY <1>1 DEF BeginClose, CancelActive, TakeBackground, Joined, JoinTimeout, CloserLock,
              WorkersEnd, Running
<1>2. CASE CloserStop \/ DropSupervisor
  <2>1. KillSlot  BY <1>2 DEF CloserStop, DropSupervisor
  <2>2. slot' = NoRun /\ (proc' = proc \/ proc' = [proc EXCEPT ![slot] = "killed"])
        /\ (slot # NoRun => proc' = [proc EXCEPT ![slot] = "killed"])
    BY <2>1 DEF KillSlot
  <2>3. proc \in [Runs -> ProcState] /\ (slot \in Runs \/ slot = NoRun)
    BY DEF TypeOK, RunOrNone
  <2>4. WorkersEnd /\ (\A w \in Runs : Running(w)' => w # slot)
    BY <2>2, <2>3, SupervisorAssumption DEF WorkersEnd, Running
  <2> QED  BY <1>2, <2>2, <2>4 DEF CloserStop, DropSupervisor
<1> QED  BY <1>1, <1>2 DEF Close

LEMMA StepOwnership ==
    ASSUME TypeOK, SlotExclusive, Ownership, [Next]_vars
    PROVE  Ownership'
<1>1. CASE \E r \in Runs : Arrival(r) \/ Step(r) \/ WorkerEvent(r) \/ Abandon(r)
  BY <1>1, WorkerMoves, MoveOwnership
<1>2. CASE Close
  <2>1. UNCHANGED <<pc, request, held>>  BY <1>2 DEF Close
  <2>2. \A r \in Runs : (Holding(r)' <=> Holding(r)) /\ Fresh(r)' = Fresh(r)
    BY <2>1 DEF Holding, Fresh
  <2>3. WorkersEnd  BY <1>2, CloseSlot
  <2>4. CASE slot' = slot
    BY <2>1, <2>2, <2>3, <2>4, SupervisorAssumption DEF Ownership, WorkersEnd, TypeOK, RunOrNone
  <2>5. CASE slot' = NoRun /\ (\A w \in Runs : Running(w)' => w # slot)
             /\ (closer = "stopping" \/ \A r \in Runs : pc[r] \in {"idle", "done"})
    <3>1. \A r \in Runs : pc[r] \notin Locking
      BY <2>5, SupervisorAssumption DEF SlotExclusive, Locking, Armed
    <3>2. \A r \in Runs : pc[r] # "take" /\ ~Holding(r)
      BY <3>1 DEF Holding, Locking, Armed
    <3> QED  BY <2>1, <2>2, <2>3, <2>5, <3>2 DEF Ownership, WorkersEnd
  <2> QED  BY <1>2, <2>4, <2>5, CloseSlot
<1>3. CASE Environment \/ UNCHANGED vars
  <2>1. UNCHANGED <<pc, request, held, slot>>
    BY <1>3 DEF Environment, Outer, vars
  <2>2. \A r \in Runs : (Holding(r)' <=> Holding(r)) /\ Fresh(r)' = Fresh(r)
    BY <2>1 DEF Holding, Fresh
  <2>3. WorkersEnd
    BY <1>3 DEF Environment, Cancel, CancelRequest, WorkerExits, ReaderEof, vars, worker,
                WorkersEnd, Running, TypeOK
  <2> QED
    BY <2>1, <2>2, <2>3, SupervisorAssumption DEF Ownership, WorkersEnd, TypeOK, RunOrNone
<1> QED  BY <1>1, <1>2, <1>3 DEF Next, Quiescent

LEMMA OwnershipInvariant == Spec => []Ownership
<1>1. Init => Ownership
  BY DEF Init, Ownership, Holding, Armed, Running, Before
<1> QED  BY <1>1, TypeCorrect, SlotIsExclusive, StepOwnership, PTL DEF Spec

\* Every live worker process has an owner that will end it, the slot or the one run that
\* holds it, and two persistent namespaces never live at once (Worker::drop, stop,
\* execute_inner, close).
THEOREM WorkersAreOwned == Spec => []NoOrphanWorker
<1>1. TypeOK /\ SlotExclusive /\ Ownership => NoOrphanWorker
  <2> SUFFICES ASSUME TypeOK, SlotExclusive, Ownership PROVE NoOrphanWorker
    OBVIOUS
  <2>1. \A r \in Runs : held[r] # NoRun => pc[r] \in Locking
    BY DEF Ownership, Holding, Locking
  <2>2. ASSUME NEW w \in Runs, Running(w)
        PROVE  slot = w \/ \E r \in Runs : pc[r] \in Locking /\ held[r] = w
    BY <2>1, <2>2, SupervisorAssumption DEF Ownership
  <2>3. ASSUME NEW v \in Runs, NEW w \in Runs, Running(v), Running(w), ~Fresh(v), ~Fresh(w)
        PROVE  v = w
    <3>1. ASSUME NEW r \in Runs, held[r] \in Runs, ~Fresh(held[r]) PROVE slot = NoRun
      <4>1. Holding(r)  BY <3>1, SupervisorAssumption DEF Ownership
      <4> QED  BY <3>1, <4>1 DEF Ownership
    <3>2. ASSUME NEW r \in Runs, NEW q \in Runs, held[r] \in Runs, held[q] \in Runs
          PROVE  r = q
      BY <2>1, <3>2, OneHolder, SupervisorAssumption
    <3> QED  BY <2>2, <2>3, <3>1, <3>2, SupervisorAssumption
  <2> QED  BY <2>2, <2>3 DEF NoOrphanWorker
<1> QED  BY <1>1, TypeCorrect, SlotIsExclusive, OwnershipInvariant, PTL

-----------------------------------------------------------------------------
(* Closing.                                                                  *)

CloseMove(r) ==
    /\ pc' = [pc EXCEPT ![r] = pc'[r]]
    /\ UNCHANGED <<closed, closer>>
    /\ \A q \in Runs : cancelled[q] => cancelled'[q]
    /\ active' # active => pc[r] \in Owning \cup Locking
    /\ pc'[r] \in Admitted => active' = r \/ (active' = active /\ pc[r] \in Admitted)
    /\ pc'[r] \in PastChecks => pc[r] \in PastChecks \/ (pc[r] = "begin" /\ ~closed)
    /\ pc'[r] \in Armed => pc[r] \in Armed \/ (pc[r] = "armed" /\ ~Interrupted(r))
    /\ ranOn' # ranOn => pc[r] = "sending"

LEMMA CloseMoves ==
    ASSUME TypeOK, NEW r \in Runs, Arrival(r) \/ Step(r) \/ WorkerEvent(r) \/ Abandon(r)
    PROVE  CloseMove(r)
<1>t. pc \in [Runs -> PC] /\ cancelled \in [Runs -> BOOLEAN]  BY DEF TypeOK
<1> USE <1>t DEF CloseMove, Owning, Locking, Armed, Admitted, PastChecks
<1>1. CASE Arrival(r)
  BY <1>1 DEF Arrival, Arrive, Goto, tokens, worker, close
<1>2. CASE Admission(r)
  BY <1>2 DEF Admission, Reserve, Inspect, Wait, Admit, StoreHandle, Goto, tokens, worker, close
<1>3. CASE Preparation(r)
  BY <1>3 DEF Preparation, Begin, Checks, TryLock, StopWorker, Stopped, StartWorker,
              Spawned, SpawnFails, Take, Refuse, Goto, tokens, close
<1>4. CASE Execution(r)
  <2>1. UNCHANGED close  BY <1>4 DEF Execution, ExecutionFrame
  <2>2. \A q \in Runs : cancelled[q] => cancelled'[q]
    BY <1>4 DEF Execution, CancelDispatch, Send, Sent, SendFails, Settle, Interrupt,
                GraceExpires, PutBack, Retire, Terminated
  <2>3. ranOn' # ranOn => pc[r] = "sending"
    BY <1>4 DEF Execution, CancelDispatch, Send, Sent, SendFails, Settle, Interrupt,
                GraceExpires, PutBack, Retire, Terminated, Goto
  <2> QED
    BY <1>4, <2>1, <2>2, <2>3
       DEF Execution, CancelDispatch, Send, Sent, SendFails, Settle, Interrupt,
           GraceExpires, PutBack, Retire, Terminated, Finish, Goto, close
<1>5. CASE WorkerEvent(r)
  BY <1>5 DEF WorkerEvent, WorkerResult, WorkerLost, Settle, ExecutionFrame, close
<1>6. CASE Completion(r)
  BY <1>6 DEF Completion, Answer, Record, DropReservation, RecordAbandoned, Release,
              Notify, Goto, tokens, worker, close
<1>7. CASE Abandon(r)
  BY <1>7 DEF Abandon, AbandonWait, AbandonPreparing, AbandonGuarded, Goto, close
<1> QED  BY <1>1, <1>2, <1>3, <1>4, <1>5, <1>6, <1>7 DEF Step

LEMMA MoveClose ==
    ASSUME TypeOK, SingleFlight, ActiveInv, CloseInv, NEW r \in Runs, CloseMove(r)
    PROVE  ActiveInv' /\ CloseInv'
<1>1. \A q \in Runs \ {r} : pc'[q] = pc[q]  BY DEF TypeOK, CloseMove
<1>2. ActiveInv'
  <2>1. pc'[r] \in Admitted => active' = r  BY DEF CloseMove, ActiveInv
  <2>2. ASSUME NEW q \in Runs \ {r}, pc[q] \in Admitted PROVE active' = q
    <3>1. Owner(q)  BY <2>2 DEF Owner, Admitted, Owning
    <3>2. ~Owner(r)  BY <2>2, <3>1 DEF SingleFlight
    <3> QED  BY <2>2, <3>2 DEF CloseMove, ActiveInv, Owner
  <2> QED  BY <1>1, <2>1, <2>2 DEF ActiveInv
<1>3. CloseInv'
  <2>1. closed' = closed /\ closer' = closer  BY DEF CloseMove
  <2>2. ASSUME closer \notin {"open", "cancelling"}, NEW q \in Runs, pc'[q] \in PastChecks
        PROVE  cancelled'[q]
    <3>1. closed  BY <2>2 DEF CloseInv
    <3>2. pc[q] \in PastChecks  BY <1>1, <2>2, <3>1 DEF CloseMove
    <3>3. cancelled[q]  BY <2>2, <3>2 DEF CloseInv
    <3> QED  BY <3>3 DEF CloseMove
  <2>3. ASSUME closer \in {"stopping", "closed", "dropped"}, NEW q \in Runs
        PROVE  pc'[q] \notin Armed
    <3>1. pc[q] \notin Armed  BY <2>3 DEF CloseInv
    <3>2. pc[r] = "armed" => Interrupted(r)
      BY <2>3 DEF CloseInv, PastChecks, Interrupted
    <3> QED  BY <1>1, <3>1, <3>2 DEF CloseMove
  <2> QED  BY <2>1, <2>2, <2>3 DEF CloseInv
<1> QED  BY <1>2, <1>3

LEMMA StepClose ==
    ASSUME TypeOK, SingleFlight, SlotExclusive, ActiveInv, CloseInv, [Next]_vars
    PROVE  ActiveInv' /\ CloseInv'
<1>1. CASE \E r \in Runs : Arrival(r) \/ Step(r) \/ WorkerEvent(r) \/ Abandon(r)
  BY <1>1, CloseMoves, MoveClose
<1>2. CASE Close
  <2>1. UNCHANGED <<pc, active>>  BY <1>2 DEF Close
  <2>2. ActiveInv'  BY <2>1 DEF ActiveInv
  <2>3. CASE BeginClose
    <3>1. closer' = "cancelling" /\ closed'
      <4>1. closed' = TRUE  BY <2>3, Zenon DEF BeginClose
      <4>2. closer' = "cancelling"  BY <2>3 DEF BeginClose, CloserGoto
      <4> QED  BY <4>1, <4>2
    <3> QED  BY <2>2, <3>1 DEF CloseInv
  <2>4. CASE CancelActive
    <3>1. closer = "cancelling" /\ closer' = "taking" /\ closed' = closed
          /\ cancelled' = IF active = NoRun THEN cancelled ELSE [cancelled EXCEPT ![active] = TRUE]
      BY <2>4 DEF CancelActive, CloserGoto
    <3>2. ASSUME NEW r \in Runs, pc[r] \in PastChecks PROVE cancelled'[r]
      <4>1. active = r  BY <3>2 DEF ActiveInv, PastChecks, Admitted, Locking
      <4> QED  BY <3>1, <4>1, SupervisorAssumption DEF TypeOK
    <3> QED  BY <2>1, <2>2, <3>1, <3>2 DEF CloseInv
  <2>5. CASE CloserLock
    <3>1. closer = "locking" /\ closer' = "stopping" /\ UNCHANGED <<closed, cancelled>>
          /\ slotLock = NoRun
      BY <2>5 DEF CloserLock, CloserGoto
    <3>2. \A r \in Runs : pc[r] \notin Armed
      BY <3>1, SupervisorAssumption DEF SlotExclusive, Locking
    <3> QED  BY <2>1, <2>2, <3>1, <3>2 DEF CloseInv
  <2>6. CASE TakeBackground \/ Joined \/ JoinTimeout \/ CloserStop \/ DropSupervisor
    <3>1. UNCHANGED <<closed, cancelled>>
          /\ (closer' = "stopping" => closer = "stopping")
          /\ (closer' \in {"closed", "dropped"} => closer \in {"stopping", "closed", "dropped"})
          /\ (closer' \in {"open", "cancelling"} <=> closer \in {"open", "cancelling"})
          /\ closer # "open"
      BY <2>6, <1>2 DEF TakeBackground, Joined, JoinTimeout, CloserStop, DropSupervisor, CloserGoto
    <3> QED  BY <2>1, <2>2, <3>1 DEF CloseInv
  <2> QED  BY <1>2, <2>2, <2>3, <2>4, <2>5, <2>6 DEF Close
<1>3. CASE Environment \/ UNCHANGED vars
  <2>1. UNCHANGED <<pc, active, closer, closed>>
    BY <1>3 DEF Environment, Outer, vars, close
  <2>2. \A r \in Runs : cancelled[r] => cancelled'[r]
    BY <1>3 DEF Environment, Cancel, CancelRequest, WorkerExits, ReaderEof, vars, tokens, TypeOK
  <2> QED  BY <2>1, <2>2 DEF ActiveInv, CloseInv
<1> QED  BY <1>1, <1>2, <1>3 DEF Next, Quiescent

LEMMA CloseInvariant == Spec => [](ActiveInv /\ CloseInv)
<1>1. Init => ActiveInv /\ CloseInv
  BY DEF Init, ActiveInv, CloseInv, Admitted, Locking, Armed, PastChecks
<1> QED  BY <1>1, TypeCorrect, OneCellAtATime, SlotIsExclusive, StepClose, PTL DEF Spec

\* Once close() has returned, no step lets a cell reach a worker of the session, also not
\* that of a run which had been admitted before (close, execute_inner).
THEOREM ClosedMeansClosed == Spec => NoExecutionAfterClose
<1>1. CloseInv /\ TypeOK /\ [Next]_vars => (closer \in {"closed", "dropped"} => UNCHANGED ranOn)
  <2> SUFFICES ASSUME CloseInv, TypeOK, [Next]_vars, closer \in {"closed", "dropped"}
               PROVE  UNCHANGED ranOn
    OBVIOUS
  <2>1. CASE \E r \in Runs : Arrival(r) \/ Step(r) \/ WorkerEvent(r) \/ Abandon(r)
    <3>1. PICK r \in Runs : CloseMove(r)  BY <2>1, CloseMoves
    <3>2. pc[r] # "sending"  BY DEF CloseInv, Armed
    <3> QED  BY <3>1, <3>2 DEF CloseMove
  <2>2. CASE Close \/ Environment \/ UNCHANGED vars
    BY <2>2 DEF Close, Environment, Outer, vars, worker
  <2> QED  BY <2>1, <2>2 DEF Next, Quiescent
<1> QED  BY <1>1, TypeCorrect, CloseInvariant, PTL DEF Spec, NoExecutionAfterClose

-----------------------------------------------------------------------------
(* Code on workers, and the generations it runs in.                          *)

Executes(r) ==
    /\ pc[r] = "sending" /\ pc'[r] = "running"
    /\ ranOn' = [ranOn EXCEPT ![r] = held[r]]
    /\ firstOn' = IF Recorded(r) /\ firstOn[held[r]] = NoRun
                  THEN [firstOn EXCEPT ![held[r]] = r] ELSE firstOn

CodeMove(r) ==
    /\ UNCHANGED <<ranOn, firstOn>> \/ Executes(r)
    /\ pc'[r] \in Unsent => pc[r] \in Unsent
    /\ pc'[r] = "prepare" => pc[r] \in {"lock", "prepare", "stopping"}
    /\ pc'[r] = "lock" => \/ pc[r] = "lock"
                          \/ Expected(r) \in {AnyGeneration, generation} /\ pc[r] = "checks"

LEMMA CodeMoves ==
    ASSUME TypeOK, NEW r \in Runs, Arrival(r) \/ Step(r) \/ WorkerEvent(r) \/ Abandon(r)
    PROVE  CodeMove(r)
<1>t. pc \in [Runs -> PC]  BY DEF TypeOK
<1> USE <1>t DEF CodeMove, Unsent, Before, Armed
<1>1. CASE Arrival(r)
  BY <1>1 DEF Arrival, Arrive, Goto, worker
<1>2. CASE Admission(r)
  BY <1>2 DEF Admission, Reserve, Inspect, Wait, Admit, StoreHandle, Goto, worker
<1>3. CASE Preparation(r)
  <2>1. UNCHANGED <<ranOn, firstOn>>  BY <1>3 DEF Preparation
  <2>2. CASE Checks(r)  BY <2>1, <2>2 DEF Checks, Refuse, Goto, Expected
  <2>3. CASE ~Checks(r)
    BY <1>3, <2>1, <2>3 DEF Preparation, Begin, TryLock, StopWorker, Stopped, StartWorker,
              Spawned, SpawnFails, Take, Refuse, Goto
  <2> QED  BY <2>2, <2>3
<1>4. CASE Execution(r)
  <2>1. CASE Sent(r)
    <3>1. pc[r] = "sending" /\ pc' = [pc EXCEPT ![r] = "running"]  BY <2>1 DEF Sent, Goto
    <3>2. CASE proc[held[r]] = "up"
      BY <2>1, <3>1, <3>2 DEF Sent, Executes
    <3>3. CASE proc[held[r]] # "up"
      BY <2>1, <3>1, <3>3 DEF Sent
    <3> QED  BY <3>2, <3>3
  <2>2. CASE ~Sent(r)
    BY <1>4, <2>2 DEF Execution, CancelDispatch, Send, SendFails, Settle, Interrupt,
                GraceExpires, PutBack, Retire, Terminated, Finish, Goto
  <2> QED  BY <2>1, <2>2
<1>5. CASE WorkerEvent(r)
  BY <1>5 DEF WorkerEvent, WorkerResult, WorkerLost, Settle
<1>6. CASE Completion(r)
  BY <1>6 DEF Completion, Answer, Record, DropReservation, RecordAbandoned, Release,
              Notify, Goto, worker
<1>7. CASE Abandon(r)
  BY <1>7 DEF Abandon, AbandonWait, AbandonPreparing, AbandonGuarded, Goto
<1> QED  BY <1>1, <1>2, <1>3, <1>4, <1>5, <1>6, <1>7 DEF Step

LEMMA MoveHistories ==
    ASSUME TypeOK, SlotExclusive, Ownership, Histories, NEW r \in Runs, WorkerMove(r), CodeMove(r)
    PROVE  Histories'
<1>t. /\ pc \in [Runs -> PC] /\ ranOn \in [Runs -> Runs \cup {NoRun}]
      /\ firstOn \in [Runs -> Runs \cup {NoRun}] /\ held \in [Runs -> Runs \cup {NoRun}]
      /\ NoRun \notin Runs
  BY SupervisorAssumption DEF TypeOK, RunOrNone
<1>1. \A q \in Runs \ {r} : pc'[q] = pc[q] /\ request'[q] = request[q] /\ held'[q] = held[q]
  BY <1>t DEF WorkerMove, Keeps, Takes, Returns, Ends, Starts, Opens, Readies, Boards
<1>2. pc[r] # "idle" => request' = request  BY DEF WorkerMove
<1>3. \A w \in Runs : pc[w] \notin Before => pc'[w] \notin Before
  BY <1>1 DEF WorkerMove
<1>4. Executes(r) => /\ held[r] \in Runs
                     /\ held[r] = r \/ pc[held[r]] \notin Before
                     /\ pc'[held[r]] \notin Unsent
  <2> SUFFICES ASSUME Executes(r)
               PROVE  /\ held[r] \in Runs
                      /\ held[r] = r \/ pc[held[r]] \notin Before
                      /\ pc'[held[r]] \notin Unsent
    OBVIOUS
  <2>1. Holding(r) /\ pc[r] \in Locking /\ pc'[r] \notin Unsent
    BY DEF Executes, Holding, Armed, Locking, Unsent, Before
  <2>2. held[r] \in Runs /\ (held[r] = r \/ pc[held[r]] \notin Before)
    BY <2>1, <1>t DEF Ownership
  <2>3. CASE held[r] # r
    <3>1. pc[held[r]] \notin Locking  BY <2>1, <2>2, <2>3, OneHolder
    <3>2. pc'[held[r]] = pc[held[r]]  BY <1>1, <2>2, <2>3
    <3> QED  BY <2>2, <2>3, <3>1, <3>2 DEF Unsent, Locking, Armed
  <2> QED  BY <2>1, <2>2, <2>3
<1>5. (\A q \in Runs : pc[q] \in Unsent => ranOn[q] = NoRun)'
  <2>1. \A q \in Runs : pc'[q] \in Unsent => pc[q] \in Unsent  BY <1>1 DEF CodeMove
  <2>2. Executes(r) => pc'[r] \notin Unsent  BY DEF Executes, Unsent, Before
  <2> QED  BY <1>t, <2>1, <2>2 DEF Histories, CodeMove, Executes
<1>6. (\A q \in Runs : ranOn[q] # NoRun => pc[ranOn[q]] \notin Before)'
  <2>1. "running" \notin Before  BY DEF Before
  <2> QED  BY <1>t, <1>3, <1>4, <2>1 DEF Histories, CodeMove, Executes
<1>7. (\A q \in Runs : ranOn[q] # NoRun /\ Holding(q) => ranOn[q] = held[q])'
  <2>1. ASSUME NEW q \in Runs \ {r}, ranOn'[q] # NoRun, Holding(q)' PROVE ranOn'[q] = held'[q]
    <3>1. ranOn'[q] = ranOn[q]  BY <1>t DEF CodeMove, Executes
    <3>2. Holding(q)  BY <1>1, <2>1 DEF Holding, Fresh
    <3> QED  BY <1>1, <2>1, <3>1, <3>2 DEF Histories
  <2>2. CASE Executes(r)
    <3>1. Keeps(r)
      BY <2>2 DEF Executes, WorkerMove, Takes, Returns, Ends, Starts, Opens, Readies, Boards
    <3>2. ranOn'[r] = held[r] /\ held' = held  BY <1>t, <2>2, <3>1 DEF Executes, Keeps
    <3> QED  BY <2>1, <3>2
  <2>3. CASE UNCHANGED ranOn
    <3>1. ASSUME ranOn[r] # NoRun, Holding(r)' PROVE held'[r] = held[r] /\ Holding(r)
      <4>1. pc[r] \notin Unsent  BY <3>1 DEF Histories
      <4>2. pc[r] \notin Before /\ pc[r] \notin {"take", "armed", "sending"}
        BY <4>1 DEF Unsent
      <4>3. CASE Keeps(r)
        <5>1. pc'[r] \in OnWorker  BY <3>1, <4>2, <4>3 DEF Keeps, Holding, OnWorker, Before
        <5>2. pc[r] \in OnWorker  BY <4>3, <5>1 DEF Keeps
        <5> QED  BY <4>3, <5>2 DEF Keeps, Holding, OnWorker
      <4>4. CASE Returns(r) \/ Ends(r)
        <5>1. ~Holding(r)'  BY <4>4 DEF Returns, Ends, Holding, Armed
        <5> QED  BY <3>1, <5>1
      <4>5. ~Takes(r) /\ ~Starts(r) /\ ~Opens(r) /\ ~Readies(r) /\ ~Boards(r)
        BY <4>2 DEF Takes, Starts, Opens, Readies, Boards, Before
      <4> QED  BY <4>3, <4>4, <4>5 DEF WorkerMove
    <3> QED  BY <2>1, <2>3, <3>1 DEF Histories
  <2> QED  BY <2>2, <2>3 DEF CodeMove
<1>8. (\A q \in Runs : pc[q] \in Unsent => firstOn[q] = NoRun)'
  <2>1. \A q \in Runs : pc'[q] \in Unsent => pc[q] \in Unsent  BY <1>1 DEF CodeMove
  <2>2. CASE Executes(r)
    <3>1. \A q \in Runs : firstOn'[q] = firstOn[q] \/ q = held[r]
      BY <1>t, <2>2 DEF Executes
    <3> QED  BY <1>4, <2>1, <2>2, <3>1 DEF Histories
  <2> QED  BY <2>1, <2>2 DEF Histories, CodeMove
<1>9. (\A q \in Runs : ranOn[q] = q /\ Recorded(q) => firstOn[q] = q)'
  <2> SUFFICES ASSUME NEW q \in Runs, ranOn'[q] = q, Recorded(q)' PROVE firstOn'[q] = q
    OBVIOUS
  <2>1. CASE Executes(r) /\ q = r
    <3>1. held[r] = r  BY <1>t, <2>1 DEF Executes
    <3>2. firstOn[r] = NoRun  BY <2>1 DEF Histories, Executes, Unsent
    <3>3. Recorded(r)
      BY <1>2, <2>1 DEF Executes, Recorded
    <3> QED  BY <1>t, <2>1, <3>1, <3>2, <3>3 DEF Executes
  <2>2. CASE ~(Executes(r) /\ q = r)
    <3>1. ranOn[q] = q  BY <1>t, <2>2 DEF CodeMove, Executes
    <3>2. pc[q] # "idle"  BY <1>t, <3>1 DEF Histories, Unsent, Before
    <3>3. Recorded(q)  BY <1>1, <1>2, <3>2 DEF Recorded
    <3>4. firstOn[q] = q  BY <3>1, <3>3 DEF Histories
    <3> QED  BY <1>t, <1>4, <3>4 DEF CodeMove, Executes
  <2> QED  BY <2>1, <2>2
<1> QED  BY <1>5, <1>6, <1>7, <1>8, <1>9 DEF Histories

\* Closing and the environment touch nothing that belongs to a request.
LEMMA OuterFrame ==
    ASSUME Close \/ Environment \/ Quiescent \/ UNCHANGED vars
    PROVE  UNCHANGED <<busy, active, records, generation, pc, request, held, outcome, gen,
                       ranOn, firstOn>>
BY DEF Close, Environment, Outer, Quiescent, vars, worker

LEMMA StepHistories ==
    ASSUME TypeOK, SlotExclusive, Ownership, Histories, [Next]_vars
    PROVE  Histories'
<1>1. CASE \E r \in Runs : Arrival(r) \/ Step(r) \/ WorkerEvent(r) \/ Abandon(r)
  BY <1>1, WorkerMoves, CodeMoves, MoveHistories
<1>2. CASE UNCHANGED <<pc, request, held, ranOn, firstOn>>
  BY <1>2 DEF Histories, Holding, Fresh, Recorded
<1> QED  BY <1>1, <1>2, OuterFrame DEF Next

LEMMA HistoriesInvariant == Spec => []Histories
<1>1. Init => Histories
  BY DEF Init, Histories
<1> QED  BY <1>1, TypeCorrect, SlotIsExclusive, OwnershipInvariant, StepHistories, PTL DEF Spec

\* The generation moves only under a run that is about to see the new one.
LEMMA MoveGenerations ==
    ASSUME TypeOK, SlotExclusive, SingleFlight, Ownership, Generations, NEW r \in Runs,
           WorkerMove(r), CodeMove(r)
    PROVE  Generations'
<1>t. /\ pc \in [Runs -> PC] /\ held \in [Runs -> Runs \cup {NoRun}] /\ gen \in [Runs -> Nat]
      /\ generation \in Nat /\ slot \in Runs \cup {NoRun} /\ NoRun \notin Runs
      /\ \A q \in Runs : Expected(q) \in Nat \cup {AnyGeneration}
  BY SupervisorAssumption DEF TypeOK, RunOrNone, Expected, Request
<1>a. AnyGeneration \notin Nat  BY DEF AnyGeneration
<1>1. \A q \in Runs \ {r} : pc'[q] = pc[q] /\ request'[q] = request[q] /\ held'[q] = held[q]
  BY <1>t DEF WorkerMove, Keeps, Takes, Returns, Ends, Starts, Opens, Readies, Boards
<1>2. pc[r] # "idle" => request' = request  BY DEF WorkerMove
<1>3. pc[r] \in Locking => \A q \in Runs \ {r} : pc[q] \notin Locking \cup {"lock"}
  BY DEF SingleFlight, Owner, Owning
<1> DEFINE Seen(q) == Expected(q) # AnyGeneration /\ ~Fresh(q) =>
              /\ pc[q] \in {"lock", "prepare", "stopping", "spawning"} => generation = Expected(q)
              /\ pc[q] = "take" => generation = Expected(q) + 1
              /\ pc[q] \in OnWorker =>
                    generation = IF request[q].reset \/ Expected(q) = 0 THEN Expected(q) + 1
                                                                        ELSE Expected(q)
           Current(q) == ~Fresh(q) /\ pc[q] \in OnWorker => gen[held[q]] = generation /\ generation > 0
<1>4. ASSUME (generation' = generation /\ gen' = gen) \/ pc[r] \in Locking
      PROVE  \A q \in Runs \ {r} : Seen(q)' /\ Current(q)'
  <2> SUFFICES ASSUME NEW q \in Runs \ {r} PROVE Seen(q)' /\ Current(q)'
    OBVIOUS
  <2>1. Seen(q) /\ Current(q)  BY DEF Generations
  <2>2. CASE generation' = generation /\ gen' = gen
    BY <1>1, <2>1, <2>2 DEF Expected, Fresh
  <2>3. CASE pc[r] \in Locking
    <3>1. pc'[q] \notin Locking \cup {"lock"}  BY <1>1, <1>3, <2>3
    <3> QED  BY <3>1 DEF Locking, OnWorker
  <2> QED  BY <1>4, <2>2, <2>3
<1>5. ASSUME slot' # NoRun => gen'[slot'] = generation' /\ generation' > 0, Seen(r)', Current(r)',
             (generation' = generation /\ gen' = gen) \/ pc[r] \in Locking
      PROVE  Generations'
  BY <1>4, <1>5 DEF Generations
<1>6. Seen(r) /\ Current(r) /\ (slot # NoRun => gen[slot] = generation /\ generation > 0)
  BY DEF Generations
<1>7. "idle" \notin OnWorker /\ "idle" \notin Locking  BY DEF OnWorker, Locking, Armed
<1> HIDE DEF Seen, Current
<1>8. CASE Keeps(r)
  <2>1. /\ UNCHANGED <<slot, held, generation, gen>>
        /\ pc'[r] \in OnWorker <=> pc[r] \in OnWorker
        /\ pc'[r] \in {"stopping", "spawning", "take"} => pc'[r] = pc[r]
    BY <1>8 DEF Keeps
  <2>2. pc'[r] = "prepare" => pc[r] \in {"lock", "prepare"}
    BY <1>8 DEF Keeps, CodeMove
  <2>3. Current(r)'  BY <1>2, <1>6, <1>7, <2>1 DEF Current, Fresh
  <2>4. Seen(r)'
    <3>1. CASE pc'[r] = "lock"
      <4>1. pc[r] # "idle" /\ request' = request  BY <1>2, <3>1 DEF CodeMove
      <4>2. pc'[r] \notin OnWorker  BY <3>1 DEF OnWorker, Armed
      <4> QED  BY <1>6, <2>1, <3>1, <4>1, <4>2 DEF Seen, Expected, Fresh, CodeMove
    <3>2. CASE pc'[r] # "lock"
      <4>1. pc'[r] \in {"prepare", "stopping", "spawning", "take"} \cup OnWorker =>
                pc[r] # "idle" /\ request' = request
        BY <1>2, <1>7, <2>1, <2>2
      <4>2. "prepare" \notin OnWorker /\ "stopping" \notin OnWorker /\ "spawning" \notin OnWorker
            /\ "take" \notin OnWorker
        BY DEF OnWorker, Armed
      <4> QED  BY <1>6, <2>1, <2>2, <3>2, <4>1, <4>2 DEF Seen, Expected, Fresh
    <3> QED  BY <3>1, <3>2
  <2> QED  BY <1>5, <1>6, <2>1, <2>3, <2>4
<1>9. CASE Takes(r)
  <2>1. /\ slot' = NoRun /\ held'[r] = slot /\ UNCHANGED <<generation, gen, request>>
        /\ slot \in Runs /\ ~Fresh(r)
    BY <1>2, <1>9, <1>t DEF Takes, Ownership
  <2>2. Current(r)'  BY <1>6, <1>t, <2>1 DEF Current
  <2>3. CASE pc'[r] = "stopping" /\ pc[r] = "prepare"
    <3>1. pc'[r] \notin OnWorker  BY <2>3 DEF OnWorker, Armed
    <3> QED  BY <1>5, <1>6, <2>1, <2>2, <2>3, <3>1 DEF Seen, Expected, Fresh
  <2>4. CASE pc'[r] = "armed" /\ ~Stale(r) /\ (pc[r] = "prepare" => ~request[r].reset)
    <3>1. pc[r] = "take" \/ (pc[r] = "prepare" /\ generation > 0)
      BY <1>6, <1>9, <1>t, <2>1 DEF Takes
    <3>2. request[r].reset \/ ~(Expected(r) > 0) \/ Expected(r) = generation
      BY <2>1, <2>4 DEF Stale, Expected
    <3>3. ASSUME Expected(r) # AnyGeneration
          PROVE  generation = IF request[r].reset \/ Expected(r) = 0 THEN Expected(r) + 1
                                                                     ELSE Expected(r)
      <4>1. Expected(r) \in Nat  BY <1>t, <3>3
      <4>2. CASE pc[r] = "take"
        <5>1. generation = Expected(r) + 1  BY <1>6, <2>1, <3>3, <4>2 DEF Seen
        <5> QED  BY <3>2, <4>1, <5>1
      <4>3. CASE pc[r] = "prepare" /\ generation > 0
        <5>1. generation = Expected(r)  BY <1>6, <2>1, <3>3, <4>3 DEF Seen
        <5> QED  BY <2>4, <4>1, <4>3, <5>1
      <4> QED  BY <3>1, <4>2, <4>3
    <3> QED  BY <1>5, <2>1, <2>2, <2>4, <3>3 DEF Seen, Expected
  <2> QED  BY <1>9, <2>3, <2>4 DEF Takes
<1>10. CASE Returns(r)
  <2>1. /\ slot' = held[r] /\ UNCHANGED <<generation, gen>> /\ ~Fresh(r)
        /\ pc[r] \in OnWorker /\ pc'[r] = "answer"
    BY <1>10 DEF Returns, OnWorker, Armed
  <2>2. gen[held[r]] = generation /\ generation > 0  BY <1>6, <2>1 DEF Current
  <2>3. pc'[r] \notin OnWorker \cup {"lock", "prepare", "stopping", "spawning", "take"}
    BY <2>1 DEF OnWorker, Armed
  <2> QED  BY <1>5, <2>1, <2>2, <2>3 DEF Seen, Current
<1>11. CASE Ends(r)
  <2>1. /\ UNCHANGED <<slot, generation, gen>> /\ request' = request
        /\ pc'[r] \in {"prepare", "answer", "dropping"}
        /\ pc'[r] = "prepare" => pc[r] = "stopping"
    BY <1>2, <1>7, <1>11 DEF Ends
  <2>2. pc'[r] \notin OnWorker  BY <2>1 DEF OnWorker, Armed
  <2> QED  BY <1>5, <1>6, <2>1, <2>2 DEF Seen, Current, Expected, Fresh
<1>12. CASE Starts(r)
  <2>1. /\ UNCHANGED <<slot, generation, gen>> /\ request' = request
        /\ pc'[r] = "spawning" /\ pc[r] = "prepare"
    BY <1>2, <1>12 DEF Starts
  <2>2. pc'[r] \notin OnWorker  BY <2>1 DEF OnWorker, Armed
  <2> QED  BY <1>5, <1>6, <2>1, <2>2 DEF Seen, Current, Expected, Fresh
<1>13. CASE Opens(r)
  <2>1. /\ slot' = r /\ generation' = generation + 1 /\ gen'[r] = generation + 1
        /\ request' = request /\ pc'[r] = "take" /\ pc[r] = "spawning"
    BY <1>2, <1>13, <1>t DEF Opens
  <2>2. pc'[r] \notin OnWorker /\ pc[r] \in Locking  BY <2>1 DEF OnWorker, Armed, Locking
  <2> QED  BY <1>5, <1>6, <1>t, <2>1, <2>2 DEF Seen, Current, Expected, Fresh
<1>14. CASE Readies(r) \/ Boards(r)
  <2>1. UNCHANGED <<slot, generation, gen>> /\ Fresh(r)' /\ pc[r] # "idle"
    BY <1>2, <1>14 DEF Readies, Boards, Fresh
  <2> QED  BY <1>5, <1>6, <2>1 DEF Seen, Current
<1> QED
  BY <1>8, <1>9, <1>10, <1>11, <1>12, <1>13, <1>14 DEF WorkerMove

LEMMA StepGenerations ==
    ASSUME TypeOK, SlotExclusive, SingleFlight, Ownership, Generations, [Next]_vars
    PROVE  Generations'
<1>1. CASE \E r \in Runs : Arrival(r) \/ Step(r) \/ WorkerEvent(r) \/ Abandon(r)
  BY <1>1, WorkerMoves, CodeMoves, MoveGenerations
<1>2. CASE Close \/ Environment \/ Quiescent \/ UNCHANGED vars
  <2>1. UNCHANGED <<generation, gen, pc, request, held>>  BY <1>2, OuterFrame
  <2>2. slot' = slot \/ slot' = NoRun
    BY <1>2, CloseSlot DEF Environment, Outer, Quiescent, vars
  <2> QED  BY <2>1, <2>2 DEF Generations, Fresh, Expected
<1> QED  BY <1>1, <1>2 DEF Next

LEMMA GenerationsInvariant == Spec => []Generations
<1>1. Init => Generations
  BY SupervisorAssumption DEF Init, Generations, OnWorker, Armed
<1> QED
  BY <1>1, TypeCorrect, SlotIsExclusive, OneCellAtATime, OwnershipInvariant, StepGenerations, PTL
     DEF Spec

LEMMA MoveExpected ==
    ASSUME TypeOK, Histories, Generations, ExpectedGenerationHonoured,
           NEW r \in Runs, WorkerMove(r), CodeMove(r)
    PROVE  ExpectedGenerationHonoured'
<1>t. /\ pc \in [Runs -> PC] /\ gen \in [Runs -> Nat] /\ held \in [Runs -> Runs \cup {NoRun}]
      /\ ranOn \in [Runs -> Runs \cup {NoRun}] /\ NoRun \notin Runs
  BY SupervisorAssumption DEF TypeOK, RunOrNone
<1> SUFFICES ASSUME NEW q \in Runs, ranOn'[q] # NoRun, ~Fresh(q)', Expected(q)' # AnyGeneration
             PROVE  IF request'[q].reset \/ Expected(q)' = 0 THEN gen'[ranOn'[q]] = Expected(q)' + 1
                                                             ELSE gen'[ranOn'[q]] = Expected(q)'
  BY DEF ExpectedGenerationHonoured, Expected
<1>1. CASE Executes(r) /\ q = r
  <2>1. Keeps(r)
    BY <1>1 DEF Executes, WorkerMove, Takes, Returns, Ends, Starts, Opens, Readies, Boards
  <2>2. request' = request /\ gen' = gen /\ ranOn'[r] = held[r]
    BY <1>t, <1>1, <2>1 DEF Executes, WorkerMove, Keeps
  <2>3. pc[r] \in OnWorker  BY <1>1 DEF Executes, OnWorker, Armed
  <2> QED  BY <1>1, <2>2, <2>3 DEF Generations, Expected, Fresh
<1>2. CASE ~(Executes(r) /\ q = r)
  <2>1. ranOn'[q] = ranOn[q]  BY <1>t, <1>2 DEF CodeMove, Executes
  <2>2. pc[q] # "idle"  BY <2>1 DEF Histories, Unsent, Before
  <2>3. request'[q] = request[q]  BY <2>2 DEF WorkerMove
  <2>4. pc[ranOn[q]] # "spawning"  BY <2>1 DEF Histories, Before
  <2>5. ranOn[q] \in Runs  BY <1>t, <2>1
  <2>6. gen'[ranOn[q]] = gen[ranOn[q]]
    BY <1>t, <2>4, <2>5 DEF WorkerMove, Keeps, Takes, Returns, Ends, Starts, Opens, Readies, Boards
  <2> QED  BY <2>1, <2>3, <2>6 DEF ExpectedGenerationHonoured, Expected, Fresh
<1> QED  BY <1>1, <1>2

\* A cell that states the generation it expects runs in that generation, or in the one its
\* own reset or the first start has opened, also when the worker died or was replaced while
\* the cell waited (execute_inner checks the expectation twice).
THEOREM GenerationIsHonoured == Spec => []ExpectedGenerationHonoured
<1>1. Init => ExpectedGenerationHonoured
  BY DEF Init, ExpectedGenerationHonoured
<1>2. TypeOK /\ Histories /\ Generations /\ ExpectedGenerationHonoured /\ [Next]_vars
      => ExpectedGenerationHonoured'
  <2> SUFFICES ASSUME TypeOK, Histories, Generations, ExpectedGenerationHonoured, [Next]_vars
               PROVE  ExpectedGenerationHonoured'
    OBVIOUS
  <2>1. CASE \E r \in Runs : Arrival(r) \/ Step(r) \/ WorkerEvent(r) \/ Abandon(r)
    BY <2>1, WorkerMoves, CodeMoves, MoveExpected
  <2>2. CASE Close \/ Environment \/ Quiescent \/ UNCHANGED vars
    <3>1. UNCHANGED <<gen, request, ranOn>>  BY <2>2, OuterFrame
    <3> QED  BY <3>1 DEF ExpectedGenerationHonoured, Fresh
  <2> QED  BY <2>1, <2>2 DEF Next
<1> QED  BY <1>1, <1>2, TypeCorrect, HistoriesInvariant, GenerationsInvariant, PTL DEF Spec

-----------------------------------------------------------------------------
(* The lane.  A step of a request is the step of the lane its control point  *)
(* and its worker move say, every other step is a stutter.                   *)

LaneMove(r) ==
    /\ Owner(r) /\ pc'[r] \notin Owning \cup Locking => pc'[r] \in {"notify", "done"}
    /\ ~Owner(r) /\ pc'[r] \in Owning \cup Locking => pc[r] = "reserve" /\ busy = FALSE
    /\ pc[r] \in {"notify", "done"} => pc'[r] \in {"notify", "done"}
    /\ pc[r] \in {"idle", "reserve", "inspect", "wait"} => UNCHANGED <<generation, ranOn>>

LEMMA LaneMoves ==
    ASSUME TypeOK, NEW r \in Runs, Arrival(r) \/ Step(r) \/ WorkerEvent(r) \/ Abandon(r)
    PROVE  LaneMove(r)
<1>t. pc \in [Runs -> PC] /\ busy \in BOOLEAN  BY DEF TypeOK
<1> USE <1>t DEF LaneMove, Owner, Owning, Locking, Armed
<1>1. CASE Arrival(r)
  BY <1>1 DEF Arrival, Arrive, Goto, worker
<1>2. CASE Admission(r)
  BY <1>2 DEF Admission, Reserve, Inspect, Wait, Admit, StoreHandle, Goto, worker
<1>3. CASE Preparation(r)
  BY <1>3 DEF Preparation, Begin, Checks, TryLock, StopWorker, Stopped, StartWorker,
              Spawned, SpawnFails, Take, Refuse, Goto
<1>4. CASE Execution(r)
  BY <1>4 DEF Execution, CancelDispatch, Send, Sent, SendFails, Settle, Interrupt,
              GraceExpires, PutBack, Retire, Terminated, Finish, Goto
<1>5. CASE WorkerEvent(r)
  BY <1>5 DEF WorkerEvent, WorkerResult, WorkerLost, Settle
<1>6. CASE Completion(r)
  BY <1>6 DEF Completion, Answer, Record, DropReservation, RecordAbandoned, Release,
              Notify, Goto, worker
<1>7. CASE Abandon(r)
  BY <1>7 DEF Abandon, AbandonWait, AbandonPreparing, AbandonGuarded, Goto
<1> QED  BY <1>1, <1>2, <1>3, <1>4, <1>5, <1>6, <1>7 DEF Step

\* The occupant of the lane is the run that owns the reservation.
LEMMA OccupantIsOwner ==
    ASSUME SingleFlight
    PROVE  /\ \A r \in Runs : Owner(r) => Occupant = r
           /\ (\A r \in Runs : ~Owner(r)) => Occupant = NoRun
BY DEF Occupant, SingleFlight

LEMMA OccupantIsOwnerNext ==
    ASSUME SingleFlight'
    PROVE  /\ \A r \in Runs : Owner(r)' => Occupant' = r
           /\ (\A r \in Runs : ~Owner(r)') => Occupant' = NoRun
BY DEF Occupant, SingleFlight

Stages == [r \in Runs |-> StageOf(r)]

LEMMA MoveLane ==
    ASSUME TypeOK, SingleFlight, SingleFlight', Ownership, Histories,
           NEW r \in Runs, WorkerMove(r), CodeMove(r), LaneMove(r)
    PROVE  Lane!LaneNext \/ UNCHANGED Lane!laneVars
<1>t. /\ pc \in [Runs -> PC] /\ ranOn \in [Runs -> Runs \cup {NoRun}]
      /\ held \in [Runs -> Runs \cup {NoRun}] /\ NoRun \notin Runs
  BY SupervisorAssumption DEF TypeOK, RunOrNone
<1>1. \A q \in Runs \ {r} : pc'[q] = pc[q] /\ ranOn'[q] = ranOn[q]
  BY <1>t DEF WorkerMove, CodeMove, Executes
<1>2. \A q \in Runs \ {r} : (Owner(q)' <=> Owner(q)) /\ StageOf(q)' = StageOf(q)
  BY <1>1 DEF Owner, StageOf
<1>3. Stages' = [Stages EXCEPT ![r] = StageOf(r)']  BY <1>2 DEF Stages
<1>4. Stages[r] = StageOf(r)  BY DEF Stages
<1>5. \A q \in Runs : Owner(r) \/ Owner(r)' => (Owner(q) => q = r) /\ (Owner(q)' => q = r)
  BY <1>2 DEF SingleFlight
<1>6. CASE ~Owner(r) /\ Owner(r)'
  <2>1. pc[r] = "reserve" /\ \A q \in Runs : ~Owner(q)
    BY <1>6 DEF LaneMove, Owner, SingleFlight
  <2>2. Occupant = NoRun /\ Occupant' = r
    BY <1>6, <2>1, OccupantIsOwner, OccupantIsOwnerNext
  <2>3. generation' = generation /\ ranOn' = ranOn /\ ranOn[r] = NoRun
    BY <2>1 DEF LaneMove, Histories, Unsent, Before
  <2>4. StageOf(r) = "new" /\ StageOf(r)' = "admitted"
    BY <1>6, <2>1, <2>3 DEF StageOf
  <2>5. Lane!Enter(r)  BY <1>3, <1>4, <2>2, <2>3, <2>4 DEF Lane!Enter, Stages
  <2> QED  BY <2>5 DEF Lane!LaneNext
<1>7. CASE Owner(r) /\ ~Owner(r)'
  <2>1. pc'[r] \in {"notify", "done"}  BY <1>7 DEF LaneMove, Owner
  <2>2. \A q \in Runs : ~Owner(q)'  BY <1>5, <1>7
  <2>3. Occupant = r /\ Occupant' = NoRun
    BY <1>7, <2>2, OccupantIsOwner, OccupantIsOwnerNext
  <2>4. generation' = generation
    BY <2>1 DEF WorkerMove, Keeps, Takes, Returns, Ends, Starts, Opens, Readies, Boards
  <2>5. StageOf(r)' = "over"  BY <1>7, <2>1 DEF StageOf
  <2>6. Lane!Leave(r)  BY <1>3, <2>3, <2>4, <2>5 DEF Lane!Leave, Stages
  <2> QED  BY <2>6 DEF Lane!LaneNext
<1>8. CASE ~Owner(r) /\ ~Owner(r)'
  <2>1. Occupant' = Occupant
    <3>1. CASE \E q \in Runs : Owner(q)
      BY <1>2, <1>8, <3>1, OccupantIsOwner, OccupantIsOwnerNext
    <3>2. CASE \A q \in Runs : ~Owner(q)
      BY <1>2, <1>8, <3>2, OccupantIsOwner, OccupantIsOwnerNext
    <3> QED  BY <3>1, <3>2
  <2>2. pc[r] \in Outside  BY <1>8, <1>t DEF Owner, PC
  <2>3. generation' = generation
    BY <2>2 DEF Outside, WorkerMove, Keeps, Takes, Returns, Ends, Starts, Opens, Readies, Boards,
                OnWorker, Armed
  <2>4. \/ StageOf(r)' = StageOf(r)
        \/ StageOf(r) = "new" /\ StageOf(r)' = "over"
    BY <1>8, <1>t DEF StageOf, LaneMove
  <2>5. CASE StageOf(r)' = StageOf(r)
    <3>1. Stages' = Stages  BY <1>2, <2>5 DEF Stages
    <3> QED  BY <2>1, <2>3, <3>1 DEF Lane!laneVars, Stages
  <2>6. CASE StageOf(r) = "new" /\ StageOf(r)' = "over"
    <3>1. Lane!TurnAway(r)  BY <1>3, <1>4, <2>1, <2>3, <2>6 DEF Lane!TurnAway, Stages
    <3> QED  BY <3>1 DEF Lane!LaneNext
  <2> QED  BY <2>4, <2>5, <2>6
<1>9. CASE Owner(r) /\ Owner(r)'
  <2>1. Occupant = r /\ Occupant' = r
    BY <1>9, OccupantIsOwner, OccupantIsOwnerNext
  <2>2. CASE Executes(r)
    <3>1. ranOn[r] = NoRun  BY <2>2 DEF Executes, Histories, Unsent
    <3>2. Holding(r)  BY <2>2 DEF Executes, Holding, Armed
    <3>3. ranOn'[r] # NoRun  BY <1>t, <2>2, <3>2 DEF Executes, Ownership
    <3>4. generation' = generation
      BY <2>2 DEF Executes, WorkerMove, Keeps, Takes, Returns, Ends, Starts, Opens, Readies, Boards
    <3>5. StageOf(r) = "admitted" /\ StageOf(r)' = "executed"
      BY <1>9, <3>1, <3>3 DEF StageOf
    <3>6. Lane!Execute(r)  BY <1>3, <1>4, <2>1, <3>4, <3>5 DEF Lane!Execute, Stages
    <3> QED  BY <3>6 DEF Lane!LaneNext
  <2>3. CASE UNCHANGED ranOn
    <3>1. StageOf(r)' = StageOf(r)  BY <1>9, <2>3 DEF StageOf
    <3>2. Stages' = Stages  BY <1>2, <3>1 DEF Stages
    <3>3. CASE Opens(r)
      <4>1. generation' = generation + 1 /\ pc[r] = "spawning"  BY <3>3 DEF Opens
      <4>2. ranOn[r] = NoRun  BY <4>1 DEF Histories, Unsent, Before
      <4>3. StageOf(r) = "admitted"  BY <1>9, <4>2 DEF StageOf
      <4>4. Lane!Renew(r)  BY <1>4, <2>1, <3>2, <4>1, <4>3 DEF Lane!Renew, Stages
      <4> QED  BY <4>4 DEF Lane!LaneNext
    <3>4. CASE ~Opens(r)
      <4>1. generation' = generation
        BY <3>4 DEF WorkerMove, Keeps, Takes, Returns, Ends, Starts, Readies, Boards
      <4> QED  BY <2>1, <3>2, <4>1 DEF Lane!laneVars, Stages
    <3> QED  BY <3>3, <3>4
  <2> QED  BY <2>2, <2>3 DEF CodeMove
<1> QED  BY <1>6, <1>7, <1>8, <1>9

\* The session implements the lane its callers are promised: one run at a time, which
\* renews the namespace before its code, gets its code executed at most once, and never
\* comes back (execute_request, start_request, execute_inner, Reservation::drop).
THEOREM SessionIsALane == Spec => ImplementsLane
<1>1. Init => Lane!LaneInit
  <2> SUFFICES ASSUME Init PROVE Lane!LaneInit
    OBVIOUS
  <2>1. \A r \in Runs : ~Owner(r)  BY DEF Init, Owner, Owning, Locking, Armed
  <2>2. Occupant = NoRun  BY <2>1 DEF Occupant
  <2>3. \A r \in Runs : StageOf(r) = "new"  BY <2>1 DEF Init, StageOf
  <2> QED  BY <2>2, <2>3 DEF Init, Lane!LaneInit
<1>2. /\ TypeOK /\ SingleFlight /\ SingleFlight' /\ Ownership /\ Histories
      /\ [Next]_vars
      => [Lane!LaneNext]_(Lane!laneVars)
  <2> SUFFICES ASSUME TypeOK, SingleFlight, SingleFlight', Ownership, Histories, [Next]_vars
               PROVE  Lane!LaneNext \/ UNCHANGED Lane!laneVars
    OBVIOUS
  <2>1. CASE \E r \in Runs : Arrival(r) \/ Step(r) \/ WorkerEvent(r) \/ Abandon(r)
    BY <2>1, WorkerMoves, CodeMoves, LaneMoves, MoveLane
  <2>2. CASE Close \/ Environment \/ Quiescent \/ UNCHANGED vars
    <3>1. UNCHANGED <<generation, pc, ranOn>>  BY <2>2, OuterFrame
    <3>2. \A r \in Runs : (Owner(r)' <=> Owner(r)) /\ StageOf(r)' = StageOf(r)
      BY <3>1 DEF Owner, StageOf
    <3>3. Occupant' = Occupant
      <4>1. CASE \E q \in Runs : Owner(q)
        BY <3>2, <4>1, OccupantIsOwner, OccupantIsOwnerNext
      <4>2. CASE \A q \in Runs : ~Owner(q)
        BY <3>2, <4>2, OccupantIsOwner, OccupantIsOwnerNext
      <4> QED  BY <4>1, <4>2
    <3> QED  BY <3>1, <3>2, <3>3 DEF Lane!laneVars
  <2> QED  BY <2>1, <2>2 DEF Next
<1> QED
  BY <1>1, <1>2, TypeCorrect, OneCellAtATime, OwnershipInvariant, HistoriesInvariant, PTL
     DEF Spec, ImplementsLane, Lane!LaneSpec

-----------------------------------------------------------------------------
(* What the result of a run says.                                            *)

\* How a step of r arrives at the point where its result is settled or reported.
Settles(r)  == /\ pc[r] \in {"sending", "running", "interrupted"} /\ pc'[r] = "settling"
               /\ \E state \in {"preserved", "cleared"} : Conclude(r, state)
Retires(r)  == /\ pc[r] = "settling" /\ pc'[r] = "terminating" /\ outcome' = outcome
               /\ Fresh(r) \/ outcome[r].state = "cleared"
PutsBack(r) == /\ pc[r] = "settling" /\ pc'[r] = "answer" /\ Finish(r)
               /\ ~Fresh(r) /\ outcome[r].state # "cleared" /\ slot' = held[r]
Gives(r)    == pc[r] = "terminating" /\ pc'[r] = "answer" /\ Finish(r)
Breaks(r)   == /\ pc[r] \in Armed \cup {"terminating"} /\ pc'[r] = "dropping" /\ active' = NoRun
               /\ \/ pc[r] = "terminating" /\ outcome' = outcome
                  \/ Fresh(r) /\ Conclude(r, "preserved")
                  \/ ~Fresh(r) /\ Conclude(r, "cleared")
Cancels(r)  == /\ pc[r] = "armed" /\ pc'[r] = "terminating" /\ Fresh(r)
               /\ Conclude(r, "preserved")
Drops(r)    == /\ pc[r] = "dropping" /\ outcome' = outcome /\ active' = NoRun
               /\ pc'[r] = IF active # NoRun /\ Recorded(r) THEN "recordAbandoned" ELSE "release"
Early(r)    == /\ pc[r] \in Unsent \cup {"recordAbandoned"}
               /\ pc'[r] \notin {"settling", "terminating", "recordAbandoned"}
Goes(r)     == /\ outcome' = outcome
               /\ \/ pc'[r] = pc[r] /\ active' = active
                  \/ pc[r] = "record" /\ pc'[r] = "dropping" /\ active' = active
                  \/ pc[r] \in {"sending", "running", "answer", "release", "notify"}
                     /\ pc'[r] \in {"running", "interrupted", "record", "notify", "done"}
                     /\ (pc'[r] = "record" => pc[r] = "answer")

ResultMove(r) ==
    /\ \A q \in Runs \ {r} : outcome'[q] = outcome[q]
    /\ active' \in {active, NoRun} \/ pc[r] = "admit"
    /\ \/ Settles(r) \/ Retires(r) \/ PutsBack(r) \/ Gives(r) \/ Breaks(r) \/ Cancels(r)
       \/ Drops(r) \/ Early(r) \/ Goes(r)

LEMMA ResultMoves ==
    ASSUME TypeOK, NEW r \in Runs, Arrival(r) \/ Step(r) \/ WorkerEvent(r) \/ Abandon(r)
    PROVE  ResultMove(r)
<1>t. pc \in [Runs -> PC] /\ outcome \in [Runs -> Outcome]  BY DEF TypeOK
<1> USE <1>t DEF ResultMove, Unsent, Before
<1>1. CASE Arrival(r)
  BY <1>1 DEF Arrival, Arrive, Goto, Early
<1>2. CASE Admission(r)
  <2>1. outcome' = outcome  BY <1>2 DEF Admission
  <2>2. CASE StoreHandle(r)  BY <2>1, <2>2 DEF StoreHandle, Goes
  <2>3. CASE Reserve(r) \/ Inspect(r) \/ Wait(r) \/ Admit(r)
    BY <2>1, <2>3 DEF Reserve, Inspect, Wait, Admit, Goto, Early
  <2> QED  BY <1>2, <2>2, <2>3 DEF Admission
<1>3. CASE Preparation(r)
  <2>1. active' = active  BY <1>3 DEF Preparation
  <2>2. \A q \in Runs \ {r} : outcome'[q] = outcome[q]
    BY <1>3 DEF Preparation, Begin, Checks, TryLock, StopWorker, Stopped, StartWorker,
              Spawned, SpawnFails, Take, Refuse, Conclude
  <2>3. Early(r)
    BY <1>3 DEF Preparation, Begin, Checks, TryLock, StopWorker, Stopped, StartWorker,
              Spawned, SpawnFails, Take, Refuse, Goto, Early
  <2> QED  BY <2>1, <2>2, <2>3
<1>4. CASE Execution(r)
  <2>1. active' \in {active, NoRun}
    BY <1>4 DEF Execution, CancelDispatch, Send, Sent, SendFails, Settle, Interrupt,
                GraceExpires, PutBack, Retire, Terminated, Finish
  <2>2. \A q \in Runs \ {r} : outcome'[q] = outcome[q]
    BY <1>4 DEF Execution, CancelDispatch, Send, Sent, SendFails, Settle, Interrupt,
                GraceExpires, PutBack, Retire, Terminated, Finish, Conclude
  <2>3. CASE CancelDispatch(r)
    BY <2>1, <2>2, <2>3 DEF CancelDispatch, Cancels, Early
  <2>4. CASE Send(r)  BY <2>1, <2>2, <2>4 DEF Send, Goto, Early
  <2>5. CASE Sent(r) \/ Interrupt(r)  BY <2>1, <2>2, <2>5 DEF Sent, Interrupt, Goto, Goes
  <2>6. CASE SendFails(r) \/ GraceExpires(r)
    BY <2>1, <2>2, <2>6 DEF SendFails, GraceExpires, Settle, Settles
  <2>7. CASE PutBack(r)
    <3>1. pc'[r] = "answer"  BY <2>7 DEF PutBack, Finish
    <3> QED  BY <2>1, <2>2, <2>7, <3>1 DEF PutBack, PutsBack
  <2>8. CASE Retire(r)  BY <2>1, <2>2, <2>8 DEF Retire, Goto, Retires
  <2>9. CASE Terminated(r)
    <3>1. pc'[r] = "answer"  BY <2>9 DEF Terminated, Finish
    <3> QED  BY <2>1, <2>2, <2>9, <3>1 DEF Terminated, Gives
  <2> QED  BY <1>4, <2>3, <2>4, <2>5, <2>6, <2>7, <2>8, <2>9 DEF Execution
<1>5. CASE WorkerEvent(r)
  BY <1>5 DEF WorkerEvent, WorkerResult, WorkerLost, Settle, Settles, Conclude
<1>6. CASE Completion(r)
  <2>1. CASE Answer(r) \/ Record(r) \/ Release(r) \/ Notify(r)
    BY <1>6, <2>1 DEF Answer, Record, Release, Notify, Goto, Goes
  <2>2. CASE DropReservation(r)
    BY <1>6, <2>2 DEF DropReservation, Goto, Drops
  <2>3. CASE RecordAbandoned(r)
    BY <1>6, <2>3 DEF RecordAbandoned, Goto, Early, Conclude
  <2> QED  BY <1>6, <2>1, <2>2, <2>3 DEF Completion
<1>7. CASE Abandon(r)
  <2>1. CASE AbandonWait(r)  BY <2>1 DEF AbandonWait, Goto, Early
  <2>2. CASE AbandonPreparing(r)  BY <2>2 DEF AbandonPreparing, Early
  <2>3. CASE AbandonGuarded(r)
    <3>1. CASE pc[r] \in Armed
      BY <2>3, <3>1 DEF AbandonGuarded, Breaks, Conclude
    <3>2. CASE pc[r] \notin Armed
      BY <2>3, <3>2 DEF AbandonGuarded, Breaks
    <3> QED  BY <3>1, <3>2
  <2> QED  BY <1>7, <2>1, <2>2, <2>3 DEF Abandon
<1> QED  BY <1>1, <1>2, <1>3, <1>4, <1>5, <1>6, <1>7 DEF Step

\* The parts of Results and of TruthfulState about one run.
Settled(r) == pc[r] \in {"settling", "terminating"} =>
    /\ outcome[r].generation = generation /\ ~outcome[r].state_reset
    /\ outcome[r].state \in {"preserved", "cleared"}
    /\ pc[r] = "terminating" /\ ~Fresh(r) => outcome[r].state = "cleared"
Unexecuted(r) ==
    /\ pc[r] = "dropping" /\ active # NoRun => ranOn[r] = NoRun
    /\ pc[r] = "recordAbandoned" => ranOn[r] = NoRun
Truth(r) == Reported(r) /\ ranOn[r] # NoRun /\ ~Fresh(r) =>
    /\ outcome[r].generation = gen[ranOn[r]]
    /\ outcome[r].state = "cleared" => slot = NoRun
    /\ outcome[r].state = "preserved" => slot = ranOn[r] \/ closer \in {"stopping", "closed"}
    /\ outcome[r].state_reset => ranOn[r] = r

Truths == \A r \in Runs : Settled(r) /\ Unexecuted(r) /\ Truth(r)

LEMMA TruthsSuffice ==
    ASSUME TypeOK, Histories, Truths
    PROVE  TruthfulState
<1> SUFFICES ASSUME NEW r \in Runs, Reported(r), ranOn[r] # NoRun, ~Fresh(r)
             PROVE  /\ outcome[r].generation = gen[ranOn[r]]
                    /\ outcome[r].state = "cleared" => slot = NoRun
                    /\ outcome[r].state = "preserved" =>
                          slot = ranOn[r] \/ closer \in {"stopping", "closed"}
                    /\ outcome[r].state_reset /\ Recorded(r) => firstOn[ranOn[r]] = r
  BY DEF TruthfulState
<1>1. Truth(r)  BY DEF Truths
<1> QED  BY <1>1 DEF Truth, Histories

\* What a step does to the result of the run that takes it.
LEMMA OwnTruth ==
    ASSUME TypeOK, ReservationInv, Ownership, Histories, Generations, NEW r \in Runs,
           Settled(r), Unexecuted(r), Truth(r), WorkerMove(r), CodeMove(r), ResultMove(r)
    PROVE  Settled(r)' /\ Unexecuted(r)' /\ Truth(r)'
<1>t. /\ pc \in [Runs -> PC] /\ outcome \in [Runs -> Outcome] /\ NoRun \notin Runs
      /\ ranOn \in [Runs -> Runs \cup {NoRun}] /\ held \in [Runs -> Runs \cup {NoRun}]
      /\ gen \in [Runs -> Nat] /\ closer' = closer
  BY SupervisorAssumption DEF TypeOK, RunOrNone, WorkerMove
<1>1. pc[r] # "idle" => request' = request /\ (Fresh(r)' <=> Fresh(r))
  BY DEF WorkerMove, Fresh
<1>2. ranOn'[r] = ranOn[r] \/ pc'[r] = "running"
  BY DEF CodeMove, Executes
<1>3. pc'[r] # "spawning" /\ pc'[r] # "take" => generation' = generation /\ gen' = gen
  BY DEF WorkerMove, Keeps, Takes, Returns, Ends, Starts, Opens, Readies, Boards
<1> DEFINE Told == {"answer", "record", "dropping", "release"}
<1>4. Reported(r)' <=> pc'[r] \in Told  BY DEF Reported
<1>5. CASE Settles(r)
  <2>1. PICK state \in {"preserved", "cleared"} : Conclude(r, state)  BY <1>5 DEF Settles
  <2>2. outcome'[r] = [state |-> state, state_reset |-> FALSE, generation |-> generation]
    BY <2>1, <1>t DEF Conclude
  <2>3. pc'[r] = "settling"  BY <1>5 DEF Settles
  <2> QED  BY <1>3, <1>4, <2>2, <2>3 DEF Settled, Unexecuted, Truth
<1>6. CASE Retires(r)
  <2>1. /\ pc[r] = "settling" /\ pc'[r] = "terminating" /\ outcome' = outcome
        /\ Fresh(r) \/ outcome[r].state = "cleared"
    BY <1>6 DEF Retires
  <2> QED  BY <1>1, <1>3, <1>4, <2>1 DEF Settled, Unexecuted, Truth
<1>7. CASE PutsBack(r)
  <2>1. /\ pc[r] = "settling" /\ pc'[r] = "answer" /\ ~Fresh(r)
        /\ outcome[r].state # "cleared" /\ slot' = held[r]
    BY <1>7 DEF PutsBack
  <2>2. outcome'[r] = [state |-> outcome[r].state, state_reset |-> held[r] = r,
                       generation |-> generation]
    BY <1>7, <1>t DEF PutsBack, Finish
  <2>3. Holding(r) /\ pc[r] \in OnWorker  BY <2>1 DEF Holding, OnWorker, Armed
  <2>4. gen[held[r]] = generation  BY <2>1, <2>3 DEF Generations
  <2>5. ranOn[r] # NoRun => ranOn[r] = held[r]  BY <2>3 DEF Histories
  <2>6. Settled(r)' /\ Unexecuted(r)'  BY <2>1 DEF Settled, Unexecuted
  <2>7. outcome'[r].state = outcome[r].state /\ outcome'[r].generation = generation
    BY <2>2
  <2>8. outcome'[r].state_reset = (held[r] = r)  BY <2>2
  <2>9. outcome'[r].state_reset => held[r] = r  BY <2>8, Zenon
  <2>10. ranOn'[r] = ranOn[r] /\ generation' = generation /\ gen' = gen  BY <1>2, <1>3, <2>1
  <2>11. Truth(r)'
    BY <2>1, <2>4, <2>5, <2>7, <2>9, <2>10 DEF Truth
  <2> QED  BY <2>6, <2>11
<1>8. CASE Gives(r)
  <2>1. pc[r] = "terminating" /\ pc'[r] = "answer"  BY <1>8 DEF Gives
  <2>2. ~Fresh(r) => outcome'[r] = [state |-> outcome[r].state, state_reset |-> held[r] = r,
                                    generation |-> generation]
    BY <1>8, <1>t DEF Gives, Finish
  <2>3. Holding(r) /\ pc[r] \in OnWorker  BY <2>1 DEF Holding, OnWorker
  <2>4. ~Fresh(r) => gen[held[r]] = generation /\ slot = NoRun
    BY <2>3 DEF Generations, Ownership
  <2>5. ranOn[r] # NoRun => ranOn[r] = held[r]  BY <2>3 DEF Histories
  <2>6. slot' = slot
    BY <2>1 DEF WorkerMove, Keeps, Takes, Returns, Ends, Starts, Opens, Readies, Boards
  <2>7. ~Fresh(r) => outcome[r].state = "cleared"  BY <2>1 DEF Settled
  <2>8. Settled(r)' /\ Unexecuted(r)'  BY <2>1 DEF Settled, Unexecuted
  <2>9. ~Fresh(r) => outcome'[r].state = "cleared" /\ outcome'[r].generation = generation
    BY <2>2, <2>7
  <2>10. ~Fresh(r) => outcome'[r].state_reset = (held[r] = r)  BY <2>2
  <2>11. ~Fresh(r) => (outcome'[r].state_reset => held[r] = r)  BY <2>10, Zenon
  <2>12. ranOn'[r] = ranOn[r] /\ generation' = generation /\ gen' = gen  BY <1>2, <1>3, <2>1
  <2>13. Truth(r)'
    BY <1>1, <2>1, <2>4, <2>5, <2>6, <2>9, <2>11, <2>12 DEF Truth
  <2> QED  BY <2>8, <2>13
<1>9. CASE Breaks(r)
  <2>1. pc[r] \in Armed \cup {"terminating"} /\ pc'[r] = "dropping" /\ active' = NoRun
    BY <1>9 DEF Breaks
  <2>2. Holding(r) /\ pc[r] \in OnWorker /\ pc[r] # "idle"
    BY <2>1 DEF Holding, OnWorker, Armed
  <2>3. ~Fresh(r) => gen[held[r]] = generation /\ slot = NoRun
    BY <2>2 DEF Generations, Ownership
  <2>4. ranOn[r] # NoRun => ranOn[r] = held[r]  BY <2>2 DEF Histories
  <2>5. slot' = slot
    BY <2>1 DEF WorkerMove, Keeps, Takes, Returns, Ends, Starts, Opens, Readies, Boards
  <2>6. ~Fresh(r) => /\ outcome'[r].state = "cleared" /\ outcome'[r].generation = generation
                     /\ ~outcome'[r].state_reset
    BY <1>9, <1>t DEF Breaks, Conclude, Settled
  <2>7. Settled(r)' /\ Unexecuted(r)'  BY <2>1 DEF Settled, Unexecuted
  <2> QED  BY <1>1, <1>2, <1>3, <2>1, <2>2, <2>3, <2>4, <2>5, <2>6, <2>7 DEF Truth
<1>10. CASE Cancels(r)
  <2>1. pc[r] = "armed" /\ pc'[r] = "terminating" /\ Fresh(r) /\ Conclude(r, "preserved")
    BY <1>10 DEF Cancels
  <2>2. outcome'[r] = [state |-> "preserved", state_reset |-> FALSE, generation |-> generation]
    BY <2>1, <1>t DEF Conclude
  <2> QED  BY <1>1, <1>3, <1>4, <2>1, <2>2 DEF Settled, Unexecuted, Truth
<1>11. CASE Drops(r)
  <2>1. /\ pc[r] = "dropping" /\ outcome' = outcome /\ active' = NoRun
        /\ pc'[r] \in {"recordAbandoned", "release"}
        /\ pc'[r] = "recordAbandoned" => active # NoRun
    BY <1>11 DEF Drops
  <2>2. slot' = slot
    BY <2>1 DEF WorkerMove, Keeps, Takes, Returns, Ends, Starts, Opens, Readies, Boards,
                OnWorker, Armed
  <2>3. ranOn'[r] = ranOn[r] /\ generation' = generation /\ gen' = gen  BY <1>2, <1>3, <2>1
  <2>4. Settled(r)'  BY <2>1 DEF Settled
  <2>5. Unexecuted(r)'  BY <2>1, <2>3 DEF Unexecuted
  <2>6. Truth(r)'  BY <1>1, <1>t, <2>1, <2>2, <2>3 DEF Truth, Reported
  <2> QED  BY <2>4, <2>5, <2>6
<1>12. CASE Early(r)
  <2>1. pc[r] \in Unsent \cup {"recordAbandoned"}
        /\ pc'[r] \notin {"settling", "terminating", "recordAbandoned"}
    BY <1>12 DEF Early
  <2>2. ranOn[r] = NoRun  BY <2>1 DEF Histories, Unexecuted
  <2> QED  BY <1>2, <1>4, <2>1, <2>2 DEF Settled, Unexecuted, Truth
<1>13. CASE Goes(r)
  <2>0. outcome' = outcome  BY <1>13 DEF Goes
  <2>1. CASE pc'[r] = pc[r] /\ active' = active
    <3>1. pc'[r] = "running" \/ ranOn'[r] = ranOn[r]  BY <1>2
    <3>2. pc[r] \in Told => slot' = slot /\ pc[r] # "idle"
      BY <2>1 DEF WorkerMove, Keeps, Takes, Returns, Ends, Starts, Opens, Readies, Boards,
                  OnWorker, Armed
    <3>3. pc[r] \in {"settling", "terminating"} => pc[r] # "idle"  OBVIOUS
    <3> QED  BY <1>1, <1>3, <1>t, <2>0, <2>1, <3>1, <3>2, <3>3
             DEF Settled, Unexecuted, Truth, Reported
  <2>2. CASE pc[r] = "record" /\ pc'[r] = "dropping" /\ active' = active
    <3>1. active = NoRun
      <4>1. Owner(r) /\ pc[r] \notin Visible
        BY <2>2 DEF Owner, Owning, Visible, Locking, Armed
      <4>2. active # r  BY <4>1, <1>t DEF ReservationInv
      <4> QED  BY <4>1, <4>2 DEF ReservationInv, SingleFlight, TypeOK, RunOrNone
    <3>2. slot' = slot
      BY <2>2 DEF WorkerMove, Keeps, Takes, Returns, Ends, Starts, Opens, Readies, Boards,
                  OnWorker, Armed
    <3> QED  BY <1>1, <1>2, <1>3, <1>t, <2>0, <2>2, <3>1, <3>2
             DEF Settled, Unexecuted, Truth, Reported
  <2>3. CASE /\ pc[r] \in {"sending", "running", "answer", "release", "notify"}
             /\ pc'[r] \in {"running", "interrupted", "record", "notify", "done"}
             /\ (pc'[r] = "record" => pc[r] = "answer")
    <3>1. CASE pc'[r] = "record"
      <4>1. slot' = slot
        BY <2>3, <3>1 DEF WorkerMove, Keeps, Takes, Returns, Ends, Starts, Opens, Readies, Boards,
                    OnWorker, Armed
      <4> QED  BY <1>1, <1>2, <1>3, <1>t, <2>0, <2>3, <3>1, <4>1
               DEF Settled, Unexecuted, Truth, Reported
    <3>2. CASE pc'[r] # "record"
      BY <2>3, <3>2 DEF Settled, Unexecuted, Truth, Reported
    <3> QED  BY <3>1, <3>2
  <2> QED  BY <1>13, <2>1, <2>2, <2>3 DEF Goes
<1> QED
  BY <1>5, <1>6, <1>7, <1>8, <1>9, <1>10, <1>11, <1>12, <1>13 DEF ResultMove

\* The step of another run leaves a result that waits to be reported true.
LEMMA OtherTruth ==
    ASSUME TypeOK, SingleFlight, Histories, NEW r \in Runs, NEW q \in Runs \ {r},
           Settled(q), Unexecuted(q), Truth(q), WorkerMove(r), CodeMove(r), ResultMove(r)
    PROVE  Settled(q)' /\ Unexecuted(q)' /\ Truth(q)'
<1>t. /\ pc \in [Runs -> PC] /\ gen \in [Runs -> Nat] /\ NoRun \notin Runs
      /\ ranOn \in [Runs -> Runs \cup {NoRun}]
  BY SupervisorAssumption DEF TypeOK, RunOrNone
<1>1. /\ pc'[q] = pc[q] /\ outcome'[q] = outcome[q] /\ request'[q] = request[q]
      /\ ranOn'[q] = ranOn[q] /\ closer' = closer
  BY <1>t DEF WorkerMove, CodeMove, Executes, ResultMove
<1>2. Owner(q) => pc[r] \notin Locking /\ pc[r] # "admit"
  BY DEF SingleFlight, Owner, Owning
<1>3. pc[r] \notin Locking => slot' = slot /\ generation' = generation
  BY DEF WorkerMove, Keeps, Takes, Returns, Ends, Starts, Opens, Readies, Boards,
         Locking, Armed, OnWorker
<1>4. ranOn[q] # NoRun => gen'[ranOn[q]] = gen[ranOn[q]]
  <2> SUFFICES ASSUME ranOn[q] # NoRun PROVE gen'[ranOn[q]] = gen[ranOn[q]]
    OBVIOUS
  <2>1. ranOn[q] \in Runs /\ pc[ranOn[q]] # "spawning"  BY <1>t DEF Histories, Before
  <2> QED
    BY <1>t, <2>1 DEF WorkerMove, Keeps, Takes, Returns, Ends, Starts, Opens, Readies, Boards
<1>5. Settled(q)'
  <2>1. pc[q] \in {"settling", "terminating"} => Owner(q)  BY DEF Owner, Locking, Armed
  <2> QED  BY <1>1, <1>2, <1>3, <2>1 DEF Settled, Fresh
<1>6. Unexecuted(q)'
  <2>1. pc[q] = "dropping" => Owner(q)  BY DEF Owner, Owning
  <2>2. pc[q] = "dropping" => active' \in {active, NoRun}  BY <1>2, <2>1 DEF ResultMove
  <2> QED  BY <1>1, <2>2 DEF Unexecuted
<1>7. Truth(q)'
  <2>1. Reported(q) => Owner(q)  BY DEF Reported, Owner, Owning
  <2> QED  BY <1>1, <1>2, <1>3, <1>4, <2>1 DEF Truth, Reported, Fresh
<1> QED  BY <1>5, <1>6, <1>7

LEMMA StepTruths ==
    ASSUME TypeOK, ReservationInv, SlotExclusive, Ownership, Histories, Generations, Truths,
           [Next]_vars
    PROVE  Truths'
<1>1. CASE \E r \in Runs : Arrival(r) \/ Step(r) \/ WorkerEvent(r) \/ Abandon(r)
  <2>1. PICK r \in Runs : WorkerMove(r) /\ CodeMove(r) /\ ResultMove(r)
    BY <1>1, WorkerMoves, CodeMoves, ResultMoves
  <2>2. Settled(r)' /\ Unexecuted(r)' /\ Truth(r)'  BY <2>1, OwnTruth DEF Truths
  <2>3. \A q \in Runs \ {r} : Settled(q)' /\ Unexecuted(q)' /\ Truth(q)'
    BY <2>1, OtherTruth DEF Truths, ReservationInv
  <2> QED  BY <2>2, <2>3 DEF Truths
<1>2. CASE Close
  <2>1. UNCHANGED <<active, generation, pc, request, outcome, gen, ranOn>>  BY <1>2, OuterFrame
  <2>2. \A r \in Runs : Settled(r)' /\ Unexecuted(r)'
    BY <2>1 DEF Truths, Settled, Unexecuted, Fresh
  <2>3. ASSUME NEW r \in Runs, Reported(r), Truth(r) PROVE Truth(r)'
    <3>1. \/ slot' = slot /\ closer' # "closed" /\ closer # "stopping"
          \/ slot' = NoRun /\ closer' = "closed"
      BY <1>2, <2>3, CloseSlot DEF Reported
    <3>2. closer # "closed"
      <4>1. \A q \in Runs : pc[q] \in {"idle", "done"} => q # r  BY <2>3 DEF Reported
      <4> QED
        BY <1>2, <4>1 DEF Close, BeginClose, CancelActive, TakeBackground, Joined, JoinTimeout,
           CloserLock, CloserStop, DropSupervisor, CloserGoto
    <3>3. CASE slot' = slot /\ closer # "stopping"
      BY <2>1, <2>3, <3>2, <3>3 DEF Truth, Reported, Fresh
    <3>4. CASE slot' = NoRun /\ closer' = "closed"
      BY <2>1, <2>3, <3>4 DEF Truth, Reported, Fresh
    <3> QED  BY <3>1, <3>3, <3>4
  <2>4. \A r \in Runs : ~Reported(r) => Truth(r)'  BY <2>1 DEF Truth, Reported
  <2> QED  BY <2>2, <2>3, <2>4 DEF Truths
<1>3. CASE Environment \/ Quiescent \/ UNCHANGED vars
  <2>1. UNCHANGED <<active, generation, pc, request, outcome, gen, ranOn>>  BY <1>3, OuterFrame
  <2>2. UNCHANGED <<slot, closer>>
    BY <1>3 DEF Environment, Outer, Quiescent, vars, close
  <2> QED  BY <2>1, <2>2 DEF Truths, Settled, Unexecuted, Truth, Reported, Fresh
<1> QED  BY <1>1, <1>2, <1>3 DEF Next

\* What a dispatched cell reports is what happened to its namespace: its worker is in the
\* slot exactly when it says preserved, nothing survives when it says cleared, the
\* generation is its worker's, and state_reset is no false alarm (Finish and failure of
\* execute_inner, ExecutionGuard, Reservation::drop).
THEOREM ResultsAreTruthful == Spec => []TruthfulState
<1>1. Init => Truths
  BY DEF Init, Truths, Settled, Unexecuted, Truth, Reported
<1>2. TypeOK /\ ReservationInv /\ SlotExclusive /\ Ownership /\ Histories /\ Generations
      /\ Truths /\ [Next]_vars => Truths'
  BY StepTruths
<1>3. TypeOK /\ Histories /\ Truths => TruthfulState  BY TruthsSuffice
<1> QED
  BY <1>1, <1>2, <1>3, TypeCorrect, Reservation, SlotIsExclusive, OwnershipInvariant,
     HistoriesInvariant, GenerationsInvariant, PTL DEF Spec

-----------------------------------------------------------------------------
(* The history.                                                              *)

\* Removing the earlier record of a run removes that one only.
LEMMA WithoutKeeps ==
    ASSUME NEW h \in Seq(Runs), NEW r \in Runs
    PROVE  /\ Without(h, r) \in Seq(Runs)
           /\ Len(Without(h, r)) = IF InHistory(h, r) THEN Len(h) - 1 ELSE Len(h)
           /\ \A x \in Runs \ {r} : InHistory(h, x) => InHistory(Without(h, r), x)
<1>1. CASE ~InHistory(h, r)
  BY <1>1 DEF InHistory, Without
<1>2. CASE InHistory(h, r)
  <2> DEFINE i == CHOOSE j \in 1..Len(h) : h[j] = r
             left == SubSeq(h, 1, i - 1)
             right == SubSeq(h, i + 1, Len(h))
  <2>1. i \in 1..Len(h) /\ h[i] = r  BY <1>2 DEF InHistory
  <2>2. Len(h) \in Nat /\ \A j \in 1..Len(h) : h[j] \in Runs  BY LenProperties
  <2>3. Without(h, r) = left \o right  BY <1>2 DEF InHistory, Without
  <2> HIDE DEF i
  <2>4. left \in Seq(Runs) /\ Len(left) = i - 1 /\ \A j \in 1..(i - 1) : left[j] = h[j]
    BY <2>1, <2>2, SubSeqProperties
  <2>5. /\ right \in Seq(Runs) /\ Len(right) = Len(h) - i
        /\ \A j \in 1..(Len(h) - i) : right[j] = h[i + j]
    <3>1. right \in Seq(Runs)  BY <2>1, <2>2, SubSeqProperties
    <3>2. Len(right) = IF i + 1 <= Len(h) THEN Len(h) - (i + 1) + 1 ELSE 0
      BY <2>1, <2>2, SubSeqProperties
    <3>3. \A j \in 1..(Len(h) - i) : right[j] = h[i + 1 + j - 1]
      BY <2>1, <2>2, SubSeqProperties
    <3> QED  BY <2>1, <2>2, <3>1, <3>2, <3>3
  <2> HIDE DEF left, right
  <2>6. /\ left \o right \in Seq(Runs) /\ Len(left \o right) = Len(h) - 1
        /\ \A j \in 1..(Len(h) - 1) :
              (left \o right)[j] = IF j <= i - 1 THEN left[j] ELSE right[j - (i - 1)]
    <3>1. /\ left \o right \in Seq(Runs) /\ Len(left \o right) = Len(left) + Len(right)
          /\ \A j \in 1..(Len(left) + Len(right)) :
                (left \o right)[j] = IF j <= Len(left) THEN left[j] ELSE right[j - Len(left)]
      BY <2>4, <2>5, ConcatProperties
    <3>2. Len(left) + Len(right) = Len(h) - 1  BY <2>1, <2>2, <2>4, <2>5
    <3> QED  BY <2>4, <3>1, <3>2
  <2>7. ASSUME NEW x \in Runs \ {r}, NEW j \in 1..Len(h), h[j] = x
        PROVE  InHistory(left \o right, x)
    <3>1. CASE j < i
      <4>1. j \in 1..(i - 1) /\ j \in 1..(Len(h) - 1)  BY <2>1, <2>2, <3>1
      <4>2. (left \o right)[j] = x  BY <2>1, <2>2, <2>4, <2>6, <2>7, <4>1
      <4> QED  BY <2>6, <4>1, <4>2 DEF InHistory
    <3>2. CASE j > i
      <4>1. j - 1 \in 1..(Len(h) - 1) /\ j - i \in 1..(Len(h) - i) /\ ~(j - 1 <= i - 1)
            /\ j - 1 - (i - 1) = j - i /\ i + (j - i) = j
        BY <2>1, <2>2, <3>2
      <4>2. right[j - i] = h[j]  BY <2>5, <4>1
      <4>3. (left \o right)[j - 1] = x  BY <2>6, <2>7, <4>1, <4>2
      <4> QED  BY <2>6, <4>1, <4>3 DEF InHistory
    <3>3. j # i  BY <2>1, <2>7
    <3> QED  BY <2>1, <2>2, <3>1, <3>2, <3>3
  <2> QED  BY <1>2, <2>3, <2>6, <2>7 DEF InHistory
<1> QED  BY <1>1, <1>2

\* The newest record is in the history, an older one is there as well or the history is
\* full, and a full history stays full (remember).
LEMMA RememberKeeps ==
    ASSUME NEW h \in Seq(Runs), NEW r \in Runs, Len(h) <= HistoryLimit
    PROVE  /\ Len(Remember(h, r)) <= HistoryLimit
           /\ InHistory(Remember(h, r), r)
           /\ \A x \in Runs : InHistory(h, x) \/ Len(h) = HistoryLimit =>
                 InHistory(Remember(h, r), x) \/ Len(Remember(h, r)) = HistoryLimit
<1> DEFINE rest == Without(h, r)
           kept == Append(rest, r)
<1>1. /\ rest \in Seq(Runs)
      /\ Len(rest) = IF InHistory(h, r) THEN Len(h) - 1 ELSE Len(h)
      /\ \A x \in Runs \ {r} : InHistory(h, x) => InHistory(rest, x)
  BY WithoutKeeps
<1>2. Len(h) \in Nat /\ Len(rest) \in Nat /\ HistoryLimit \in Nat \ {0}
  BY <1>1, LenProperties, SupervisorAssumption
<1>3. Remember(h, r) = IF Len(kept) <= HistoryLimit THEN kept ELSE Tail(kept)
  BY DEF Remember
<1> HIDE DEF rest
<1>4. /\ kept \in Seq(Runs) /\ kept # <<>> /\ Len(kept) = Len(rest) + 1
      /\ kept[Len(kept)] = r /\ \A j \in 1..Len(rest) : kept[j] = rest[j]
  BY <1>1, <1>2, AppendProperties
<1> HIDE DEF kept
<1>5. \A x \in Runs : InHistory(h, x) => InHistory(kept, x)
  <2> SUFFICES ASSUME NEW x \in Runs, InHistory(h, x) PROVE InHistory(kept, x)
    OBVIOUS
  <2>1. CASE x = r  BY <1>2, <1>4, <2>1 DEF InHistory
  <2>2. CASE x # r
    <3>1. PICK j \in 1..Len(rest) : rest[j] = x  BY <1>1, <2>2 DEF InHistory
    <3>2. j \in 1..Len(kept) /\ kept[j] = x  BY <1>2, <1>4, <3>1
    <3> QED  BY <3>2 DEF InHistory
  <2> QED  BY <2>1, <2>2
<1>6. CASE Len(kept) <= HistoryLimit
  <2>1. Remember(h, r) = kept  BY <1>3, <1>6
  <2>2. InHistory(kept, r)  BY <1>2, <1>4 DEF InHistory
  <2>3. Len(h) = HistoryLimit => Len(kept) = HistoryLimit  BY <1>1, <1>2, <1>4, <1>6
  <2> QED  BY <1>5, <1>6, <2>1, <2>2, <2>3
<1>7. CASE ~(Len(kept) <= HistoryLimit)
  <2>1. Len(kept) = HistoryLimit + 1  BY <1>1, <1>2, <1>4, <1>7
  <2>2. /\ Len(Tail(kept)) = HistoryLimit
        /\ \A j \in 1..HistoryLimit : Tail(kept)[j] = kept[j + 1]
    BY <1>2, <1>4, <2>1, HeadTailProperties
  <2>3. HistoryLimit \in 1..HistoryLimit /\ Tail(kept)[HistoryLimit] = r
    BY <1>2, <1>4, <2>1, <2>2
  <2>4. InHistory(Tail(kept), r)  BY <2>2, <2>3 DEF InHistory
  <2>5. Remember(h, r) = Tail(kept)  BY <1>3, <1>7
  <2> QED  BY <1>2, <2>2, <2>4, <2>5
<1> QED  BY <1>6, <1>7

\* How a background run that is not being aborted reaches the points RetainedInv names.
Stays(r) == pc'[r] = pc[r] /\ UNCHANGED <<outcome, active>>

RecordMove(r) ==
    /\ records' = records \/ records' = Remember(records, r)
    /\ aborted' = aborted
    /\ pc[r] = "idle" => /\ pc'[r] \in {"idle", "reserve"}
                         /\ request' = request \/ (Background(r)' => Recorded(r)')
    /\ pc'[r] \in Before => pc[r] \in Before /\ outcome' = outcome
    /\ pc'[r] = "idle" => pc[r] = "idle"
    /\ Background(r) /\ ~aborted[r] =>
          /\ pc'[r] = "record" => Stays(r) \/ active' = NoRun
          /\ pc'[r] = "dropping" =>
                \/ Stays(r)
                \/ pc[r] = "record" /\ active' = active /\ (Recorded(r) => records' = Remember(records, r))
          /\ pc'[r] = "recordAbandoned" =>
                pc[r] = "recordAbandoned" \/ (pc[r] = "dropping" /\ active # NoRun)
          /\ pc'[r] = "release" =>
                Stays(r) \/ (pc[r] = "dropping" /\ active' = NoRun) \/ pc[r] = "recordAbandoned"
          /\ pc'[r] = "notify" => pc[r] \in {"notify", "release"}
          /\ pc'[r] = "done" => pc[r] \in Before \cup {"notify", "done"} /\ outcome' = outcome

LEMMA RecordMoves ==
    ASSUME TypeOK, NEW r \in Runs, Arrival(r) \/ Step(r) \/ WorkerEvent(r) \/ Abandon(r)
    PROVE  RecordMove(r)
<1>t. pc \in [Runs -> PC] /\ request \in [Runs -> Request]  BY DEF TypeOK
<1> USE <1>t DEF RecordMove, Before, Stays
<1>1. CASE Arrival(r)
  <2>1. PICK q \in Requests : request' = [request EXCEPT ![r] = q]
    BY <1>1 DEF Arrival, Arrive
  <2>2. Background(r)' => Recorded(r)'
    <3>1. request'[r] = q  BY <2>1
    <3> QED  BY <3>1, SupervisorAssumption DEF Background, Recorded
  <2>3. /\ pc[r] = "idle" /\ pc'[r] = "reserve" /\ UNCHANGED <<records, aborted, outcome, active>>
    BY <1>1 DEF Arrival, Arrive, Goto, tokens
  <2> QED  BY <2>2, <2>3
<1>2. CASE Admission(r)
  <2>1. UNCHANGED <<records, outcome, aborted, request>>
    BY <1>2 DEF Admission, Reserve, Inspect, Wait, Admit, StoreHandle, tokens
  <2>2. CASE StoreHandle(r)  BY <2>1, <2>2 DEF StoreHandle
  <2>3. CASE Reserve(r) \/ Inspect(r) \/ Wait(r) \/ Admit(r)
    BY <2>1, <2>3 DEF Reserve, Inspect, Wait, Admit, Goto
  <2> QED  BY <1>2, <2>2, <2>3 DEF Admission
<1>3. CASE Preparation(r)
  BY <1>3 DEF Preparation, Begin, Checks, TryLock, StopWorker, Stopped, StartWorker,
              Spawned, SpawnFails, Take, Refuse, Goto, tokens
<1>4. CASE Execution(r)
  <2>1. UNCHANGED <<records, aborted>>  BY <1>4 DEF Execution, ExecutionFrame
  <2> QED
    BY <1>4, <2>1 DEF Execution, CancelDispatch, Send, Sent, SendFails, Settle, Interrupt,
                GraceExpires, PutBack, Retire, Terminated, Finish, Goto
<1>5. CASE WorkerEvent(r)
  BY <1>5 DEF WorkerEvent, WorkerResult, WorkerLost, Settle, ExecutionFrame
<1>6. CASE Completion(r)
  <2>1. aborted' = aborted  BY <1>6 DEF Completion, tokens
  <2>2. CASE Answer(r) \/ DropReservation(r)
    <3>1. UNCHANGED <<records, outcome>> /\ active' = NoRun
      BY <2>2 DEF Answer, DropReservation
    <3>2. \/ pc[r] = "answer" /\ pc'[r] = "record"
          \/ pc[r] = "dropping" /\ pc'[r] = "release"
          \/ pc[r] = "dropping" /\ pc'[r] = "recordAbandoned" /\ active # NoRun
      BY <2>2 DEF Answer, DropReservation, Goto
    <3> QED  BY <2>1, <3>1, <3>2
  <2>3. CASE Record(r)
    <3>1. /\ UNCHANGED <<active, outcome>> /\ pc[r] = "record" /\ pc'[r] = "dropping"
          /\ Recorded(r) => records' = Remember(records, r)
          /\ ~Recorded(r) => records' = records
      BY <2>3 DEF Record, Log, Goto
    <3> QED  BY <2>1, <3>1
  <2>4. CASE RecordAbandoned(r)
    <3>1. /\ pc[r] = "recordAbandoned" /\ pc'[r] = "release"
          /\ records' = records \/ records' = Remember(records, r)
      BY <2>4 DEF RecordAbandoned, Log, Goto
    <3> QED  BY <2>1, <3>1
  <2>5. CASE Release(r) \/ Notify(r)
    BY <2>1, <2>5 DEF Release, Notify, Goto
  <2> QED  BY <1>6, <2>2, <2>3, <2>4, <2>5 DEF Completion
<1>7. CASE Abandon(r)
  <2>1. aborted' = aborted /\ (Background(r) => aborted[r])  BY <1>7 DEF Abandon
  <2>2. records' = records \/ records' = Remember(records, r)
    BY <1>7 DEF Abandon, AbandonWait, AbandonPreparing, AbandonGuarded, Log
  <2>3. pc[r] # "idle" /\ pc'[r] \in {"done", "dropping"}
    BY <1>7 DEF Abandon, AbandonWait, AbandonPreparing, AbandonGuarded, Goto, Armed
  <2> QED  BY <2>1, <2>2, <2>3
<1> QED  BY <1>1, <1>2, <1>3, <1>4, <1>5, <1>6, <1>7 DEF Step

\* Once retained, a run stays retained.
LEMMA RetainedStays ==
    ASSUME TypeOK, Len(records) <= HistoryLimit, NEW r \in Runs,
           records' = records \/ records' = Remember(records, r)
    PROVE  /\ Len(records') <= HistoryLimit
           /\ \A q \in Runs : Retained(q) => Retained(q)'
           /\ records' = Remember(records, r) => Retained(r)'
<1>1. records \in Seq(Runs)  BY DEF TypeOK
<1>2. CASE records' = records  
  <2>1. records' = Remember(records, r) => InHistory(records', r)
    BY <1>1, RememberKeeps
  <2> QED  BY <1>2, <2>1 DEF Retained
<1>3. CASE records' = Remember(records, r)
  BY <1>1, <1>3, RememberKeeps DEF Retained
<1> QED  BY <1>2, <1>3

LEMMA MoveRetained ==
    ASSUME TypeOK, SingleFlight, RetainedInv, NEW r \in Runs,
           WorkerMove(r), ResultMove(r), RecordMove(r)
    PROVE  RetainedInv'
<1>t. /\ pc \in [Runs -> PC] /\ aborted' = aborted
      /\ \A q \in Runs \ {r} : pc'[q] = pc[q] /\ request'[q] = request[q] /\ outcome'[q] = outcome[q]
  BY DEF TypeOK, WorkerMove, ResultMove, RecordMove
<1>1. /\ Len(records') <= HistoryLimit
      /\ \A q \in Runs : Retained(q) => Retained(q)'
      /\ records' = Remember(records, r) => Retained(r)'
  BY RetainedStays DEF RetainedInv, RecordMove
<1>2. ASSUME NEW q \in Runs, Background(q)' PROVE Recorded(q)'
  <2>1. CASE q = r /\ pc[r] = "idle"
    BY <1>2, <2>1 DEF RecordMove, RetainedInv, Background, Recorded
  <2>2. CASE ~(q = r /\ pc[r] = "idle")
    <3>1. request'[q] = request[q]  BY <1>t, <2>2 DEF WorkerMove
    <3> QED  BY <1>2, <3>1 DEF RetainedInv, Background, Recorded
  <2> QED  BY <2>1, <2>2
<1> DEFINE Part(q) ==
          /\ pc[q] \in Before => outcome[q] = NoOutcome
          /\ pc[q] \in {"dropping", "release", "notify"} => Retained(q)
          /\ pc[q] = "done" /\ outcome[q] # NoOutcome => Retained(q)
          /\ pc[q] # "recordAbandoned"
          /\ pc[q] \in {"record", "dropping", "release"} => active = NoRun
<1>3. \A q \in Runs : Background(q) /\ ~aborted[q] => Part(q)  BY DEF RetainedInv
<1> HIDE DEF Part
<1>4. ASSUME NEW q \in Runs \ {r}, Background(q)', ~aborted'[q] PROVE Part(q)'
  <2>1. Part(q)  BY <1>3, <1>4, <1>t DEF Background
  <2>2. pc[q] \in {"record", "dropping", "release"} => active' \in {active, NoRun}
    <3>1. pc[q] \in {"record", "dropping", "release"} => Owner(q)  BY DEF Owner, Owning
    <3>2. Owner(q) => pc[r] # "admit"  BY DEF SingleFlight, Owner, Owning
    <3> QED  BY <3>1, <3>2 DEF ResultMove
  <2> QED  BY <1>1, <1>t, <2>1, <2>2 DEF Part
<1>5. ASSUME Background(r)', ~aborted'[r] PROVE Part(r)'
  <2>1. CASE pc[r] = "idle"
    <3>1. pc'[r] \in {"idle", "reserve"} /\ outcome' = outcome  BY <2>1 DEF RecordMove, Before
    <3>2. outcome[r] = NoOutcome  BY <2>1 DEF RetainedInv
    <3> QED  BY <3>1, <3>2 DEF Part
  <2>2. CASE pc[r] # "idle"
    <3>1. Background(r) /\ ~aborted[r] /\ Part(r)
      BY <1>3, <1>5, <1>t, <2>2 DEF WorkerMove, Background
    <3>2. Recorded(r)  BY <3>1 DEF RetainedInv
    <3>3. pc'[r] \in Before => outcome'[r] = NoOutcome
      BY <3>1 DEF Part, RecordMove
    <3>4. pc'[r] \in {"dropping", "release", "notify"} => Retained(r)'
      BY <1>1, <3>1, <3>2 DEF Part, RecordMove, Stays
    <3>5. pc'[r] = "done" /\ outcome'[r] # NoOutcome => Retained(r)'
      BY <1>1, <3>1 DEF Part, RecordMove
    <3>6. pc'[r] # "recordAbandoned"  BY <3>1 DEF Part, RecordMove
    <3>7. pc'[r] \in {"record", "dropping", "release"} => active' = NoRun
      BY <3>1 DEF Part, RecordMove, Stays
    <3> QED  BY <3>3, <3>4, <3>5, <3>6, <3>7 DEF Part
  <2> QED  BY <2>1, <2>2
<1>6. (\A q \in Runs : pc[q] = "idle" => outcome[q] = NoOutcome)'
  BY <1>t DEF RetainedInv, RecordMove, Before
<1> QED  BY <1>1, <1>2, <1>4, <1>5, <1>6 DEF RetainedInv, Part

\* A run started in the background is found by python_run once it has ended, unless newer
\* runs have pushed it out of a full history or shutdown aborted it (remember,
\* Reservation::drop, run_status).
THEOREM FinishedRunsAreKept == Spec => []CompletedRunRetained
<1>1. Init => RetainedInv
  BY EmptySeq, SupervisorAssumption DEF Init, RetainedInv, Background, NoRequest
<1>2. TypeOK /\ SingleFlight /\ RetainedInv /\ [Next]_vars => RetainedInv'
  <2> SUFFICES ASSUME TypeOK, SingleFlight, RetainedInv, [Next]_vars PROVE RetainedInv'
    OBVIOUS
  <2>1. CASE \E r \in Runs : Arrival(r) \/ Step(r) \/ WorkerEvent(r) \/ Abandon(r)
    BY <2>1, WorkerMoves, ResultMoves, RecordMoves, MoveRetained
  <2>2. CASE Close \/ Environment \/ Quiescent \/ UNCHANGED vars
    <3>1. UNCHANGED <<records, pc, request, outcome, active>>  BY <2>2, OuterFrame
    <3>2. \A r \in Runs : aborted[r] => aborted'[r]
      BY <2>2 DEF Close, BeginClose, CancelActive, TakeBackground, Joined, JoinTimeout,
                  CloserLock, CloserStop, DropSupervisor, Environment, Outer, Quiescent,
                  vars, tokens, TypeOK
    <3> QED  BY <3>1, <3>2 DEF RetainedInv, Retained, InHistory, Background, Recorded
  <2> QED  BY <2>1, <2>2 DEF Next
<1>3. TypeOK /\ SingleFlight /\ RetainedInv => CompletedRunRetained
  <2> SUFFICES ASSUME TypeOK, SingleFlight, RetainedInv, NEW r \in Runs, Background(r),
                      pc[r] = "done", outcome[r] # NoOutcome, ~aborted[r]
               PROVE  Status(r) = "retained" \/ Len(records) = HistoryLimit
    BY DEF CompletedRunRetained
  <2>1. Retained(r)  BY DEF RetainedInv
  <2>2. active # r
    BY SupervisorAssumption DEF SingleFlight, Owner, Owning, Locking, Armed
  <2>3. DOMAIN records = 1..Len(records)  BY LenProperties DEF TypeOK
  <2> QED  BY <2>1, <2>2, <2>3 DEF Retained, InHistory, Status
<1> QED  BY <1>1, <1>2, <1>3, TypeCorrect, OneCellAtATime, PTL DEF Spec
=============================================================================

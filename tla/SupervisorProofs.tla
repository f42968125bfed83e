--------------------------- MODULE SupervisorProofs ---------------------------
(* Theorems about one session of the supervisor, for every set of requests.  *)
EXTENDS Supervisor, TLAPS, SequenceTheorems

USE SupervisorAssumption

\* What remember returns is again a history.
LEMMA RememberType ==
    ASSUME NEW h \in Seq(Runs), NEW r \in Runs
    PROVE  Remember(h, r) \in Seq(Runs)
<1>1. Without(h, r) \in Seq(Runs)
  <2>1. ASSUME NEW i \in 1..Len(h)
        PROVE  SubSeq(h, 1, i - 1) \o SubSeq(h, i + 1, Len(h)) \in Seq(Runs)
    <3>1. Len(h) \in Nat /\ \A j \in 1..Len(h) : h[j] \in Runs
      BY LenProperties
    <3>2. SubSeq(h, 1, i - 1) \in Seq(Runs)
      BY <3>1, SubSeqProperties
    <3>3. SubSeq(h, i + 1, Len(h)) \in Seq(Runs)
      BY <3>1, SubSeqProperties
    <3> QED  BY <3>2, <3>3, ConcatProperties
  <2>2. CASE \E i \in 1..Len(h) : h[i] = r
    <3> DEFINE i == CHOOSE i \in 1..Len(h) : h[i] = r
    <3>1. i \in 1..Len(h)  BY <2>2
    <3> QED  BY <2>1, <2>2, <3>1 DEF Without
  <2> QED  BY <2>2 DEF Without
<1> DEFINE kept == Append(Without(h, r), r)
<1>2. kept \in Seq(Runs) /\ kept # <<>>  BY <1>1, AppendProperties
<1>3. Tail(kept) \in Seq(Runs)  BY <1>2, HeadTailProperties
<1> QED  BY <1>2, <1>3 DEF Remember

\* The control points and process states the steps below move to.
LEMMA Labels ==
    /\ "idle" \in PC /\ "reserve" \in PC /\ "inspect" \in PC /\ "wait" \in PC
    /\ "notify" \in PC /\ "done" \in PC /\ "admit" \in PC /\ "begin" \in PC
    /\ "checks" \in PC /\ "lock" \in PC /\ "answer" \in PC /\ "record" \in PC
    /\ "dropping" \in PC /\ "recordAbandoned" \in PC /\ "release" \in PC
    /\ "prepare" \in PC /\ "stopping" \in PC /\ "spawning" \in PC /\ "take" \in PC
    /\ "armed" \in PC /\ "terminating" \in PC /\ "sending" \in PC /\ "running" \in PC
    /\ "interrupted" \in PC /\ "settling" \in PC
    /\ "none" \in ProcState /\ "starting" \in ProcState /\ "up" \in ProcState
    /\ "exited" \in ProcState /\ "eof" \in ProcState /\ "killed" \in ProcState
BY DEF PC, Outside, Owning, Locking, Armed, ProcState

\* Conclude and Finish compute results.
LEMMA ConcludeType ==
    ASSUME TypeOK, NEW r \in Runs, NEW state \in {"preserved", "cleared"}, Conclude(r, state)
    PROVE  outcome' \in [Runs -> Outcome]
<1>1. [state |-> state, state_reset |-> FALSE, generation |-> generation] \in Outcome
  BY DEF TypeOK, Outcome
<1> QED  BY <1>1 DEF TypeOK, Conclude

LEMMA FinishType ==
    ASSUME TypeOK, NEW r \in Runs, Finish(r)
    PROVE  outcome' \in [Runs -> Outcome]
<1> DEFINE result == [state |-> IF Fresh(r) THEN "preserved" ELSE outcome[r].state,
                      state_reset |-> ~Fresh(r) /\ held[r] = r, generation |-> generation]
<1>1. outcome[r].state \in {"none", "preserved", "cleared"}  BY DEF TypeOK, Outcome
<1>2. (~Fresh(r) /\ held[r] = r) \in BOOLEAN  OBVIOUS
<1>3. generation \in Nat  BY DEF TypeOK
<1>4. result \in Outcome  BY <1>1, <1>2, <1>3 DEF Outcome
<1>5. outcome' = [outcome EXCEPT ![r] = result]  BY DEF Finish, TypeOK
<1> QED  BY <1>4, <1>5 DEF TypeOK

\* What each kind of step does to the control points, with no other hypothesis.
LEMMA PcType ==
    ASSUME NEW r \in Runs, pc \in [Runs -> PC],
           Arrival(r) \/ Step(r) \/ WorkerEvent(r) \/ Abandon(r)
    PROVE  pc' \in [Runs -> PC]
<1>1. CASE Arrival(r)  BY <1>1, Labels DEF Arrival, Arrive, Goto
<1>2. CASE Admission(r)
  BY <1>2, Labels DEF Admission, Reserve, Inspect, Wait, Admit, StoreHandle, Goto
<1>3. CASE Preparation(r)
  BY <1>3, Labels DEF Preparation, Begin, Checks, TryLock, StopWorker, Stopped, StartWorker,
                      Spawned, SpawnFails, Take, Refuse, Goto
<1>4. CASE Execution(r)
  BY <1>4, Labels DEF Execution, CancelDispatch, Send, Sent, SendFails, Settle, Interrupt,
                      GraceExpires, PutBack, Retire, Terminated, Finish, Goto
<1>5. CASE WorkerEvent(r)
  BY <1>5, Labels DEF WorkerEvent, WorkerResult, WorkerLost, Settle
<1>6. CASE Completion(r)
  BY <1>6, Labels DEF Completion, Answer, Record, DropReservation, RecordAbandoned, Release,
                      Notify, Goto
<1>7. CASE Abandon(r)
  BY <1>7, Labels DEF Abandon, AbandonWait, AbandonPreparing, AbandonGuarded, Goto
<1> QED  BY <1>1, <1>2, <1>3, <1>4, <1>5, <1>6, <1>7 DEF Step

LEMMA TypeArrival == ASSUME TypeOK, NEW r \in Runs, Arrival(r) PROVE TypeOK'
<1>1. pc' \in [Runs -> PC]  BY PcType DEF TypeOK
<1>2. request' \in [Runs -> Request]  BY DEF TypeOK, Arrival, Arrive
<1> QED  BY <1>1, <1>2 DEF TypeOK, Arrival, Arrive, RunOrNone, tokens, worker, close

LEMMA TypeAdmission == ASSUME TypeOK, NEW r \in Runs, Admission(r) PROVE TypeOK'
<1> USE DEF Admission, Reserve, Inspect, Wait, Admit, StoreHandle
<1>1. pc' \in [Runs -> PC]  BY PcType DEF TypeOK, Step
<1>2. /\ busy \in BOOLEAN /\ active \in RunOrNone /\ background \in RunOrNone
      /\ woken \in [Runs -> BOOLEAN] /\ handle \in [Runs -> {"none", "made", "stored"}]
  BY DEF TypeOK
<1>3. busy' \in BOOLEAN /\ active' \in RunOrNone /\ background' \in RunOrNone
  BY <1>2 DEF RunOrNone
<1>4. woken' \in [Runs -> BOOLEAN] /\ handle' \in [Runs -> {"none", "made", "stored"}]
  BY <1>2
<1>5. UNCHANGED <<records, generation, slot, slotLock, request, held, outcome, tokens,
                  worker, close>>
  OBVIOUS
<1> QED  BY <1>1, <1>3, <1>4, <1>5 DEF TypeOK, tokens, worker, close, RunOrNone

LEMMA TypePreparation == ASSUME TypeOK, NEW r \in Runs, Preparation(r) PROVE TypeOK'
<1> USE DEF Preparation, Begin, Checks, TryLock, StopWorker, Stopped, StartWorker,
            Spawned, SpawnFails, Take, Refuse
<1>1. pc' \in [Runs -> PC]  BY PcType DEF TypeOK, Step
<1>2. /\ slot \in RunOrNone /\ slotLock \in RunOrNone \cup {Closer} /\ generation \in Nat
      /\ held \in [Runs -> RunOrNone] /\ proc \in [Runs -> ProcState]
      /\ gen \in [Runs -> Nat] /\ outcome \in [Runs -> Outcome]
  BY DEF TypeOK
<1>3. outcome' \in [Runs -> Outcome]  BY <1>2, ConcludeType
<1>4. slot' \in RunOrNone /\ slotLock' \in RunOrNone \cup {Closer}  BY <1>2 DEF RunOrNone
<1>5. held' \in [Runs -> RunOrNone]  BY <1>2 DEF RunOrNone, Kill
<1>6. proc' \in [Runs -> ProcState]  BY <1>2, Labels DEF Kill
<1>7. generation' \in Nat /\ gen' \in [Runs -> Nat]  BY <1>2
<1>8. UNCHANGED <<busy, active, records, background, request, woken, handle, tokens,
                  ranOn, firstOn, close>>
  OBVIOUS
<1> QED  BY <1>1, <1>3, <1>4, <1>5, <1>6, <1>7, <1>8 DEF TypeOK, tokens, close, RunOrNone

LEMMA TypeExecution ==
    ASSUME TypeOK, NEW r \in Runs, Execution(r) \/ WorkerEvent(r) PROVE TypeOK'
<1> USE DEF Execution, WorkerEvent, CancelDispatch, Send, Sent, SendFails, WorkerResult,
            WorkerLost, GraceExpires, Interrupt, PutBack, Retire, Terminated, Settle
<1>1. pc' \in [Runs -> PC]  BY PcType DEF TypeOK, Step
<1>2. /\ slot \in RunOrNone /\ slotLock \in RunOrNone \cup {Closer} /\ active \in RunOrNone
      /\ held \in [Runs -> RunOrNone] /\ proc \in [Runs -> ProcState]
      /\ ranOn \in [Runs -> RunOrNone] /\ firstOn \in [Runs -> RunOrNone]
      /\ cancelled \in [Runs -> BOOLEAN] /\ outcome \in [Runs -> Outcome]
  BY DEF TypeOK
<1>3. outcome' \in [Runs -> Outcome]  BY <1>2, ConcludeType, FinishType
<1>4. /\ slot' \in RunOrNone /\ slotLock' \in RunOrNone \cup {Closer}
      /\ active' \in RunOrNone
  BY <1>2 DEF Finish, RunOrNone
<1>5. held' \in [Runs -> RunOrNone]  BY <1>2 DEF Kill, RunOrNone
<1>6. proc' \in [Runs -> ProcState]  BY <1>2, Labels DEF Kill
<1>7. ranOn' \in [Runs -> RunOrNone] /\ firstOn' \in [Runs -> RunOrNone]
  BY <1>2 DEF RunOrNone
<1>8. cancelled' \in [Runs -> BOOLEAN]  BY <1>2
<1>9. ExecutionFrame  OBVIOUS
<1> QED
  BY <1>1, <1>3, <1>4, <1>5, <1>6, <1>7, <1>8, <1>9 DEF TypeOK, close, ExecutionFrame, RunOrNone

LEMMA TypeCompletion == ASSUME TypeOK, NEW r \in Runs, Completion(r) PROVE TypeOK'
<1> USE DEF Completion, Answer, Record, DropReservation, RecordAbandoned, Release, Notify
<1>1. pc' \in [Runs -> PC]  BY PcType DEF TypeOK, Step
<1>2. /\ records \in Seq(Runs) /\ outcome \in [Runs -> Outcome]
      /\ woken \in [Runs -> BOOLEAN] /\ busy \in BOOLEAN /\ active \in RunOrNone
  BY DEF TypeOK
<1>3. records' \in Seq(Runs)  BY <1>2, RememberType DEF Log
<1>4. outcome' \in [Runs -> Outcome]  BY <1>2, ConcludeType
<1>5. woken' \in [Runs -> BOOLEAN]  BY <1>2 DEF Registered
<1>6. busy' \in BOOLEAN /\ active' \in RunOrNone  BY <1>2 DEF RunOrNone
<1>7. UNCHANGED <<generation, slot, slotLock, background, request, handle, held, tokens,
                  worker, close>>
  OBVIOUS
<1> QED  BY <1>1, <1>3, <1>4, <1>5, <1>6, <1>7 DEF TypeOK, tokens, worker, close, RunOrNone

LEMMA TypeAbandon == ASSUME TypeOK, NEW r \in Runs, Abandon(r) PROVE TypeOK'
<1> USE DEF Abandon, AbandonWait, AbandonPreparing, AbandonGuarded
<1>1. pc' \in [Runs -> PC]  BY PcType DEF TypeOK
<1>2. /\ records \in Seq(Runs) /\ outcome \in [Runs -> Outcome]
      /\ slotLock \in RunOrNone \cup {Closer} /\ active \in RunOrNone
      /\ held \in [Runs -> RunOrNone] /\ proc \in [Runs -> ProcState]
      /\ cancelled \in [Runs -> BOOLEAN]
  BY DEF TypeOK
<1>3. records' \in Seq(Runs)  BY <1>2, RememberType DEF Log
<1>4. outcome' \in [Runs -> Outcome]  BY <1>2, ConcludeType
<1>5. held' \in [Runs -> RunOrNone]  BY <1>2 DEF Kill, RunOrNone
<1>6. proc' \in [Runs -> ProcState]  BY <1>2, Labels DEF Kill
<1>7. /\ slotLock' \in RunOrNone \cup {Closer} /\ active' \in RunOrNone
      /\ cancelled' \in [Runs -> BOOLEAN]
  BY <1>2 DEF RunOrNone
<1>8. UNCHANGED <<busy, generation, slot, background, request, woken, handle,
                  requestCancelled, aborted, gen, ranOn, firstOn, close>>
  OBVIOUS
<1> QED  BY <1>1, <1>3, <1>4, <1>5, <1>6, <1>7, <1>8 DEF TypeOK, close, RunOrNone

LEMMA TypeClose == ASSUME TypeOK, Close PROVE TypeOK'
<1> USE DEF Close, BeginClose, CancelActive, TakeBackground, Joined, JoinTimeout,
            CloserLock, CloserStop, DropSupervisor, CloserGoto, KillSlot
<1>1. /\ slot \in RunOrNone /\ slotLock \in RunOrNone \cup {Closer} /\ active \in RunOrNone
      /\ background \in RunOrNone /\ joining \in RunOrNone /\ closed \in BOOLEAN
      /\ proc \in [Runs -> ProcState]
      /\ cancelled \in [Runs -> BOOLEAN] /\ aborted \in [Runs -> BOOLEAN]
  BY DEF TypeOK
<1>2. /\ slot' \in RunOrNone /\ slotLock' \in RunOrNone \cup {Closer}
      /\ background' \in RunOrNone /\ joining' \in RunOrNone /\ closed' \in BOOLEAN
  BY <1>1 DEF RunOrNone
<1>3. cancelled' \in [Runs -> BOOLEAN]  BY <1>1
<1>4. aborted' \in [Runs -> BOOLEAN]  BY <1>1
<1>5. proc' \in [Runs -> ProcState]  BY <1>1, Labels
<1>6. closer' \in {"open", "cancelling", "taking", "joining", "locking", "stopping",
                   "closed", "dropped"}
  OBVIOUS
<1>7. UNCHANGED <<busy, active, records, generation, pc, request, woken, handle, held,
                  outcome, requestCancelled, gen, ranOn, firstOn>>
  OBVIOUS
<1> QED  BY <1>2, <1>3, <1>4, <1>5, <1>6, <1>7 DEF TypeOK, RunOrNone

LEMMA TypeEnvironment == ASSUME TypeOK, Environment PROVE TypeOK'
<1> USE DEF Environment, Cancel, CancelRequest, WorkerExits, ReaderEof
<1>1. /\ proc \in [Runs -> ProcState]
      /\ cancelled \in [Runs -> BOOLEAN] /\ requestCancelled \in [Runs -> BOOLEAN]
  BY DEF TypeOK
<1>2. cancelled' \in [Runs -> BOOLEAN] /\ requestCancelled' \in [Runs -> BOOLEAN]  BY <1>1
<1>3. proc' \in [Runs -> ProcState]  BY <1>1, Labels
<1> QED  BY <1>2, <1>3 DEF TypeOK, Outer, close, RunOrNone

\* The variables of a session keep their types.
THEOREM TypeCorrect == Spec => []TypeOK
<1>1. Init => TypeOK
  <2> SUFFICES ASSUME Init PROVE TypeOK  OBVIOUS
  <2>1. NoRequest \in Request  BY DEF NoRequest, Request, AnyGeneration
  <2>2. NoOutcome \in Outcome  BY DEF NoOutcome, Outcome
  <2>3. pc \in [Runs -> PC] /\ proc \in [Runs -> ProcState]  BY Labels DEF Init
  <2>4. request \in [Runs -> Request] /\ outcome \in [Runs -> Outcome]
    BY <2>1, <2>2 DEF Init
  <2>5. records \in Seq(Runs)  BY DEF Init
  <2>6. /\ held \in [Runs -> RunOrNone] /\ ranOn \in [Runs -> RunOrNone]
        /\ firstOn \in [Runs -> RunOrNone] /\ gen \in [Runs -> Nat]
        /\ handle \in [Runs -> {"none", "made", "stored"}]
    BY DEF Init, RunOrNone
  <2>7. /\ woken \in [Runs -> BOOLEAN] /\ aborted \in [Runs -> BOOLEAN]
        /\ cancelled \in [Runs -> BOOLEAN] /\ requestCancelled \in [Runs -> BOOLEAN]
    BY DEF Init
  <2>8. /\ busy \in BOOLEAN /\ closed \in BOOLEAN /\ generation \in Nat
        /\ {active, slot, background, joining} \subseteq RunOrNone
        /\ slotLock \in RunOrNone \cup {Closer} /\ closer = "open"
    BY DEF Init, RunOrNone
  <2> QED  BY <2>3, <2>4, <2>5, <2>6, <2>7, <2>8 DEF TypeOK
<1>2. TypeOK /\ [Next]_vars => TypeOK'
  <2> SUFFICES ASSUME TypeOK, [Next]_vars PROVE TypeOK'  OBVIOUS
  <2>1. CASE UNCHANGED vars
    BY <2>1 DEF TypeOK, vars, tokens, worker, close, RunOrNone
  <2>2. CASE \E r \in Runs : Arrival(r) \/ Step(r) \/ WorkerEvent(r) \/ Abandon(r)
    BY <2>2, TypeArrival, TypeAdmission, TypePreparation, TypeExecution, TypeCompletion,
       TypeAbandon DEF Step
  <2>3. CASE Close \/ Environment  BY <2>3, TypeClose, TypeEnvironment
  <2> QED  BY <2>1, <2>2, <2>3 DEF Next, Quiescent
<1> QED  BY <1>1, <1>2, PTL DEF Spec

-----------------------------------------------------------------------------
(* The worker mutex.  A step of a request leaves it alone, acquires it when it *)
(* is free, or releases it; only then does the request enter or leave the      *)
(* part of its code that needs the mutex.                                      *)

LockMove(r) ==
    /\ pc' = [pc EXCEPT ![r] = pc'[r]]
    /\ closer' = closer
    /\ \/ slotLock' = slotLock /\ (pc'[r] \in Locking <=> pc[r] \in Locking)
       \/ slotLock = NoRun /\ slotLock' = r /\ pc'[r] \in Locking
       \/ pc[r] \in Locking /\ slotLock' = NoRun /\ pc'[r] \notin Locking

LEMMA LockMoves ==
    ASSUME NEW r \in Runs, pc \in [Runs -> PC],
           Arrival(r) \/ Step(r) \/ WorkerEvent(r) \/ Abandon(r)
    PROVE  LockMove(r)
<1> USE DEF Locking, Armed, LockMove, close
<1>1. CASE Arrival(r)  BY <1>1 DEF Arrival, Arrive, Goto
<1>2. CASE Admission(r)
  BY <1>2 DEF Admission, Reserve, Inspect, Wait, Admit, StoreHandle, Goto
<1>3. CASE Preparation(r)
  BY <1>3 DEF Preparation, Begin, Checks, TryLock, StopWorker, Stopped, StartWorker,
              Spawned, SpawnFails, Take, Refuse, Goto
<1>4. CASE Execution(r)
  BY <1>4 DEF Execution, CancelDispatch, Send, Sent, SendFails, Settle, Interrupt,
              GraceExpires, PutBack, Retire, Terminated, Finish, Goto, ExecutionFrame
<1>5. CASE WorkerEvent(r)
  BY <1>5 DEF WorkerEvent, WorkerResult, WorkerLost, Settle, ExecutionFrame
<1>6. CASE Completion(r)
  BY <1>6 DEF Completion, Answer, Record, DropReservation, RecordAbandoned, Release,
              Notify, Goto
<1>7. CASE Abandon(r)
  BY <1>7 DEF Abandon, AbandonWait, AbandonPreparing, AbandonGuarded, Goto
<1> QED  BY <1>1, <1>2, <1>3, <1>4, <1>5, <1>6, <1>7 DEF Step

\* The worker mutex is held by the one request that prepares or runs a cell, or
\* by the closing task, never by both (Mutex<Option<Worker>> in supervisor.rs).
THEOREM SlotIsExclusive == Spec => []SlotExclusive
<1>1. Init => SlotExclusive
  BY DEF Init, SlotExclusive, Locking, Armed
<1>2. TypeOK /\ SlotExclusive /\ [Next]_vars => SlotExclusive'
  <2> SUFFICES ASSUME TypeOK, SlotExclusive, [Next]_vars PROVE SlotExclusive'
    OBVIOUS
  <2>1. ASSUME NEW r \in Runs, LockMove(r) PROVE SlotExclusive'
    <3>1. pc \in [Runs -> PC]  BY DEF TypeOK
    <3>2. \A q \in Runs \ {r} : pc'[q] = pc[q]  BY <2>1, <3>1 DEF LockMove
    <3>3. CASE slotLock' = slotLock  BY <2>1, <3>2, <3>3 DEF LockMove, SlotExclusive
    <3>4. CASE slotLock' # slotLock  BY <2>1, <3>2, <3>4 DEF LockMove, SlotExclusive
    <3> QED  BY <3>3, <3>4
  <2>2. CASE \E r \in Runs : Arrival(r) \/ Step(r) \/ WorkerEvent(r) \/ Abandon(r)
    BY <2>1, <2>2, LockMoves DEF TypeOK
  <2>3. CASE Close
    <3>1. pc' = pc  BY <2>3 DEF Close
    <3>2. \/ slotLock' = slotLock /\ (closer' = "stopping" <=> closer = "stopping")
          \/ slotLock = NoRun /\ slotLock' = Closer /\ closer' = "stopping"
          \/ closer = "stopping" /\ slotLock' = NoRun /\ closer' = "closed"
      BY <2>3 DEF Close, BeginClose, CancelActive, TakeBackground, Joined, JoinTimeout,
                  CloserLock, CloserStop, DropSupervisor, CloserGoto
    <3> QED  BY <3>1, <3>2 DEF SlotExclusive
  <2>4. CASE UNCHANGED <<pc, slotLock, closer>>  BY <2>4 DEF SlotExclusive
  <2>5. Environment \/ UNCHANGED vars => UNCHANGED <<pc, slotLock, closer>>
    BY DEF Environment, Outer, close, vars
  <2> QED  BY <2>2, <2>3, <2>4, <2>5 DEF Next, Quiescent
<1> QED  BY <1>1, <1>2, TypeCorrect, PTL DEF Spec

-----------------------------------------------------------------------------
(* The reservation.  SingleFlight is not inductive: a run that has been         *)
(* released must no longer be the active one, so the active run is also still   *)
(* before the point where its answer or its abandonment retracts it.            *)

Visible == {"begin", "checks", "lock", "answer", "dropping"} \cup Locking

ReservationInv == /\ SingleFlight
                  /\ active # NoRun => pc[active] \in Visible

OwnerMove(r) ==
    /\ pc' = [pc EXCEPT ![r] = pc'[r]]
    /\ \/ busy' = busy /\ (pc'[r] \in Owning \cup Locking <=> pc[r] \in Owning \cup Locking)
       \/ busy = FALSE /\ busy' = TRUE /\ pc'[r] \in Owning \cup Locking
       \/ pc[r] = "release" /\ busy' = FALSE /\ pc'[r] \notin Owning \cup Locking
    /\ \/ active' = active /\ (pc[r] \in Visible => pc'[r] \in Visible)
       \/ active' = NoRun
       \/ active' = r /\ pc[r] = "admit" /\ pc'[r] \in Visible

LEMMA OwnerMoves ==
    ASSUME NEW r \in Runs, pc \in [Runs -> PC], busy \in BOOLEAN,
           Arrival(r) \/ Step(r) \/ WorkerEvent(r) \/ Abandon(r)
    PROVE  OwnerMove(r)
<1> USE DEF Owning, Locking, Armed, Visible, OwnerMove
<1>1. CASE Arrival(r)  BY <1>1 DEF Arrival, Arrive, Goto
<1>2. CASE Admission(r)
  BY <1>2 DEF Admission, Reserve, Inspect, Wait, Admit, StoreHandle, Goto
<1>3. CASE Preparation(r)
  BY <1>3 DEF Preparation, Begin, Checks, TryLock, StopWorker, Stopped, StartWorker,
              Spawned, SpawnFails, Take, Refuse, Goto
<1>4. CASE Execution(r)
  BY <1>4 DEF Execution, CancelDispatch, Send, Sent, SendFails, Settle, Interrupt,
              GraceExpires, PutBack, Retire, Terminated, Finish, Goto, ExecutionFrame
<1>5. CASE WorkerEvent(r)
  BY <1>5 DEF WorkerEvent, WorkerResult, WorkerLost, Settle, ExecutionFrame
<1>6. CASE Completion(r)
  BY <1>6 DEF Completion, Answer, Record, DropReservation, RecordAbandoned, Release,
              Notify, Goto
<1>7. CASE Abandon(r)
  BY <1>7 DEF Abandon, AbandonWait, AbandonPreparing, AbandonGuarded, Goto
<1> QED  BY <1>1, <1>2, <1>3, <1>4, <1>5, <1>6, <1>7 DEF Step

LEMMA Reservation == Spec => []ReservationInv
<1>1. Init => ReservationInv
  BY DEF Init, ReservationInv, SingleFlight, Owner, Owning, Locking, Armed
<1>2. TypeOK /\ ReservationInv /\ [Next]_vars => ReservationInv'
  <2> SUFFICES ASSUME TypeOK, ReservationInv, [Next]_vars PROVE ReservationInv'
    OBVIOUS
  <2>0. pc \in [Runs -> PC] /\ busy \in BOOLEAN /\ active \in Runs \cup {NoRun}
    BY DEF TypeOK, RunOrNone
  <2>1. ASSUME NEW r \in Runs, OwnerMove(r) PROVE ReservationInv'
    <3>1. \A q \in Runs \ {r} : pc'[q] = pc[q]  BY <2>0, <2>1 DEF OwnerMove
    <3>2. (\A p, q \in Runs : Owner(p) /\ Owner(q) => p = q)'
      BY <2>0, <2>1, <3>1 DEF OwnerMove, ReservationInv, SingleFlight, Owner, Owning
    <3>3. (busy <=> \E q \in Runs : Owner(q))'
      BY <2>0, <2>1, <3>1 DEF OwnerMove, ReservationInv, SingleFlight, Owner, Owning
    <3>4. (active # NoRun => pc[active] \in Visible)'
      BY <2>0, <2>1, <3>1 DEF OwnerMove, ReservationInv
    <3>5. Visible \subseteq Owning \cup Locking  BY DEF Visible, Owning
    <3>6. active' \in Runs \cup {NoRun}  BY <2>0, <2>1 DEF OwnerMove
    <3>7. (active # NoRun => Owner(active))'
      BY <3>4, <3>5, <3>6 DEF Owner
    <3> QED  BY <3>2, <3>3, <3>4, <3>7 DEF ReservationInv, SingleFlight
  <2>2. CASE \E r \in Runs : Arrival(r) \/ Step(r) \/ WorkerEvent(r) \/ Abandon(r)
    BY <2>0, <2>1, <2>2, OwnerMoves
  <2>3. CASE UNCHANGED <<pc, busy, active>>
    BY <2>3 DEF ReservationInv, SingleFlight, Owner
  <2>4. Close \/ Environment \/ UNCHANGED vars => UNCHANGED <<pc, busy, active>>
    BY DEF Close, Environment, Outer, vars
  <2> QED  BY <2>2, <2>3, <2>4 DEF Next, Quiescent
<1> QED  BY <1>1, <1>2, TypeCorrect, PTL DEF Spec

\* One cell at a time per session: the busy flag is set exactly while one request
\* owns the reservation, and only that request is the active run (reserve,
\* Reservation::drop).
THEOREM OneCellAtATime == Spec => []SingleFlight
<1>1. ReservationInv => SingleFlight  BY DEF ReservationInv
<1> QED  BY <1>1, Reservation, PTL

-----------------------------------------------------------------------------
(* Notification.  A request registers before it tries to reserve, so between a *)
(* failed attempt and its wait the holder is still busy or about to notify.    *)

WakeupInv ==
    \A r \in Runs : pc[r] \in {"inspect", "wait"} =>
        /\ ~Background(r)
        /\ woken[r] \/ busy \/ \E q \in Runs : pc[q] = "notify"

\* How a step of r touches what the wait of a request depends on.
WakeMove(r) ==
    /\ pc' = [pc EXCEPT ![r] = pc'[r]]
    /\ pc[r] # "idle" => request' = request
    /\ \A q \in Runs \ {r} : request'[q] = request[q] /\ (woken[q] => woken'[q])
    /\ pc'[r] \in {"inspect", "wait"} =>
          \/ busy' /\ ~Background(r) /\ pc[r] # "idle"
          \/ pc[r] \in {"inspect", "wait"} /\ woken'[r] = woken[r]
    /\ busy => busy' \/ pc'[r] = "notify"
    /\ pc[r] = "notify" /\ pc'[r] # "notify" =>
          \A q \in Runs : Registered(q) => woken'[q]

LEMMA WakeMoves ==
    ASSUME NEW r \in Runs, pc \in [Runs -> PC], request \in [Runs -> Request],
           woken \in [Runs -> BOOLEAN], busy \in BOOLEAN,
           Arrival(r) \/ Step(r) \/ WorkerEvent(r) \/ Abandon(r)
    PROVE  WakeMove(r)
<1> USE DEF WakeMove
<1>1. CASE Arrival(r)  BY <1>1 DEF Arrival, Arrive, Goto
<1>2. CASE Admission(r)
  BY <1>2 DEF Admission, Reserve, Inspect, Wait, Admit, StoreHandle, Goto, Background
<1>3. CASE Preparation(r)
  BY <1>3 DEF Preparation, Begin, Checks, TryLock, StopWorker, Stopped, StartWorker,
              Spawned, SpawnFails, Take, Refuse, Goto
<1>4. CASE Execution(r)
  BY <1>4 DEF Execution, CancelDispatch, Send, Sent, SendFails, Settle, Interrupt,
              GraceExpires, PutBack, Retire, Terminated, Finish, Goto, ExecutionFrame, Armed
<1>5. CASE WorkerEvent(r)
  BY <1>5 DEF WorkerEvent, WorkerResult, WorkerLost, Settle, ExecutionFrame
<1>6. CASE Completion(r)
  BY <1>6 DEF Completion, Answer, Record, DropReservation, RecordAbandoned, Release,
              Notify, Goto
<1>7. CASE Abandon(r)
  BY <1>7 DEF Abandon, AbandonWait, AbandonPreparing, AbandonGuarded, Goto, Armed
<1> QED  BY <1>1, <1>2, <1>3, <1>4, <1>5, <1>6, <1>7 DEF Step

\* A request that waits for the reservation is never left asleep: while it has no
\* notification, someone still owes it one (execute_request's loop against
\* Reservation::drop).
THEOREM NoWakeupIsLost == Spec => []NoLostWakeup
<1>1. Init => WakeupInv
  BY DEF Init, WakeupInv
<1>2. TypeOK /\ WakeupInv /\ [Next]_vars => WakeupInv'
  <2> SUFFICES ASSUME TypeOK, WakeupInv, [Next]_vars PROVE WakeupInv'
    OBVIOUS
  <2>0. /\ pc \in [Runs -> PC] /\ request \in [Runs -> Request]
        /\ woken \in [Runs -> BOOLEAN] /\ busy \in BOOLEAN
    BY DEF TypeOK
  <2>1. ASSUME NEW r \in Runs, WakeMove(r), NEW q \in Runs, pc'[q] \in {"inspect", "wait"}
        PROVE  /\ ~Background(q)'
               /\ woken'[q] \/ busy' \/ \E p \in Runs : pc'[p] = "notify"
    <3>1. pc'[r] = "notify" \/ ~(busy /\ ~busy')  BY <2>1, <2>0 DEF WakeMove
    <3>2. CASE q = r
      <4>1. CASE busy' /\ ~Background(r) /\ pc[r] # "idle"
        BY <2>1, <3>2, <4>1 DEF WakeMove, Background
      <4>2. CASE pc[r] \in {"inspect", "wait"} /\ woken'[r] = woken[r]
        <5>1. ~Background(r)' BY <2>1, <3>2, <4>2 DEF WakeMove, Background, WakeupInv
        <5>2. woken[r] \/ busy \/ \E p \in Runs \ {r} : pc[p] = "notify"
          BY <4>2 DEF WakeupInv
        <5>3. \A p \in Runs \ {r} : pc'[p] = pc[p]  BY <2>0, <2>1 DEF WakeMove
        <5> QED  BY <3>1, <3>2, <4>2, <5>1, <5>2, <5>3
      <4> QED  BY <2>1, <3>2, <4>1, <4>2 DEF WakeMove
    <3>3. CASE q # r
      <4>1. \A p \in Runs \ {r} : pc'[p] = pc[p]  BY <2>0, <2>1 DEF WakeMove
      <4>2. pc[q] \in {"inspect", "wait"}  BY <2>1, <3>3, <4>1
      <4>3. ~Background(q)'  BY <2>1, <3>3, <4>2 DEF WakeMove, WakeupInv, Background
      <4>4. woken[q] => woken'[q]  BY <2>1, <3>3 DEF WakeMove
      <4>5. pc[r] = "notify" /\ pc'[r] # "notify" => woken'[q]
        BY <2>1, <4>2 DEF WakeMove, WakeupInv, Registered
      <4>6. woken[q] \/ busy \/ \E p \in Runs : pc[p] = "notify"
        BY <4>2 DEF WakeupInv
      <4> QED  BY <3>1, <4>1, <4>3, <4>4, <4>5, <4>6
    <3> QED  BY <3>2, <3>3
  <2>2. CASE \E r \in Runs : Arrival(r) \/ Step(r) \/ WorkerEvent(r) \/ Abandon(r)
    BY <2>0, <2>1, <2>2, WakeMoves DEF WakeupInv
  <2>3. CASE UNCHANGED <<pc, busy, request, woken>>
    BY <2>3 DEF WakeupInv, Background
  <2>4. Close \/ Environment \/ UNCHANGED vars => UNCHANGED <<pc, busy, request, woken>>
    BY DEF Close, Environment, Outer, vars
  <2> QED  BY <2>2, <2>3, <2>4 DEF Next, Quiescent
<1>3. WakeupInv => NoLostWakeup  BY DEF WakeupInv, NoLostWakeup
<1> QED  BY <1>1, <1>2, <1>3, TypeCorrect, PTL DEF Spec
=============================================================================

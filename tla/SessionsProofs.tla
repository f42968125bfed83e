---------------------------- MODULE SessionsProofs ----------------------------
(* Theorems about the session manager, for any number of opens and projects. *)
EXTENDS Sessions, TLAPS, FiniteSetTheorems

USE SessionsAssumption

-----------------------------------------------------------------------------
(* The parts of the inductive invariant.                                     *)

\* An open that has not published a session has left no trace of one.
Unborn(s) == s \in Opens /\ pc[s] # "open"
Births == \A s \in Sess : Unborn(s) =>
    /\ s \notin sessions \cup owners \cup ended \cup closed
    /\ broker[s] = None /\ closing[s] = "no"

\* A session is in the table, and known to the store, until its end has begun.
Endings ==
    /\ closed \subseteq ended
    /\ server = "sessions" => batch \subseteq ended
    /\ \A s \in sessions : s \notin ended /\ s \in owners
    /\ \A s \in Sess : closing[s] # "no" => s \in ended
    /\ \A s \in Sess : closing[s] \in {"broker", "done"} => s \notin owners

\* A broker is in one place: in the table under one project, or on its way out.
Leaving(b) == \/ b \in down
              \/ \E s \in Sess : hand[s] = b
              \/ server \in {"brokers", "stopped"} /\ b \in batch
Unused(o) == pc[o] \notin {"open", "failed"}
OnePlace ==
    /\ \A p \in Projects : brokers[p] # None => ~Leaving(brokers[p])
    /\ \A p, q \in Projects : brokers[p] # None /\ brokers[p] = brokers[q] => p = q
    /\ \A o \in Opens : Unused(o) =>
          ~Leaving(o) /\ \A p \in Projects : brokers[p] # o
    /\ \A s \in Sess : /\ hand[s] # None => AtWork(s)
                       /\ closing[s] = "broker" => hand[s] # None

\* Before the brokers are drained, a session has the one of its project.
Listed == server \in {"up", "sessions"} => \A s \in sessions :
    brokers[project[s]] # None /\ broker[s] = brokers[project[s]]
-----------------------------------------------------------------------------
(* Types.                                                                    *)

Types ==
    /\ sessions \subseteq Sess /\ owners \subseteq Sess /\ probes \subseteq Opens
    /\ brokers \in [Projects -> Sess \cup {None}]
    /\ project \in [Sess -> Projects] /\ broker \in [Sess -> Sess \cup {None}]
    /\ ended \subseteq Sess /\ closed \subseteq Sess /\ down \subseteq Sess
    /\ pc \in [Opens -> {"idle", "preparing", "probing", "open", "failed"}]
    /\ job \in [Opens -> {"none", "running", "done"}]
    /\ closing \in [Sess -> {"no", "supervisor", "owner", "broker", "done"}]
    /\ hand \in [Sess -> Sess \cup {None}]
    /\ server \in {"up", "sessions", "brokers", "stopped"} /\ batch \subseteq Sess
    /\ unlisted \subseteq Opens

LEMMA StepTypes ==
    ASSUME Types, OnePlace, [Next]_vars
    PROVE  Types'
<1>s. Opens \subseteq Sess  BY DEF Sess
<1> USE <1>s DEF tables, facts, requests, closes, Types
<1>1. ASSUME NEW o \in Opens, Open(o) PROVE Types'
  <2>1. UNCHANGED <<ended, closed, down, closes, server, batch>>  BY <1>1 DEF Open
  <2>2. CASE Admit(o)
    BY <2>1, <2>2 DEF Admit, Goes
  <2>3. CASE Prepare(o) \/ Fail(o)
    BY <2>1, <2>3 DEF Prepare, Fail, Goes, StartProbe, StopProbe
  <2>4. CASE Publish(o)
    <3>1. probes' = probes \ {o} /\ UNCHANGED <<project, job>>
      BY <2>4 DEF Publish, StopProbe
    <3>2. brokers' \in [Projects -> Sess \cup {None}]
      BY <2>4 DEF Publish, Insert
    <3>3. brokers'[project[o]] \in Sess \cup {None}  BY <3>2
    <3> QED  BY <2>1, <2>4, <3>1, <3>2, <3>3 DEF Publish, Goes
  <2> QED  BY <1>1, <2>2, <2>3, <2>4 DEF Open
<1>2. ASSUME NEW s \in Sess, Close(s) PROVE Types'
  <2>1. UNCHANGED <<facts, requests, server, batch, unlisted>>  BY <1>2 DEF Close
  <2>2. CASE Detach(s)  BY <2>1, <2>2 DEF Detach, Continues
  <2>3. CASE CloseSupervisor(s) \/ RemoveOwner(s)
    BY <2>1, <2>3 DEF CloseSupervisor, RemoveOwner, Continues
  <2>4. CASE ShutBroker(s)
    <3>1. hand[s] \in Sess  BY <2>4 DEF ShutBroker, OnePlace
    <3> QED  BY <2>1, <2>4, <3>1 DEF ShutBroker, Continues
  <2> QED  BY <1>2, <2>2, <2>3, <2>4 DEF Close
<1>3. CASE Stop
  BY <1>3 DEF Stop, Drain, CloseBatch, DrainBrokers, ShutBatch
<1>4. CASE UNCHANGED vars
  BY <1>4 DEF vars
<1> QED  BY <1>1, <1>2, <1>3, <1>4 DEF Next, Quiet

-----------------------------------------------------------------------------
(* Sessions.                                                                 *)

LEMMA StepBirths ==
    ASSUME Types, Births, Endings, [Next]_vars
    PROVE  Births'
<1>s. Opens \subseteq Sess  BY DEF Sess
<1> USE <1>s DEF tables, facts, requests, closes, Types
<1>1. ASSUME NEW o \in Opens, Open(o) PROVE Births'
  <2>1. UNCHANGED <<ended, closed, closes>>  BY <1>1 DEF Open
  <2>2. \A s \in Sess : Unborn(s)' => Unborn(s)
    BY <1>1 DEF Open, Admit, Prepare, Fail, Publish, Goes, Unborn
  <2>3. \A s \in Sess : Unborn(s)' =>
           /\ s \in sessions' => s \in sessions
           /\ s \in owners' => s \in owners
           /\ broker'[s] = broker[s]
    BY <1>1 DEF Open, Admit, Prepare, Fail, Publish, Goes, Unborn
  <2> QED  BY <2>1, <2>2, <2>3 DEF Births
<1>2. ASSUME NEW s \in Sess, Close(s) PROVE Births'
  <2>1. UNCHANGED <<facts, requests>>  BY <1>2 DEF Close
  <2>2. ~Unborn(s)
    BY <1>2 DEF Births, Close, Detach, CloseSupervisor, RemoveOwner, ShutBroker
  <2>3. /\ sessions' \subseteq sessions /\ owners' \subseteq owners
        /\ ended' \subseteq ended \cup {s} /\ closed' \subseteq closed \cup {s}
        /\ \A t \in Sess \ {s} : closing'[t] = closing[t]
    BY <1>2 DEF Close, Detach, CloseSupervisor, RemoveOwner, ShutBroker, Continues
  <2> QED  BY <2>1, <2>2, <2>3 DEF Births, Unborn
<1>3. CASE Stop
  <2>1. UNCHANGED <<facts, requests, closes, owners>>  BY <1>3 DEF Stop
  <2>2. /\ sessions' \subseteq sessions /\ ended' \subseteq ended \cup sessions
        /\ closed' \subseteq closed \cup ended
    BY <1>3 DEF Stop, Drain, CloseBatch, DrainBrokers, ShutBatch, Endings
  <2> QED  BY <2>1, <2>2 DEF Births, Unborn
<1>4. CASE UNCHANGED vars
  BY <1>4 DEF vars, Births, Unborn
<1> QED  BY <1>1, <1>2, <1>3, <1>4 DEF Next, Quiet

LEMMA StepEndings ==
    ASSUME Types, Births, Endings, [Next]_vars
    PROVE  Endings'
<1>s. Opens \subseteq Sess  BY DEF Sess
<1> USE <1>s DEF tables, facts, requests, closes, Types
<1>1. ASSUME NEW o \in Opens, Open(o) PROVE Endings'
  <2>1. UNCHANGED <<ended, closed, closes, server, batch>>  BY <1>1 DEF Open
  <2>2. \/ UNCHANGED <<sessions, owners>>
        \/ pc[o] = "probing" /\ sessions' = sessions \cup {o} /\ owners' = owners \cup {o}
    BY <1>1 DEF Open, Admit, Prepare, Fail, Publish
  <2>3. pc[o] = "probing" => o \notin ended /\ closing[o] = "no"
    BY DEF Births, Unborn
  <2> QED  BY <2>1, <2>2, <2>3 DEF Endings
<1>2. ASSUME NEW s \in Sess, Close(s) PROVE Endings'
  <2>1. UNCHANGED <<facts, requests, server, batch>>  BY <1>2 DEF Close
  <2>2. CASE Detach(s)  BY <2>1, <2>2 DEF Detach, Continues, Endings
  <2>3. CASE CloseSupervisor(s)  BY <2>1, <2>3 DEF CloseSupervisor, Continues, Endings
  <2>4. CASE RemoveOwner(s)  BY <2>1, <2>4 DEF RemoveOwner, Continues, Endings
  <2>5. CASE ShutBroker(s)  BY <2>1, <2>5 DEF ShutBroker, Continues, Endings
  <2> QED  BY <1>2, <2>2, <2>3, <2>4, <2>5 DEF Close
<1>3. CASE Stop
  BY <1>3 DEF Stop, Drain, CloseBatch, DrainBrokers, ShutBatch, Endings
<1>4. CASE UNCHANGED vars
  BY <1>4 DEF vars, Endings
<1> QED  BY <1>1, <1>2, <1>3, <1>4 DEF Next, Quiet

-----------------------------------------------------------------------------
(* Brokers.                                                                  *)

LEMMA StepOnePlace ==
    ASSUME Types, Births, OnePlace, [Next]_vars
    PROVE  OnePlace'
<1>s. Opens \subseteq Sess /\ None \notin Opens  BY DEF Sess
<1> USE <1>s DEF tables, facts, requests, closes, Types
<1>1. ASSUME NEW o \in Opens, Open(o) PROVE OnePlace'
  <2>1. UNCHANGED <<down, closing, hand, server, batch>>  BY <1>1 DEF Open, closes
  <2>2. \A b : Leaving(b)' <=> Leaving(b)  BY <2>1 DEF Leaving
  <2>3. \A q \in Opens : Unused(q)' => Unused(q)
    BY <1>1 DEF Open, Admit, Prepare, Fail, Publish, Goes, Unused
  <2>4. CASE brokers' = brokers
    BY <2>1, <2>2, <2>3, <2>4 DEF OnePlace, AtWork
  <2>5. CASE brokers' # brokers
    <3>1. /\ pc[o] = "probing" /\ Insert(o) /\ ~Unused(o)'
      BY <1>1, <2>5 DEF Open, Admit, Prepare, Fail, Publish, Goes, Unused
    <3>2. /\ brokers[project[o]] = None /\ brokers' = [brokers EXCEPT ![project[o]] = o]
          /\ project[o] \in Projects
      BY <2>5, <3>1 DEF Insert
    <3>3. ~Leaving(o) /\ \A p \in Projects : brokers[p] # o
      BY <3>1 DEF OnePlace, Unused
    <3>4. \A p \in Projects : brokers'[p] = IF p = project[o] THEN o ELSE brokers[p]  BY <3>2
    <3>5. (\A p \in Projects : brokers[p] # None => ~Leaving(brokers[p]))'
      BY <2>2, <3>3, <3>4 DEF OnePlace
    <3>6. (\A p, q \in Projects : brokers[p] # None /\ brokers[p] = brokers[q] => p = q)'
      BY <3>3, <3>4 DEF OnePlace
    <3>7. (\A q \in Opens : Unused(q) =>
              ~Leaving(q) /\ \A p \in Projects : brokers[p] # q)'
      BY <2>2, <2>3, <3>1, <3>4 DEF OnePlace
    <3> QED  BY <2>1, <3>5, <3>6, <3>7 DEF OnePlace, AtWork
  <2> QED  BY <2>4, <2>5
<1>2. ASSUME NEW s \in Sess, Close(s) PROVE OnePlace'
  <2>1. UNCHANGED <<project, pc, server, batch>>  BY <1>2 DEF Close
  <2>2. CASE Detach(s)
    <3>1. /\ down' = down /\ closing[s] = "no" /\ closing'[s] = "supervisor"
          /\ \A t \in Sess \ {s} : closing'[t] = closing[t]
      BY <2>2 DEF Detach, Continues
    <3>2. hand[s] = None  BY <3>1 DEF OnePlace, AtWork
    <3>3. CASE Last(s)
      <4>1. /\ hand' = [hand EXCEPT ![s] = brokers[project[s]]]
            /\ brokers' = [brokers EXCEPT ![project[s]] = None]
        BY <2>2, <3>3 DEF Detach
      <4>2. \A b : b # None /\ Leaving(b)' => Leaving(b) \/ b = brokers[project[s]]
        BY <2>1, <3>1, <4>1 DEF Leaving
      <4>3. project[s] \in Projects /\ \A p \in Projects :
               brokers'[p] = IF p = project[s] THEN None ELSE brokers[p]
        BY <4>1
      <4>4. (\A p \in Projects : brokers[p] # None => ~Leaving(brokers[p]))'
        BY <4>2, <4>3 DEF OnePlace
      <4>5. (\A p, q \in Projects : brokers[p] # None /\ brokers[p] = brokers[q] => p = q)'
        BY <4>3 DEF OnePlace
      <4>6. (\A o \in Opens : Unused(o) =>
                ~Leaving(o) /\ \A p \in Projects : brokers[p] # o)'
        BY <2>1, <4>2, <4>3 DEF OnePlace, Unused
      <4>7. (\A t \in Sess : /\ hand[t] # None => AtWork(t)
                             /\ closing[t] = "broker" => hand[t] # None)'
        BY <3>1, <4>1 DEF OnePlace, AtWork
      <4> QED  BY <4>4, <4>5, <4>6, <4>7 DEF OnePlace
    <3>4. CASE ~Last(s)
      <4>1. UNCHANGED <<hand, brokers>>  BY <2>2, <3>4 DEF Detach
      <4> QED  BY <2>1, <3>1, <3>2, <4>1 DEF OnePlace, AtWork, Leaving, Unused
    <3> QED  BY <3>3, <3>4
  <2>3. CASE CloseSupervisor(s) \/ RemoveOwner(s)
    <3>1. UNCHANGED <<brokers, down, hand>>
      BY <2>3 DEF CloseSupervisor, RemoveOwner
    <3>2. \A t \in Sess : /\ hand[t] # None => AtWork(t)'
                          /\ closing'[t] = "broker" => hand[t] # None
      BY <2>3 DEF CloseSupervisor, RemoveOwner, Continues, OnePlace, AtWork
    <3> QED  BY <2>1, <3>1, <3>2 DEF OnePlace, Leaving, Unused
  <2>4. CASE ShutBroker(s)
    <3>1. /\ brokers' = brokers /\ down' = down \cup {hand[s]} /\ hand' = [hand EXCEPT ![s] = None]
          /\ closing' = [closing EXCEPT ![s] = "done"]
      BY <2>4 DEF ShutBroker, Continues
    <3>2. \A b : b # None /\ Leaving(b)' => Leaving(b)  BY <2>1, <3>1 DEF Leaving
    <3>3. (\A t \in Sess : /\ hand[t] # None => AtWork(t)
                           /\ closing[t] = "broker" => hand[t] # None)'
      BY <3>1 DEF OnePlace, AtWork
    <3> QED  BY <2>1, <3>1, <3>2, <3>3 DEF OnePlace, Unused
  <2> QED  BY <1>2, <2>2, <2>3, <2>4 DEF Close
<1>3. CASE Stop
  <2>1. UNCHANGED <<pc, closing, hand>>  BY <1>3 DEF Stop
  <2>2. CASE Drain \/ CloseBatch
    <3>1. UNCHANGED <<brokers, down>> /\ server \notin {"brokers", "stopped"}
          /\ server' \notin {"brokers", "stopped"}
      BY <2>2 DEF Drain, CloseBatch
    <3> QED  BY <2>1, <3>1 DEF OnePlace, Leaving, Unused, AtWork
  <2>3. CASE DrainBrokers
    <3>1. /\ down' = down /\ batch' = {brokers[p] : p \in Projects} \ {None}
          /\ \A p \in Projects : brokers'[p] = None
      BY <2>3 DEF DrainBrokers
    <3>2. \A o \in Opens : Unused(o)' => ~Leaving(o)'
      BY <2>1, <3>1 DEF OnePlace, Leaving, Unused
    <3> QED  BY <2>1, <3>1, <3>2 DEF OnePlace, AtWork
  <2>4. CASE ShutBatch
    <3>1. brokers' = brokers /\ server = "brokers" /\ server' \in {"brokers", "stopped"}
          /\ batch' \subseteq batch /\ down' \subseteq down \cup batch
      BY <2>4 DEF ShutBatch
    <3>2. \A b : Leaving(b)' => Leaving(b)  BY <2>1, <3>1 DEF Leaving
    <3> QED  BY <2>1, <3>1, <3>2 DEF OnePlace, Unused, AtWork
  <2> QED  BY <1>3, <2>2, <2>3, <2>4 DEF Stop
<1>4. CASE UNCHANGED vars
  BY <1>4 DEF vars, OnePlace, Leaving, Unused, AtWork
<1> QED  BY <1>1, <1>2, <1>3, <1>4 DEF Next, Quiet

LEMMA StepListed ==
    ASSUME Types, Births, Listed, [Next]_vars
    PROVE  Listed'
<1>s. Opens \subseteq Sess /\ None \notin Opens  BY DEF Sess
<1> USE <1>s DEF tables, facts, requests, closes, Types
<1>1. ASSUME NEW o \in Opens, Open(o), server \in {"up", "sessions"} PROVE Listed'
  <2>1. server' = server  BY <1>1 DEF Open
  <2>2. pc[o] # "open" => o \notin sessions  BY DEF Births, Unborn
  <2>3. CASE Admit(o)
    <3>1. o \notin sessions /\ UNCHANGED <<sessions, brokers, broker>>
          /\ \A s \in Sess \ {o} : project'[s] = project[s]
      BY <2>2, <2>3 DEF Admit
    <3> QED  BY <1>1, <3>1 DEF Listed
  <2>4. CASE Prepare(o) \/ Fail(o)
    BY <1>1, <2>1, <2>4 DEF Prepare, Fail, Listed
  <2>5. CASE Publish(o)
    <3>1. project' = project /\ brokers' \in [Projects -> Sess \cup {None}]
          /\ \A p \in Projects : brokers[p] # None => brokers'[p] = brokers[p]
      BY <2>5 DEF Publish, Insert
    <3>2. o \notin sessions  BY <2>2, <2>5 DEF Publish
    <3>3. \/ sessions' = sessions /\ broker' = broker
          \/ /\ sessions' = sessions \cup {o} /\ broker' = [broker EXCEPT ![o] = brokers'[project[o]]]
             /\ Insert(o)
      BY <2>5 DEF Publish
    <3>4. Insert(o) => brokers'[project[o]] # None  BY DEF Insert
    <3>5. \A s \in sessions : brokers'[project[s]] # None /\ broker'[s] = brokers'[project[s]]
      BY <1>1, <3>1, <3>2, <3>3 DEF Listed
    <3> QED  BY <3>1, <3>3, <3>4, <3>5 DEF Listed
  <2> QED  BY <1>1, <2>3, <2>4, <2>5 DEF Open
<1>2. ASSUME NEW s \in Sess, Close(s), server \in {"up", "sessions"} PROVE Listed'
  <2>1. UNCHANGED <<project, broker>>  BY <1>2 DEF Close
  <2>2. CASE Detach(s)
    <3>1. sessions' = sessions \ {s}  BY <2>2 DEF Detach
    <3>2. CASE Last(s)
      <4>1. brokers' = [brokers EXCEPT ![project[s]] = None]  BY <2>2, <3>2 DEF Detach
      <4>2. \A t \in sessions' : project[t] # project[s]  BY <3>1, <3>2 DEF Last
      <4>3. \A t \in sessions' : project[t] \in Projects /\ brokers'[project[t]] = brokers[project[t]]
        BY <3>1, <4>1, <4>2
      <4> QED  BY <1>2, <2>1, <3>1, <4>3 DEF Listed
    <3>3. CASE ~Last(s)
      BY <1>2, <2>1, <2>2, <3>1, <3>3 DEF Detach, Listed
    <3> QED  BY <3>2, <3>3
  <2>3. CASE ~Detach(s)
    BY <1>2, <2>1, <2>3 DEF Close, CloseSupervisor, RemoveOwner, ShutBroker, Listed
  <2> QED  BY <2>2, <2>3
<1>3. CASE Stop
  BY <1>3 DEF Stop, Drain, CloseBatch, DrainBrokers, ShutBatch, Listed
<1>4. CASE UNCHANGED vars
  BY <1>4 DEF vars, Listed
<1>5. (\E o \in Opens : Open(o)) \/ (\E s \in Sess : Close(s)) => server' = server
  BY DEF Open, Close
<1>6. CASE server \notin {"up", "sessions"} /\ server' = server
  BY <1>6 DEF Listed
<1> QED  BY <1>1, <1>2, <1>3, <1>4, <1>5, <1>6 DEF Next, Quiet

-----------------------------------------------------------------------------
(* The theorems.                                                             *)

SessInv == Types /\ Births /\ Endings /\ OnePlace /\ Listed

LEMMA SessInvariant == Spec => []SessInv
<1>1. Init => SessInv
  <2> SUFFICES ASSUME Init PROVE SessInv
    OBVIOUS
  <2>s. Opens \subseteq Sess /\ Default \in Sess  BY DEF Sess
  <2> USE <2>s DEF Init
  <2>1. Types  BY DEF Types
  <2>2. Births  BY DEF Births, Unborn
  <2>3. Endings  BY DEF Endings
  <2>4. OnePlace  BY DEF OnePlace, Leaving, AtWork
  <2>5. Listed  BY DEF Listed
  <2> QED  BY <2>1, <2>2, <2>3, <2>4, <2>5 DEF SessInv
<1>2. SessInv /\ [Next]_vars => SessInv'
  BY StepTypes, StepBirths, StepEndings, StepOnePlace, StepListed DEF SessInv
<1> QED  BY <1>1, <1>2, PTL DEF Spec

\* A session that a client can find is alive, known to the artifact store, and has the one
\* broker of its project, whatever opens and closes go on around it (open, close).
THEOREM FoundSessionsAreWhole == Spec => []SessionsAreWhole
<1>1. SessInv => SessionsAreWhole
  <2> SUFFICES ASSUME SessInv, server = "up", NEW s \in sessions
               PROVE  /\ s \notin ended \cup closed /\ s \in owners
                      /\ broker[s] = brokers[project[s]] /\ broker[s] \notin down
    BY DEF SessionsAreWhole
  <2>1. s \notin ended \cup closed /\ s \in owners  BY DEF SessInv, Endings
  <2>2. broker[s] = brokers[project[s]] /\ brokers[project[s]] # None  BY DEF SessInv, Listed
  <2>3. project[s] \in Projects  BY DEF SessInv, Types
  <2>4. broker[s] \notin down  BY <2>2, <2>3 DEF SessInv, OnePlace, Leaving
  <2> QED  BY <2>1, <2>2, <2>4
<1> QED  BY <1>1, SessInvariant, PTL

-----------------------------------------------------------------------------
(* What opens and closes leave behind.                                       *)

Probed == probes = {o \in Opens : pc[o] = "probing"}

LEMMA StepProbed ==
    ASSUME Types, Probed, [Next]_vars
    PROVE  Probed'
<1> USE DEF requests, Types
<1>1. ASSUME NEW o \in Opens, Open(o) PROVE Probed'
  <2>1. CASE Admit(o)  BY <2>1 DEF Admit, Goes, Probed
  <2>2. CASE Prepare(o)  BY <2>2 DEF Prepare, Goes, StartProbe, Probed
  <2>3. CASE Fail(o)  BY <2>3 DEF Fail, Goes, StopProbe, Probed
  <2>4. CASE Publish(o)
    <3>1. \/ pc' = [pc EXCEPT ![o] = "failed"]
          \/ pc' = [pc EXCEPT ![o] = "open"]
      BY <2>4 DEF Publish, Goes
    <3>2. probes' = probes \ {o}  BY <2>4 DEF Publish, StopProbe
    <3> QED  BY <3>1, <3>2 DEF Probed
  <2> QED  BY <1>1, <2>1, <2>2, <2>3, <2>4 DEF Open
<1>2. CASE UNCHANGED requests
  BY <1>2 DEF Probed
<1> QED  BY <1>1, <1>2 DEF Next, Quiet, Close, Stop, vars

\* Every broker a session was given is shut down, or somebody will come to it.
Given(b) == \E s \in Sess : broker[s] = b
Awaited(b) == \/ \E p \in Projects : brokers[p] = b
              \/ \E s \in Sess : hand[s] = b /\ AtWork(s)
              \/ b \in batch /\ server = "brokers"
NoneLost == \A b \in Sess : Given(b) /\ b \notin down => Awaited(b)

LEMMA StepNoneLost ==
    ASSUME Types, OnePlace, NoneLost, [Next]_vars
    PROVE  NoneLost'
<1>s. Opens \subseteq Sess /\ None \notin Sess  BY DEF Sess
<1> USE <1>s DEF tables, facts, requests, closes, Types
<1>1. ASSUME NEW o \in Opens, Open(o) PROVE NoneLost'
  <2>1. UNCHANGED <<down, closing, hand, server, batch>>  BY <1>1 DEF Open
  <2>2. CASE UNCHANGED <<brokers, broker>>
    BY <2>1, <2>2 DEF NoneLost, Given, Awaited, AtWork
  <2>3. CASE Insert(o) /\ project' = project
             /\ (broker' = broker \/ broker' = [broker EXCEPT ![o] = brokers'[project[o]]])
    <3>1. \A b \in Sess : Awaited(b) => Awaited(b)'
      <4>1. \A p \in Projects : brokers[p] # None => brokers'[p] = brokers[p]
        BY <2>3 DEF Insert
      <4> QED  BY <2>1, <4>1 DEF Awaited, AtWork
    <3>2. \A b \in Sess : Given(b)' => Given(b) \/ b = brokers'[project[o]]
      BY <2>3 DEF Given
    <3>3. \A b \in Sess : b = brokers'[project[o]] => Awaited(b)'
      BY <2>3 DEF Awaited
    <3> QED  BY <2>1, <3>1, <3>2, <3>3 DEF NoneLost
  <2> QED  BY <1>1, <2>2, <2>3 DEF Open, Admit, Prepare, Fail, Publish
<1>2. ASSUME NEW s \in Sess, Close(s) PROVE NoneLost'
  <2>1. UNCHANGED <<broker, server, batch>>  BY <1>2 DEF Close
  <2>2. CASE Detach(s)
    <3>1. /\ down' = down /\ closing[s] = "no" /\ closing' = [closing EXCEPT ![s] = "supervisor"]
      BY <2>2 DEF Detach, Continues
    <3>2. hand[s] = None  BY <3>1 DEF OnePlace, AtWork
    <3>3. CASE Last(s)
      <4>1. /\ hand' = [hand EXCEPT ![s] = brokers[project[s]]]
            /\ brokers' = [brokers EXCEPT ![project[s]] = None]
        BY <2>2, <3>3 DEF Detach
      <4>2. \A b \in Sess : Awaited(b) => Awaited(b)'
        BY <2>1, <3>1, <3>2, <4>1 DEF Awaited, AtWork
      <4> QED  BY <2>1, <3>1, <4>2 DEF NoneLost, Given
    <3>4. CASE ~Last(s)
      <4>1. UNCHANGED <<hand, brokers>>  BY <2>2, <3>4 DEF Detach
      <4>2. \A b \in Sess : Awaited(b) => Awaited(b)'
        BY <2>1, <3>1, <3>2, <4>1 DEF Awaited, AtWork
      <4> QED  BY <2>1, <3>1, <4>2 DEF NoneLost, Given
    <3> QED  BY <3>3, <3>4
  <2>3. CASE CloseSupervisor(s) \/ RemoveOwner(s)
    <3>1. UNCHANGED <<brokers, down, hand>>
      BY <2>3 DEF CloseSupervisor, RemoveOwner
    <3>2. \A t \in Sess : hand[t] # None /\ AtWork(t) => AtWork(t)'
      BY <2>3 DEF CloseSupervisor, RemoveOwner, Continues, AtWork
    <3> QED  BY <2>1, <3>1, <3>2 DEF NoneLost, Given, Awaited
  <2>4. CASE ShutBroker(s)
    <3>1. /\ brokers' = brokers /\ down' = down \cup {hand[s]}
          /\ \A t \in Sess \ {s} : hand'[t] = hand[t] /\ closing'[t] = closing[t]
      BY <2>4 DEF ShutBroker, Continues
    <3>2. \A b \in Sess : Awaited(b) /\ b # hand[s] => Awaited(b)'
      BY <2>1, <3>1 DEF Awaited, AtWork
    <3> QED  BY <2>1, <3>1, <3>2 DEF NoneLost, Given
  <2> QED  BY <1>2, <2>2, <2>3, <2>4 DEF Close
<1>3. CASE Stop
  <2>1. UNCHANGED <<broker, closing, hand>>  BY <1>3 DEF Stop
  <2>2. \A b \in Sess : Awaited(b) => Awaited(b)' \/ b \in down'
    <3>1. CASE Drain \/ CloseBatch
      BY <2>1, <3>1 DEF Drain, CloseBatch, Awaited, AtWork
    <3>2. CASE DrainBrokers
      BY <2>1, <3>2 DEF DrainBrokers, Awaited, AtWork
    <3>3. CASE ShutBatch
      BY <2>1, <3>3 DEF ShutBatch, Awaited, AtWork
    <3> QED  BY <1>3, <3>1, <3>2, <3>3 DEF Stop
  <2>3. down \subseteq down'
    BY <1>3 DEF Stop, Drain, CloseBatch, DrainBrokers, ShutBatch
  <2> QED  BY <2>1, <2>2, <2>3 DEF NoneLost, Given
<1>4. CASE UNCHANGED vars
  BY <1>4 DEF vars, NoneLost, Given, Awaited, AtWork
<1> QED  BY <1>1, <1>2, <1>3, <1>4 DEF Next, Quiet

\* While the server is up, the store knows only sessions that are open or closing, and
\* a broker in the table has a session or was made for one that was refused.
Used(p) == (\E s \in sessions : project[s] = p) \/ brokers[p] \in unlisted
NoneIdle == server = "up" =>
    /\ \A s \in owners : s \in sessions \/ AtWork(s)
    /\ \A p \in Projects : brokers[p] # None => Used(p)

LEMMA StepNoneIdle ==
    ASSUME Types, Births, Endings, NoneIdle, [Next]_vars
    PROVE  NoneIdle'
<1>s. Opens \subseteq Sess /\ None \notin Sess  BY DEF Sess
<1> USE <1>s DEF tables, facts, requests, closes, Types
<1>1. ASSUME NEW o \in Opens, Open(o), server = "up" PROVE NoneIdle'
  <2>1. UNCHANGED <<closing, hand, server>>  BY <1>1 DEF Open
  <2>2. pc[o] # "open" => o \notin sessions  BY DEF Births, Unborn
  <2>3. CASE Admit(o)
    <3>1. o \notin sessions /\ UNCHANGED <<sessions, brokers, owners, unlisted>>
          /\ \A s \in Sess \ {o} : project'[s] = project[s]
      BY <2>2, <2>3 DEF Admit
    <3> QED  BY <1>1, <2>1, <3>1 DEF NoneIdle, Used, AtWork
  <2>4. CASE Prepare(o) \/ Fail(o)
    BY <1>1, <2>1, <2>4 DEF Prepare, Fail, NoneIdle, Used, AtWork
  <2>5. CASE Publish(o)
    <3>1. project' = project  BY <2>5 DEF Publish
    <3>2. CASE UNCHANGED <<sessions, brokers, owners, unlisted>>
      BY <1>1, <2>1, <3>1, <3>2 DEF NoneIdle, Used, AtWork
    <3>3. CASE Insert(o) /\ ( \/ unlisted' = unlisted \cup {o} /\ UNCHANGED <<sessions, owners>>
                              \/ /\ sessions' = sessions \cup {o} /\ owners' = owners \cup {o}
                                 /\ UNCHANGED unlisted )
      <4>1. /\ sessions \subseteq sessions' /\ unlisted \subseteq unlisted'
            /\ \A s \in owners' : s \in owners \/ s \in sessions'
        BY <3>3
      <4>2. \A p \in Projects : brokers[p] # None => brokers'[p] = brokers[p]
        BY <3>3 DEF Insert
      <4>3. \A p \in Projects : brokers'[p] # None =>
               brokers[p] # None \/ (p = project[o] /\ brokers'[p] = o)
        BY <3>3 DEF Insert
      <4>4. brokers'[project[o]] = o => Used(project[o])'
        BY <3>1, <3>3 DEF Used
      <4>5. \A p \in Projects : brokers'[p] # None => Used(p)'
        BY <1>1, <3>1, <4>1, <4>2, <4>3, <4>4 DEF NoneIdle, Used
      <4> QED  BY <1>1, <2>1, <4>1, <4>5 DEF NoneIdle, AtWork
    <3> QED  BY <2>5, <3>2, <3>3 DEF Publish
  <2> QED  BY <1>1, <2>3, <2>4, <2>5 DEF Open
<1>2. ASSUME NEW s \in Sess, Close(s), server = "up" PROVE NoneIdle'
  <2>1. UNCHANGED <<project, server, unlisted>>  BY <1>2 DEF Close
  <2>2. CASE Detach(s)
    <3>1. /\ sessions' = sessions \ {s} /\ owners' = owners
          /\ closing' = [closing EXCEPT ![s] = "supervisor"]
      BY <2>2 DEF Detach, Continues
    <3>2. (\A t \in owners : t \in sessions \/ AtWork(t))'
      BY <1>2, <3>1 DEF NoneIdle, AtWork
    <3>3. CASE Last(s)
      <4>1. brokers' = [brokers EXCEPT ![project[s]] = None]  BY <2>2, <3>3 DEF Detach
      <4>2. \A p \in Projects : brokers'[p] # None => p # project[s] /\ brokers'[p] = brokers[p]
        BY <4>1
      <4>3. (\A p \in Projects : brokers[p] # None => Used(p))'
        BY <1>2, <2>1, <3>1, <4>2 DEF NoneIdle, Used
      <4> QED  BY <3>2, <4>3 DEF NoneIdle
    <3>4. CASE ~Last(s)
      <4>1. brokers' = brokers  BY <2>2, <3>4 DEF Detach
      <4>2. \A p \in Projects : Used(p) => Used(p)'
        BY <2>1, <3>1, <3>4, <4>1 DEF Used, Last
      <4> QED  BY <1>2, <3>2, <4>1, <4>2 DEF NoneIdle
    <3> QED  BY <3>3, <3>4
  <2>3. CASE ~Detach(s)
    <3>1. UNCHANGED <<sessions, brokers>> /\ owners' \subseteq owners
      BY <1>2, <2>3 DEF Close, CloseSupervisor, RemoveOwner, ShutBroker
    <3>2. \A t \in owners' : AtWork(t) => AtWork(t)'
      BY <1>2, <2>3 DEF Close, CloseSupervisor, RemoveOwner, ShutBroker, Continues, AtWork, Endings
    <3> QED  BY <1>2, <2>1, <3>1, <3>2 DEF NoneIdle, Used
  <2> QED  BY <2>2, <2>3
<1>3. CASE Stop
  <2>1. server' # "up"
    BY <1>3 DEF Stop, Drain, CloseBatch, DrainBrokers, ShutBatch
  <2> QED  BY <2>1 DEF NoneIdle
<1>4. CASE UNCHANGED vars
  BY <1>4 DEF vars, NoneIdle, Used, AtWork
<1>5. (\E o \in Opens : Open(o)) \/ (\E s \in Sess : Close(s)) => server' = server
  BY DEF Open, Close
<1>6. CASE server # "up" /\ server' = server
  BY <1>6 DEF NoneIdle
<1> QED  BY <1>1, <1>2, <1>3, <1>4, <1>5, <1>6 DEF Next, Quiet

\* Nothing is left behind by an open that fails or a session that is closed: no owner, no
\* probing process, no broker that nobody will shut down (open, close, close_all).
THEOREM NothingIsLeftBehind == Spec => []NothingIsStranded
<1> DEFINE I == Probed /\ NoneLost /\ NoneIdle
<1>1. Init => I
  <2> SUFFICES ASSUME Init PROVE I
    OBVIOUS
  <2>s. Opens \subseteq Sess /\ Default \in Sess /\ None \notin Sess  BY DEF Sess
  <2> USE <2>s DEF Init
  <2>1. Probed  BY DEF Probed
  <2>2. NoneLost
    <3>1. \A b \in Sess : Given(b) => b = Default  BY DEF Given
    <3>2. brokers[Home] = Default  OBVIOUS
    <3> QED  BY <3>1, <3>2 DEF NoneLost, Awaited
  <2>3. NoneIdle
    <3>1. \A p \in Projects : brokers[p] # None => p = Home  OBVIOUS
    <3>2. Default \in sessions /\ project[Default] = Home  OBVIOUS
    <3> QED  BY <3>1, <3>2 DEF NoneIdle, Used
  <2> QED  BY <2>1, <2>2, <2>3
<1>2. SessInv /\ I /\ [Next]_vars => I'
  BY StepProbed, StepNoneLost, StepNoneIdle DEF SessInv
<1>3. I => NothingIsStranded
  BY DEF Probed, NoneLost, Given, Awaited, NoneIdle, Used, NothingIsStranded
<1> QED  BY <1>1, <1>2, <1>3, SessInvariant, PTL DEF Spec

-----------------------------------------------------------------------------
(* The limits: each table is looked at and filled under one lock.            *)

Jobs == {o \in Opens : job[o] = "running"}
Limits == /\ Cardinality(sessions) <= SessionLimit /\ Cardinality(owners) <= OwnerLimit
          /\ Cardinality(Jobs) <= OpeningLimit

\* A set that only loses elements, or gains one while there is room, keeps to its limit.
LEMMA Bounded ==
    ASSUME NEW S, IsFiniteSet(S), NEW T, NEW n \in Nat, Cardinality(S) <= n,
           \/ T \subseteq S
           \/ Cardinality(S) < n /\ \E x : T \subseteq S \cup {x}
    PROVE  Cardinality(T) <= n
<1>1. Cardinality(S) \in Nat  BY FS_CardinalityType
<1>2. CASE T \subseteq S
  <2>1. IsFiniteSet(T) /\ Cardinality(T) <= Cardinality(S)  BY <1>2, FS_Subset
  <2>2. Cardinality(T) \in Nat  BY <2>1, FS_CardinalityType
  <2> QED  BY <1>1, <2>1, <2>2
<1>3. ASSUME Cardinality(S) < n, NEW x, T \subseteq S \cup {x} PROVE Cardinality(T) <= n
  <2> DEFINE U == S \cup {x}
  <2>1. IsFiniteSet(U)  BY FS_AddElement
  <2>2. Cardinality(U) <= Cardinality(S) + 1
    <3>1. Cardinality(U) = IF x \in S THEN Cardinality(S) ELSE Cardinality(S) + 1
      BY FS_AddElement
    <3> QED  BY <1>1, <3>1
  <2>3. T \in SUBSET U  BY <1>3
  <2>4. IsFiniteSet(T) /\ Cardinality(T) <= Cardinality(U)  BY <2>1, <2>3, FS_Subset
  <2>5. Cardinality(T) \in Nat /\ Cardinality(U) \in Nat  BY <2>1, <2>4, FS_CardinalityType
  <2> HIDE DEF U
  <2> QED  BY <1>1, <1>3, <2>2, <2>4, <2>5
<1> QED  BY <1>2, <1>3

LEMMA StepLimits ==
    ASSUME Types, Limits, [Next]_vars
    PROVE  Limits'
<1> USE DEF tables, facts, requests, closes, Types
<1>1. IsFiniteSet(Sess)  BY FS_AddElement DEF Sess
<1>2. IsFiniteSet(sessions) /\ IsFiniteSet(owners) /\ IsFiniteSet(Jobs)
  <2>1. Jobs \in SUBSET Opens  BY DEF Jobs
  <2> QED  BY <1>1, <2>1, FS_Subset
<1>3. SessionLimit \in Nat /\ OwnerLimit \in Nat /\ OpeningLimit \in Nat
  OBVIOUS
<1>4. \/ sessions' \subseteq sessions
      \/ Cardinality(sessions) < SessionLimit /\ \E x : sessions' \subseteq sessions \cup {x}
  <2>1. ASSUME NEW o \in Opens, Publish(o)
        PROVE  \/ sessions' = sessions
               \/ Cardinality(sessions) < SessionLimit /\ sessions' = sessions \cup {o}
    BY <2>1 DEF Publish
  <2>2. ASSUME NEW o \in Opens, Admit(o) \/ Prepare(o) \/ Fail(o) PROVE sessions' = sessions
    BY <2>2 DEF Admit, Prepare, Fail
  <2>3. ASSUME NEW s \in Sess, Close(s) PROVE sessions' \subseteq sessions
    BY <2>3 DEF Close, Detach, CloseSupervisor, RemoveOwner, ShutBroker
  <2>4. Stop \/ Quiet \/ UNCHANGED vars => sessions' \subseteq sessions
    BY DEF Stop, Drain, CloseBatch, DrainBrokers, ShutBatch, Quiet, vars
  <2>5. CASE sessions' \subseteq sessions  BY <2>5
  <2>6. CASE \E o \in Opens : Open(o)
    <3>1. PICK o \in Opens : Open(o)  BY <2>6
    <3>2. CASE sessions' = sessions  BY <3>2
    <3>3. CASE Cardinality(sessions) < SessionLimit /\ sessions' = sessions \cup {o}
      <4>1. sessions' \subseteq sessions \cup {o}  BY <3>3
      <4> QED  BY <3>3, <4>1
    <3> QED  BY <2>1, <2>2, <3>1, <3>2, <3>3 DEF Open
  <2> QED  BY <2>3, <2>4, <2>5, <2>6 DEF Next
<1>5. \/ owners' \subseteq owners
      \/ Cardinality(owners) < OwnerLimit /\ \E x : owners' \subseteq owners \cup {x}
  <2>1. ASSUME NEW o \in Opens, Publish(o)
        PROVE  \/ owners' = owners
               \/ ~(Cardinality(owners) >= OwnerLimit) /\ owners' = owners \cup {o}
    BY <2>1 DEF Publish
  <2>2. ASSUME NEW o \in Opens, Admit(o) \/ Prepare(o) \/ Fail(o) PROVE owners' = owners
    BY <2>2 DEF Admit, Prepare, Fail
  <2>3. ASSUME NEW s \in Sess, Close(s) PROVE owners' \subseteq owners
    BY <2>3 DEF Close, Detach, CloseSupervisor, RemoveOwner, ShutBroker
  <2>4. Stop \/ Quiet \/ UNCHANGED vars => owners' \subseteq owners
    BY DEF Stop, Quiet, vars
  <2>5. CASE owners' \subseteq owners  BY <2>5
  <2>6. CASE \E o \in Opens : Open(o)
    <3>1. PICK o \in Opens : Open(o)  BY <2>6
    <3>2. CASE owners' = owners  BY <3>2
    <3>3. CASE ~(Cardinality(owners) >= OwnerLimit) /\ owners' = owners \cup {o}
      <4>1. Cardinality(owners) \in Nat  BY <1>2, FS_CardinalityType
      <4>2. owners' \subseteq owners \cup {o}  BY <3>3
      <4> QED  BY <1>3, <3>3, <4>1, <4>2
    <3> QED  BY <2>1, <2>2, <3>1, <3>2, <3>3 DEF Open
  <2> QED  BY <2>3, <2>4, <2>5, <2>6 DEF Next
<1>6. \/ Jobs' \subseteq Jobs
      \/ Cardinality(Jobs) < OpeningLimit /\ \E x : Jobs' \subseteq Jobs \cup {x}
  <2>1. ASSUME NEW o \in Opens, Admit(o), job' # job
        PROVE  Cardinality(Jobs) < OpeningLimit /\ Jobs' \subseteq Jobs \cup {o}
    <3>1. Cardinality(Holders) < OpeningLimit /\ job' = [job EXCEPT ![o] = "running"]
      BY <2>1 DEF Admit
    <3>2. Jobs \in SUBSET Holders /\ Holders \in SUBSET Opens  BY DEF Jobs, Holders
    <3>3. IsFiniteSet(Holders)  BY <3>2, FS_Subset
    <3>4. Cardinality(Jobs) <= Cardinality(Holders)  BY <3>2, <3>3, FS_Subset
    <3>5. Cardinality(Jobs) \in Nat /\ Cardinality(Holders) \in Nat
      BY <1>2, <3>3, FS_CardinalityType
    <3>6. Jobs' \subseteq Jobs \cup {o}  BY <3>1 DEF Jobs
    <3> QED  BY <1>3, <3>1, <3>4, <3>5, <3>6
  <2>2. ASSUME NEW o \in Opens, Prepare(o) \/ Fail(o) \/ Publish(o) PROVE Jobs' \subseteq Jobs
    BY <2>2 DEF Prepare, Fail, Publish, Jobs
  <2>3. job' = job => Jobs' = Jobs  BY DEF Jobs
  <2>4. (\E s \in Sess : Close(s)) \/ Stop \/ Quiet \/ UNCHANGED vars => job' = job
    BY DEF Close, Stop, Quiet, vars
  <2> QED  BY <2>1, <2>2, <2>3, <2>4 DEF Next, Open
<1>7. Cardinality(sessions') <= SessionLimit  BY <1>2, <1>3, <1>4, Bounded DEF Limits
<1>8. Cardinality(owners') <= OwnerLimit  BY <1>2, <1>3, <1>5, Bounded DEF Limits
<1>9. Cardinality(Jobs') <= OpeningLimit  BY <1>2, <1>3, <1>6, Bounded DEF Limits
<1> QED  BY <1>7, <1>8, <1>9 DEF Limits

\* Every variable has its type, and sessions, owners and blocking jobs keep to their limits:
\* however many opens come, a full table refuses (publish) and a blocking job waits for a
\* permit of `opening`.
THEOREM TypeCorrect == Spec => []TypeOK
<1>1. Init => Limits
  <2> SUFFICES ASSUME Init PROVE Limits
    OBVIOUS
  <2>1. sessions = {Default} /\ owners = {Default} /\ Jobs = {}  BY DEF Init, Jobs
  <2>2. Cardinality({Default}) = 1  BY FS_Singleton
  <2>3. Cardinality({}) = 0  BY FS_EmptySet
  <2> QED  BY <2>1, <2>2, <2>3 DEF Limits
<1>2. SessInv /\ Limits /\ [Next]_vars => Limits'
  BY StepLimits DEF SessInv
<1>3. SessInv /\ Limits => TypeOK
  BY DEF SessInv, Types, Limits, Jobs, TypeOK
<1> QED  BY <1>1, <1>2, <1>3, SessInvariant, PTL DEF Spec
=============================================================================

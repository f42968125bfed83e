------------------------------- MODULE Sessions -------------------------------
(*****************************************************************************)
(* The session manager: native/src/sessions.rs, with the handler of          *)
(* python_session_open in server.rs and the end of main.rs.                  *)
(*                                                                           *)
(* A session, and the broker that is made for its project, are named after   *)
(* the open that has made them; the default session is there from the start. *)
(* What a supervisor, the artifact store and a broker do when they are       *)
(* closed is the subject of Supervisor, Artifacts and Transports: here it is *)
(* one step each.                                                            *)
(*                                                                           *)
(* The two tables have a mutex each, and an open or a close holds that of    *)
(* the sessions from its first to its last look: one step.  The only one who *)
(* takes the brokers alone is the shutdown, after it has taken the sessions. *)
(*****************************************************************************)
EXTENDS Naturals, FiniteSets

CONSTANTS Opens,         \* requests to open a session
          Default,       \* the default session
          Projects,
          Home,          \* the project of the default session
          None,
          SessionLimit,  \* sessions in the table (32 in the code)
          OpeningLimit,  \* opens at a time (4)
          OwnerLimit     \* owners in the artifact store (256)

Sess == Opens \cup {Default}

ASSUME SessionsAssumption ==
    /\ IsFiniteSet(Opens) /\ Default \notin Opens /\ None \notin Sess
    /\ Home \in Projects
    /\ {SessionLimit, OpeningLimit, OwnerLimit} \subseteq Nat \ {0}

VARIABLES
    sessions,  \* the table of sessions
    brokers,   \* the table of brokers, by project
    project,   \* the project of each session
    broker,    \* the broker each session was given
    ended,     \* sessions whose lifetime is cancelled
    closed,    \* sessions whose supervisor is closed
    owners,    \* sessions known to the artifact store
    down,      \* brokers that are shut down
    pc,        \* where each open is
    job,       \* the blocking job of each open
    probes,    \* opens with a process that probes the interpreter
    closing,   \* where the close of each session is
    hand,      \* the broker a close has taken
    server,    \* where the shutdown is
    batch,     \* sessions, then brokers, it has still to close
    unlisted   \* history: opens the artifact store has refused

tables   == <<sessions, brokers>>
facts    == <<project, broker>>
requests == <<pc, job, probes>>
closes   == <<closing, hand>>
vars     == <<tables, facts, ended, closed, owners, down, requests, closes, server, batch, unlisted>>

Init ==
    /\ sessions = {Default}
    /\ brokers = [p \in Projects |-> IF p = Home THEN Default ELSE None]
    /\ project = [s \in Sess |-> Home]
    /\ broker = [s \in Sess |-> IF s = Default THEN Default ELSE None]
    /\ owners = {Default}
    /\ ended = {} /\ closed = {} /\ down = {}
    /\ pc = [o \in Opens |-> "idle"] /\ job = [o \in Opens |-> "none"] /\ probes = {}
    /\ closing = [s \in Sess |-> "no"] /\ hand = [s \in Sess |-> None]
    /\ server = "up" /\ batch = {} /\ unlisted = {}

-----------------------------------------------------------------------------
(* open                                                                      *)

Goes(o, to) == pc' = [pc EXCEPT ![o] = to]

\* The permit belongs to the job and passes on to the request if that still waits.
HoldersWaiting == {o \in Opens : pc[o] \in {"preparing", "probing"}}   \* mutant: the request's
Holders == {o \in Opens : job[o] = "running" \/ pc[o] \in {"preparing", "probing"}}

Admit(o) ==
    /\ pc[o] = "idle"
    /\ \/ /\ Cardinality(Holders) < OpeningLimit
          /\ \E p \in Projects : project' = [project EXCEPT ![o] = p]
          /\ job' = [job EXCEPT ![o] = "running"]
          /\ Goes(o, "preparing")
       \/ /\ Cardinality(Holders) >= OpeningLimit
          /\ Goes(o, "failed") /\ UNCHANGED <<project, job>>
    /\ UNCHANGED <<tables, broker, owners, probes, unlisted>>

\* The interpreter says its version, in a process of its own.  The guard kills its
\* group when the probe ends in any other way than by its exit.
StartProbe(o) == probes' = probes \cup {o}
StopProbe(o) == probes' = probes \ {o}

\* The job has looked at the directory and at the interpreter and has staged a
\* broker, or it has failed; without a request that waits its result is dropped.
Prepare(o) ==
    /\ job[o] = "running" /\ job' = [job EXCEPT ![o] = "done"]
    /\ \/ pc[o] # "preparing" /\ UNCHANGED <<pc, probes>>
       \/ pc[o] = "preparing" /\ Goes(o, "probing") /\ StartProbe(o)
       \/ pc[o] = "preparing" /\ Goes(o, "failed") /\ UNCHANGED probes
    /\ UNCHANGED <<tables, facts, owners, unlisted>>

\* The deadline of the job or of the probe, a client that cancels, or an interpreter
\* that will not do.
Fail(o) ==
    /\ pc[o] \in {"preparing", "probing"} /\ Goes(o, "failed")
    /\ StopProbe(o)
    /\ UNCHANGED <<tables, facts, owners, job, unlisted>>

\* One broker for all sessions of a project.
Insert(o) ==
    brokers' = IF brokers[project[o]] = None THEN [brokers EXCEPT ![project[o]] = o] ELSE brokers

\* Under the lock, with the probe over: the limit, the broker, the owner, the session.
Publish(o) ==
    /\ pc[o] = "probing" /\ StopProbe(o)
    /\ \/ /\ Cardinality(sessions) >= SessionLimit
          /\ Goes(o, "failed")
          /\ UNCHANGED <<tables, broker, owners, unlisted>>
       \/ /\ Cardinality(sessions) < SessionLimit
          /\ Insert(o)
          /\ IF Cardinality(owners) >= OwnerLimit
             THEN /\ unlisted' = unlisted \cup {o}
                  /\ Goes(o, "failed") /\ UNCHANGED <<sessions, broker, owners>>
             ELSE /\ owners' = owners \cup {o}
                  /\ broker' = [broker EXCEPT ![o] = brokers'[project[o]]]
                  /\ sessions' = sessions \cup {o}
                  /\ Goes(o, "open") /\ UNCHANGED unlisted
    /\ UNCHANGED <<project, job>>

Open(o) == /\ Admit(o) \/ Prepare(o) \/ Fail(o) \/ Publish(o)
           /\ UNCHANGED <<ended, closed, down, closes, server, batch>>

-----------------------------------------------------------------------------
(* close: the session leaves the table, and with the last of its project the *)
(* broker; then supervisor, owner and broker are closed one after the other. *)

Continues(s, to) == closing' = [closing EXCEPT ![s] = to]

LastUnremoved(s) ==                \* mutant: looks before it has left the table
    \A t \in sessions : project[t] # project[s]
LastOfName(s) == broker[s] = s     \* mutant: the session that has made it
Last(s) == \A t \in sessions \ {s} : project[t] # project[s]

Detach(s) ==
    /\ s \in sessions /\ s # Default /\ closing[s] = "no"
    /\ sessions' = sessions \ {s}
    /\ ended' = ended \cup {s}
    /\ IF Last(s)
       THEN /\ hand' = [hand EXCEPT ![s] = brokers[project[s]]]
            /\ brokers' = [brokers EXCEPT ![project[s]] = None]
       ELSE UNCHANGED <<hand, brokers>>
    /\ Continues(s, "supervisor")
    /\ UNCHANGED <<closed, owners, down>>

CloseSupervisor(s) ==
    /\ closing[s] = "supervisor" /\ Continues(s, "owner")
    /\ closed' = closed \cup {s}
    /\ UNCHANGED <<tables, ended, owners, down, hand>>

RemoveOwner(s) ==
    /\ closing[s] = "owner"
    /\ Continues(s, IF hand[s] = None THEN "done" ELSE "broker")
    /\ owners' = owners \ {s}
    /\ UNCHANGED <<tables, ended, closed, down, hand>>

ShutBroker(s) ==
    /\ closing[s] = "broker" /\ Continues(s, "done")
    /\ down' = down \cup {hand[s]}
    /\ hand' = [hand EXCEPT ![s] = None]
    /\ UNCHANGED <<tables, ended, closed, owners>>

Close(s) == /\ Detach(s) \/ CloseSupervisor(s) \/ RemoveOwner(s) \/ ShutBroker(s)
            /\ UNCHANGED <<facts, requests, server, batch, unlisted>>

-----------------------------------------------------------------------------
(* shutdown, when the client or a signal has ended the service.  Requests    *)
(* that are on their way go on until the process ends.                       *)

Drain ==
    /\ server = "up" /\ server' = "sessions"
    /\ sessions' = {} /\ batch' = sessions
    /\ ended' = ended \cup sessions
    /\ UNCHANGED <<brokers, closed, down>>

CloseBatch ==
    /\ server = "sessions"
    /\ \E s \in batch : closed' = closed \cup {s} /\ batch' = batch \ {s}
    /\ UNCHANGED <<tables, ended, down, server>>

DrainBrokers ==
    /\ server = "sessions" /\ batch = {} /\ server' = "brokers"
    /\ batch' = {brokers[p] : p \in Projects} \ {None}
    /\ brokers' = [p \in Projects |-> None]
    /\ UNCHANGED <<sessions, ended, closed, down>>

ShutBatch ==
    /\ server = "brokers"
    /\ \/ \E b \in batch : down' = down \cup {b} /\ batch' = batch \ {b} /\ UNCHANGED server
       \/ batch = {} /\ server' = "stopped" /\ UNCHANGED <<down, batch>>
    /\ UNCHANGED <<tables, ended, closed>>

Stop == /\ Drain \/ CloseBatch \/ DrainBrokers \/ ShutBatch
        /\ UNCHANGED <<facts, owners, requests, closes, unlisted>>

AtWork(s) == closing[s] \notin {"no", "done"}
Quiet == /\ server = "stopped" /\ \A o \in Opens : pc[o] \in {"open", "failed"} /\ job[o] # "running"
         /\ \A s \in Sess : ~AtWork(s)
         /\ UNCHANGED vars

Next == (\E o \in Opens : Open(o)) \/ (\E s \in Sess : Close(s)) \/ Stop \/ Quiet

Spec == Init /\ [][Next]_vars

-----------------------------------------------------------------------------
(* Properties.                                                               *)

\* Type invariant; sessions, owners and blocking jobs keep to their limits.
TypeOK ==
    /\ sessions \subseteq Sess /\ owners \subseteq Sess /\ probes \subseteq Opens
    /\ brokers \in [Projects -> Sess \cup {None}]
    /\ project \in [Sess -> Projects] /\ broker \in [Sess -> Sess \cup {None}]
    /\ ended \subseteq Sess /\ closed \subseteq Sess /\ down \subseteq Sess
    /\ pc \in [Opens -> {"idle", "preparing", "probing", "open", "failed"}]
    /\ job \in [Opens -> {"none", "running", "done"}]
    /\ closing \in [Sess -> {"no", "supervisor", "owner", "broker", "done"}]
    /\ hand \in [Sess -> Sess \cup {None}]
    /\ server \in {"up", "sessions", "brokers", "stopped"} /\ batch \subseteq Sess
    /\ unlisted \subseteq Opens
    /\ Cardinality(sessions) <= SessionLimit /\ Cardinality(owners) <= OwnerLimit
    /\ Cardinality({o \in Opens : job[o] = "running"}) <= OpeningLimit

\* A session that a client can find is whole, whatever opens and closes go on around
\* it: it is alive, the artifact store knows it, and its broker is the one broker of
\* its project, which nobody else's close has shut down.
SessionsAreWhole ==
    server = "up" => \A s \in sessions :
        /\ s \notin ended \cup closed /\ s \in owners
        /\ broker[s] = brokers[project[s]] /\ broker[s] \notin down

\* Nothing is left behind by an open that fails or a session that is closed: no
\* owner, no probing process, and no broker outside the table that nobody will shut
\* down.  A broker without a session is in the table only if the artifact store has
\* refused the session it was made for.
NothingIsStranded ==
    /\ probes = {o \in Opens : pc[o] = "probing"}
    /\ \A b \in Sess : (\E s \in Sess : broker[s] = b) /\ b \notin down =>
          \/ \E p \in Projects : brokers[p] = b
          \/ \E s \in Sess : hand[s] = b /\ AtWork(s)
          \/ b \in batch /\ server = "brokers"
    /\ server = "up" =>
          /\ \A s \in owners : s \in sessions \/ AtWork(s)
          /\ \A p \in Projects : brokers[p] # None =>
                (\E s \in sessions : project[s] = p) \/ brokers[p] \in unlisted
=============================================================================

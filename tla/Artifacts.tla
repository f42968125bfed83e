------------------------------- MODULE Artifacts -------------------------------
(*****************************************************************************)
(* The artifact store of the server: native/src/artifacts.rs.                *)
(*                                                                           *)
(* Sessions and their runs create artifacts from files, or upload them in    *)
(* chunks.  Every operation is a job of a small pool of blocking threads: it *)
(* is accepted while its session and run are registered, and finds out again *)
(* under the entries' mutex, where everything is decided, whether they still *)
(* are.  A job outlives the request that asked for it.                       *)
(*                                                                           *)
(* A job names what it creates: `begin` the file of an upload, `create` a    *)
(* file and the artifact made of it, `commit` the artifact made of an upload. *)
(* Session and run ids are never used twice, so their Arc<AtomicBool> guards *)
(* are true while they are registered.  An append whose write fails is the   *)
(* last of its upload (native_worker.py:463-466) and is left out; reading,   *)
(* saving and forwarding change no state of the store and are left out, too, *)
(* and so is the capacity of 256 sessions and runs (the server has 32).      *)
(*****************************************************************************)
EXTENDS Integers, FiniteSetsExt

CONSTANTS Sessions, Runs,
          Home,         \* the session of each run
          Jobs,         \* the operations the store is asked for
          None,         \* no run, no job
          JobLimit,     \* operations at a time (4 in the code)
          UploadLimit,  \* unfinished uploads (4)
          ItemLimit,    \* bytes of an artifact (16 MiB)
          CountLimit,   \* artifacts kept (64)
          TotalLimit    \* their bytes (64 MiB)

ASSUME ArtifactsAssumption ==
    /\ Home \in [Runs -> Sessions] /\ None \notin Runs \cup Jobs
    /\ IsFiniteSet(Jobs) /\ Sessions # {}
    /\ {JobLimit, UploadLimit, ItemLimit, CountLimit, TotalLimit} \subseteq Nat \ {0}
    /\ ItemLimit <= TotalLimit

VARIABLES
    session,   \* each session: "new", "open", "closed"
    run,       \* each run: "new", "live", "over"
    entries,   \* the artifacts kept
    age,       \* their positions in the order of publication, 0 before
    sealed,    \* Entry.size: the bytes an artifact was published with
    size,      \* the bytes of each file
    uploads,   \* the registry of unfinished uploads
    alive,     \* the uploads whose `alive` is set
    lock,      \* who holds the mutex of an upload's data
    op,        \* what each job is to do
    pc,        \* where it stands
    aborted    \* history: uploads whose abort has been answered

owners  == <<session, run>>
store   == <<entries, age, sealed>>
staging == <<size, uploads, alive, lock>>
vars    == <<owners, store, staging, op, pc, aborted>>

\* What a job can be asked: only the worker's RPC names a run, its own, and only
\* a run has uploads.
UploadKind == {"append", "commit", "abort"}
Asks(o) == /\ o.run # None => Home[o.run] = o.session
           /\ o.kind \in UploadKind \cup {"begin"} => o.run # None
           /\ o.target = None <=> o.kind \in {"create", "begin"}
Op == {o \in [kind : UploadKind \cup {"create", "begin", "drop"}, session : Sessions,
              run : Runs \cup {None}, target : Jobs \cup {None}] : Asks(o)}
NoOp == [kind |-> "create", session |-> CHOOSE s \in Sessions : TRUE,
         run |-> None, target |-> None]

File(c) == IF op[c].kind = "commit" THEN op[c].target ELSE c
Bytes(S) == MapThenSumSet(LAMBDA c : sealed[c], S)

Init ==
    /\ session = [s \in Sessions |-> "new"] /\ run = [r \in Runs |-> "new"]
    /\ entries = {} /\ uploads = {} /\ alive = {} /\ aborted = {}
    /\ age = [j \in Jobs |-> 0]
    /\ sealed = [j \in Jobs |-> 0] /\ size = [j \in Jobs |-> 0]
    /\ lock = [j \in Jobs |-> None]
    /\ op = [j \in Jobs |-> NoOp] /\ pc = [j \in Jobs |-> "idle"]

-----------------------------------------------------------------------------
(* Sessions and runs.                                                        *)

RegisterOwner(s) ==
    /\ session[s] = "new"
    /\ session' = [session EXCEPT ![s] = "open"]
    /\ UNCHANGED <<run, store, staging>>

RegisterRun(r) ==
    /\ run[r] = "new" /\ session[Home[r]] = "open"
    /\ run' = [run EXCEPT ![r] = "live"]
    /\ UNCHANGED <<session, store, staging>>

Discard(S) == uploads' = uploads \ S /\ alive' = alive \ S

\* abort_unfinished_uploads, at the end of every run.
EndRun(r) ==
    /\ run[r] = "live"
    /\ run' = [run EXCEPT ![r] = "over"]
    /\ Discard({u \in uploads : op[u].run = r})
    /\ UNCHANGED <<session, store, size, lock>>

RemoveOwner(s) ==
    /\ session[s] = "open"
    /\ session' = [session EXCEPT ![s] = "closed"]
    /\ run' = [r \in Runs |-> IF Home[r] = s /\ run[r] = "live" THEN "over" ELSE run[r]]
    /\ Discard({u \in uploads : op[u].session = s})
    /\ entries' = {c \in entries : op[c].session # s}
    /\ UNCHANGED <<age, sealed, size, lock>>

Registered(o) == session[o.session] = "open" /\ (o.run # None => run[o.run] = "live")

-----------------------------------------------------------------------------
(* The jobs.                                                                 *)

At(j, kinds, from) == op[j].kind \in kinds /\ pc[j] = from
Goto(j, to) == pc' = [pc EXCEPT ![j] = to]
Fail(j) == Goto(j, "done") /\ UNCHANGED <<store, staging, aborted>>

Working == {j \in Jobs : pc[j] \notin {"idle", "done"}}

\* dispatch: a permit and the two guards, or an error.
Dispatch(j) ==
    /\ pc[j] = "idle"
    /\ \E o \in Op :
          IF Cardinality(Working) < JobLimit /\ Registered(o)
          THEN op' = [op EXCEPT ![j] = o] /\ Goto(j, "start")
          ELSE UNCHANGED op /\ Goto(j, "done")
    /\ UNCHANGED <<store, staging, aborted>>

\* create: the file is read and checked before anything is decided.
Stage(j) ==
    /\ At(j, {"create"}, "start")
    /\ \/ \E n \in 0..ItemLimit : size' = [size EXCEPT ![j] = n] /\ Goto(j, "staged")
       \/ UNCHANGED size /\ Goto(j, "done")
    /\ UNCHANGED <<store, uploads, alive, lock, aborted>>

ExceedsOffByOne(S, n) ==           \* mutant: leaves no room for the new entry
    Cardinality(S) > CountLimit \/ Bytes(S) + n > TotalLimit
Exceeds(S, n) == Cardinality(S) >= CountLimit \/ Bytes(S) + n > TotalLimit

\* The oldest artifacts, the fewest that make room for n more bytes.
OldestAll == {entries}             \* mutant: makes room by forgetting everything
Oldest == {R \in SUBSET entries : \A c \in R, d \in entries \ R : age[c] < age[d]}
Evicted(n) == CHOOSE R \in Oldest :
    /\ ~Exceeds(entries \ R, n)
    /\ \A Q \in Oldest : ~Exceeds(entries \ Q, n) => Cardinality(R) <= Cardinality(Q)

Publish(j, n) ==
    /\ entries' = (entries \ Evicted(n)) \cup {j}
    /\ age' = [age EXCEPT ![j] = 1 + Cardinality({c \in Jobs : age[c] # 0})]
    /\ sealed' = [sealed EXCEPT ![j] = n]
    /\ Goto(j, "done")

\* The guards, read again when everything else is ready.
RecheckNothing(o) == TRUE          \* mutant: relies on the check at dispatch
Recheck(o) == Registered(o)

Create(j) ==
    /\ At(j, {"create"}, "staged")
    /\ IF Recheck(op[j]) THEN Publish(j, size[j]) /\ UNCHANGED <<staging, aborted>>
                         ELSE Fail(j)

Begin(j) ==
    /\ At(j, {"begin"}, "start")
    /\ IF Recheck(op[j]) /\ Cardinality(uploads) < UploadLimit
       THEN /\ uploads' = uploads \cup {j} /\ alive' = alive \cup {j}
            /\ Goto(j, "done")
            /\ UNCHANGED <<store, size, lock, aborted>>
       ELSE Fail(j)

\* The upload is looked up once; what happens to it meanwhile shows in `alive`.
Lookup(j) ==
    /\ At(j, UploadKind, "start")
    /\ IF op[j].target \in uploads /\ op[op[j].target].run = op[j].run
       THEN Goto(j, "found") ELSE Goto(j, "done")
    /\ UNCHANGED <<store, staging, aborted>>

AbortForgets(j) ==                 \* mutant: leaves the upload alive
    /\ At(j, {"abort"}, "found")
    /\ uploads' = uploads \ {op[j].target} /\ aborted' = aborted \cup {op[j].target}
    /\ Goto(j, "done")
    /\ UNCHANGED <<store, alive, size, lock>>
Abort(j) ==
    /\ At(j, {"abort"}, "found")
    /\ Discard({op[j].target}) /\ aborted' = aborted \cup {op[j].target}
    /\ Goto(j, "done")
    /\ UNCHANGED <<store, size, lock>>

UsableStale(j) == Recheck(op[j])   \* mutant: relies on the lookup
Usable(j) == op[j].target \in alive /\ Recheck(op[j])

\* A chunk starts where the file ends and stays within the limit.
WithinChunk(u, n) == n <= ItemLimit            \* mutant: bounds the chunk only
Within(u, n) == size[u] + n <= ItemLimit

\* One step: who ends the upload during the write does not change the file.
AppendChunk(j) ==
    /\ At(j, {"append"}, "found") /\ lock[op[j].target] = None
    /\ \E offset, n \in 0..ItemLimit :
          IF Usable(j) /\ offset = size[op[j].target] /\ Within(op[j].target, n)
          THEN /\ size' = [size EXCEPT ![op[j].target] = @ + n]
               /\ Goto(j, "done")
               /\ UNCHANGED <<store, uploads, alive, lock, aborted>>
          ELSE Fail(j)

\* commit holds the data while it checks the content and until it has published.
CommitCheck(j) ==
    /\ At(j, {"commit"}, "found") /\ lock[op[j].target] = None
    /\ \/ /\ Usable(j)
          /\ lock' = [lock EXCEPT ![op[j].target] = j]
          /\ Goto(j, "checked")
          /\ UNCHANGED <<store, size, uploads, alive, aborted>>
       \/ Fail(j)

CommitKeepsAlive(j) ==             \* mutant: only leaves the registry
    /\ At(j, {"commit"}, "checked")
    /\ lock' = [lock EXCEPT ![op[j].target] = None]
    /\ IF Usable(j)
       THEN /\ Publish(j, size[op[j].target])
            /\ uploads' = uploads \ {op[j].target} /\ UNCHANGED <<alive, size, aborted>>
       ELSE Goto(j, "done") /\ UNCHANGED <<store, size, uploads, alive, aborted>>
Commit(j) ==
    /\ At(j, {"commit"}, "checked")
    /\ lock' = [lock EXCEPT ![op[j].target] = None]
    /\ IF Usable(j)
       THEN /\ Publish(j, size[op[j].target])
            /\ Discard({op[j].target}) /\ UNCHANGED <<size, aborted>>
       ELSE Goto(j, "done") /\ UNCHANGED <<store, size, uploads, alive, aborted>>

Drop(j) ==
    /\ At(j, {"drop"}, "start")
    /\ entries' = {c \in entries : c # op[j].target \/ op[c].session # op[j].session}
    /\ Goto(j, "done")
    /\ UNCHANGED <<age, sealed, staging, aborted>>

Job(j) == \/ Stage(j) \/ Create(j) \/ Begin(j) \/ Lookup(j) \/ Abort(j)
          \/ AppendChunk(j) \/ CommitCheck(j) \/ Commit(j) \/ Drop(j)

Done == (\A j \in Jobs : pc[j] = "done") /\ UNCHANGED vars

Next == \/ (\/ \E s \in Sessions : RegisterOwner(s) \/ RemoveOwner(s)
            \/ \E r \in Runs : RegisterRun(r) \/ EndRun(r)) /\ UNCHANGED <<op, pc, aborted>>
        \/ (\E j \in Jobs : Dispatch(j)) /\ UNCHANGED owners
        \/ (\E j \in Jobs : Job(j)) /\ UNCHANGED <<owners, op>>
        \/ Done

Spec == Init /\ [][Next]_vars

-----------------------------------------------------------------------------
(* Properties.                                                               *)

\* Type invariant; no file ever exceeds the limit of an artifact.
TypeOK ==
    /\ session \in [Sessions -> {"new", "open", "closed"}]
    /\ run \in [Runs -> {"new", "live", "over"}]
    /\ entries \subseteq Jobs /\ uploads \subseteq Jobs
    /\ alive \subseteq Jobs /\ aborted \subseteq Jobs
    /\ age \in [Jobs -> Nat] /\ sealed \in [Jobs -> Nat]
    /\ size \in [Jobs -> 0..ItemLimit]
    /\ lock \in [Jobs -> Jobs \cup {None}]
    /\ op \in [Jobs -> Op]
    /\ pc \in [Jobs -> {"idle", "start", "staged", "found", "checked", "done"}]

\* An artifact never outlives its session, although jobs outlive requests.
OwnedByOpenSession == \A c \in entries : session[op[c].session] = "open"

\* Unfinished uploads belong to live runs of open sessions, so that none can keep
\* one of the few places for good, and they are those still alive.
UploadsOfLiveRuns ==
    /\ alive = uploads /\ Cardinality(uploads) <= UploadLimit
    /\ \A u \in uploads : op[u].kind = "begin" /\ Registered(op[u])

\* No writer after commit: the file of an artifact is as long as it was when its
\* size and hash were taken.
Sealed == \A c \in entries : size[File(c)] = sealed[c]

\* An upload becomes at most one artifact.
PublishedOnce ==
    \A c, d \in Jobs : age[c] # 0 /\ age[d] # 0 /\ File(c) = File(d) => c = d

\* After an abort has been answered the upload is not published.
AbortIsFinal ==
    [][\A c \in Jobs : age[c] = 0 /\ age'[c] # 0 => File(c) \notin aborted]_vars

Lost == entries \ entries'

\* The store keeps to its two limits. An artifact is lost to another one only when
\* that one is published, oldest first, and no more are lost than the limits ask for.
EvictsOldestFirst ==
    [][/\ Cardinality(entries') <= CountLimit /\ Bytes(entries)' <= TotalLimit
       /\ \A c \in Lost :
              \/ session'[op[c].session] = "closed"
              \/ \E j \in Jobs : op[j].kind = "drop" /\ op[j].target = c /\ pc[j] # pc'[j]
              \/ \E new \in entries' \ entries :
                    /\ \A d \in entries' \cap entries : age[c] < age[d]
                    /\ (\A d \in Lost : age[d] <= age[c]) =>
                          Exceeds((entries' \ {new}) \cup {c}, sealed'[new])]_vars

=============================================================================

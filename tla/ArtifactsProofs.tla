---------------------------- MODULE ArtifactsProofs ----------------------------
(* Theorems about the artifact store, for any sessions, runs, operations and  *)
(* limits.                                                                    *)
EXTENDS Artifacts, FiniteSetTheorems, WellFoundedInduction, TLAPS

USE ArtifactsAssumption

\* The steps that are not steps of a job.
Owners == /\ \/ \E s \in Sessions : RegisterOwner(s) \/ RemoveOwner(s)
             \/ \E r \in Runs : RegisterRun(r) \/ EndRun(r)
          /\ UNCHANGED <<op, pc, aborted>>

\* What an operation names.
LEMMA OpFields ==
    ASSUME NEW o \in Op
    PROVE  /\ o.session \in Sessions
           /\ o.run \in Runs => Home[o.run] = o.session
           /\ o.kind \in {"append", "commit", "abort", "begin"} => o.run \in Runs
           /\ o.kind \in {"append", "commit", "abort", "drop"} => o.target \in Jobs
BY DEF Op, Asks, UploadKind

LEMMA NoOpType == NoOp \in Op
BY DEF Op, Asks, UploadKind, NoOp

\* Positions in the order of publication start at 1.
LEMMA AgePositive ==
    ASSUME TypeOK
    PROVE  1 + Cardinality({c \in Jobs : age[c] # 0}) \in Nat \ {0}
<1>1. IsFiniteSet({c \in Jobs : age[c] # 0})
  BY FS_Subset DEF TypeOK
<1> QED  BY <1>1, FS_CardinalityType

-----------------------------------------------------------------------------
(* Types.                                                                    *)

LEMMA InitType == Init => TypeOK
BY NoOpType DEF Init, TypeOK

LEMMA OwnersType ==
    ASSUME TypeOK, Owners
    PROVE  TypeOK'
<1>1. ASSUME NEW s \in Sessions, RegisterOwner(s) PROVE TypeOK'
  BY <1>1 DEF TypeOK, Owners, RegisterOwner, store, staging
<1>2. ASSUME NEW s \in Sessions, RemoveOwner(s) PROVE TypeOK'
  BY <1>2 DEF TypeOK, Owners, RemoveOwner, Discard
<1>3. ASSUME NEW r \in Runs, RegisterRun(r) PROVE TypeOK'
  BY <1>3 DEF TypeOK, Owners, RegisterRun, store, staging
<1>4. ASSUME NEW r \in Runs, EndRun(r) PROVE TypeOK'
  BY <1>4 DEF TypeOK, Owners, EndRun, Discard, store
<1> QED  BY <1>1, <1>2, <1>3, <1>4 DEF Owners

LEMMA DispatchType ==
    ASSUME TypeOK, NEW j \in Jobs, Dispatch(j), UNCHANGED owners
    PROVE  TypeOK'
BY DEF TypeOK, Dispatch, Goto, owners, store, staging

LEMMA PublishType ==
    ASSUME TypeOK, NEW j \in Jobs, NEW n \in Nat, Publish(j, n)
    PROVE  /\ entries' \subseteq Jobs /\ age' \in [Jobs -> Nat] /\ sealed' \in [Jobs -> Nat]
           /\ pc' \in [Jobs -> {"idle", "start", "staged", "found", "checked", "done"}]
BY AgePositive DEF TypeOK, Publish, Goto

LEMMA JobType ==
    ASSUME TypeOK, NEW j \in Jobs, Job(j), UNCHANGED <<owners, op>>
    PROVE  TypeOK'
<1> USE DEF owners, store, staging
<1>0. op[j] \in Op  BY DEF TypeOK
<1>1. CASE Stage(j)  BY <1>1 DEF TypeOK, Stage, Goto, At
<1>2. CASE Create(j)
  <2>1. size[j] \in Nat  BY DEF TypeOK
  <2>2. CASE Fail(j)  BY <2>2 DEF TypeOK, Fail, Goto
  <2>3. CASE Publish(j, size[j]) /\ UNCHANGED <<staging, aborted>>
    BY <2>1, <2>3, PublishType DEF TypeOK
  <2> QED  BY <1>2, <2>2, <2>3 DEF Create
<1>3. CASE Begin(j)  BY <1>3 DEF TypeOK, Begin, Fail, Goto
<1>4. CASE Lookup(j)  BY <1>4 DEF TypeOK, Lookup, Goto
<1>5. CASE Abort(j)
  <2>1. op[j].target \in Jobs  BY <1>0, <1>5, OpFields DEF Abort, At
  <2> QED  BY <1>5, <2>1 DEF TypeOK, Abort, Discard, Goto
<1>6. CASE AppendChunk(j)
  <2>1. op[j].target \in Jobs  BY <1>0, <1>6, OpFields DEF AppendChunk, At
  <2>2. ASSUME NEW n \in 0..ItemLimit, Within(op[j].target, n)
        PROVE  size[op[j].target] + n \in 0..ItemLimit
    BY <2>1, <2>2 DEF TypeOK, Within
  <2> QED  BY <1>6, <2>1, <2>2 DEF TypeOK, AppendChunk, Fail, Goto
<1>7. CASE CommitCheck(j)  BY <1>7 DEF TypeOK, CommitCheck, Fail, Goto
<1>8. CASE Commit(j)
  <2>1. op[j].target \in Jobs  BY <1>0, <1>8, OpFields DEF Commit, At
  <2>2. size[op[j].target] \in Nat  BY <2>1 DEF TypeOK
  <2>3. lock' \in [Jobs -> Jobs \cup {None}]  BY <1>8 DEF TypeOK, Commit
  <2>4. CASE Usable(j)
    <3>1. Publish(j, size[op[j].target]) /\ Discard({op[j].target}) /\ UNCHANGED <<size, aborted>>
      BY <1>8, <2>4 DEF Commit
    <3> QED  BY <2>2, <2>3, <3>1, PublishType DEF TypeOK, Discard
  <2>5. CASE ~Usable(j)  BY <1>8, <2>3, <2>5 DEF TypeOK, Commit, Goto
  <2> QED  BY <2>4, <2>5
<1>9. CASE Drop(j)  BY <1>9 DEF TypeOK, Drop, Goto
<1> QED  BY <1>1, <1>2, <1>3, <1>4, <1>5, <1>6, <1>7, <1>8, <1>9 DEF Job

\* The store's variables keep their types, and no file outgrows an artifact.
THEOREM TypeCorrect == Spec => []TypeOK
<1>1. ASSUME TypeOK, [Next]_vars PROVE TypeOK'
  <2>1. CASE Owners  BY <1>1, <2>1, OwnersType
  <2>2. CASE (\E j \in Jobs : Dispatch(j)) /\ UNCHANGED owners  BY <1>1, <2>2, DispatchType
  <2>3. CASE (\E j \in Jobs : Job(j)) /\ UNCHANGED <<owners, op>>  BY <1>1, <2>3, JobType
  <2>4. CASE UNCHANGED vars  BY <1>1, <2>4 DEF TypeOK, vars, owners, store, staging
  <2> QED  BY <1>1, <2>1, <2>2, <2>3, <2>4 DEF Next, Owners, Done
<1> QED  BY <1>1, InitType, PTL DEF Spec

-----------------------------------------------------------------------------
(* What the registry, the history and the store say about each other.        *)

Begun(u) == op[u].kind = "begin" /\ pc[u] = "done"

Registry == /\ alive = uploads
            /\ \A u \in uploads : Begun(u) /\ Registered(op[u])
Refusals == \A u \in aborted : Begun(u) /\ u \notin alive
Lookups == \A j \in Jobs : pc[j] \in {"found", "checked"} =>
    op[j].kind \in UploadKind /\ Begun(op[j].target)
History == \A c \in Jobs : age[c] # 0 =>
    /\ pc[c] = "done" /\ op[c].kind \in {"create", "commit"}
    /\ op[c].kind = "commit" => Begun(op[c].target) /\ op[c].target \notin alive
Kept == \A c \in entries : /\ age[c] # 0 /\ session[op[c].session] = "open"
                           /\ size[File(c)] = sealed[c]

Books == TypeOK /\ Registry /\ Refusals /\ Lookups /\ History /\ Kept

LEMMA InitBooks == Init => Books
BY InitType DEF Init, Books, Registry, Refusals, Lookups, History, Kept

LEMMA OwnersBooks ==
    ASSUME Books, Owners
    PROVE  Books'
<1>0. TypeOK'  BY OwnersType DEF Books
<1>1. /\ alive' = uploads' /\ uploads' \subseteq uploads
      /\ UNCHANGED <<age, sealed, size, op, pc, aborted>>
      /\ entries' \subseteq entries
  BY DEF Books, Registry, Owners, RegisterOwner, RemoveOwner, RegisterRun, EndRun, Discard,
         store, staging
<1>2. Refusals' /\ Lookups' /\ History'
  BY <1>1 DEF Books, Registry, Refusals, Lookups, History, Begun
<1>3. \A u \in uploads' : Registered(op[u])'
  <2> SUFFICES ASSUME NEW u \in uploads' PROVE Registered(op[u])'
    OBVIOUS
  <2>0. /\ u \in Jobs /\ op[u] \in Op /\ op[u].kind = "begin" /\ Registered(op[u]) /\ u \in uploads
    BY <1>1 DEF Books, TypeOK, Registry, Begun
  <2>1. op[u].run \in Runs /\ op[u].session \in Sessions /\ Home[op[u].run] = op[u].session
    BY <2>0, OpFields
  <2>2. /\ session \in [Sessions -> {"new", "open", "closed"}]
        /\ run \in [Runs -> {"new", "live", "over"}]
    BY DEF Books, TypeOK
  <2>3. ASSUME NEW s \in Sessions, RegisterOwner(s) PROVE Registered(op[u])'
    BY <1>1, <2>0, <2>1, <2>2, <2>3 DEF RegisterOwner, Registered
  <2>4. ASSUME NEW s \in Sessions, RemoveOwner(s) PROVE Registered(op[u])'
    BY <1>1, <2>0, <2>1, <2>2, <2>4 DEF RemoveOwner, Registered, Discard
  <2>5. ASSUME NEW r \in Runs, RegisterRun(r) PROVE Registered(op[u])'
    BY <1>1, <2>0, <2>1, <2>2, <2>5 DEF RegisterRun, Registered
  <2>6. ASSUME NEW r \in Runs, EndRun(r) PROVE Registered(op[u])'
    BY <1>1, <2>0, <2>1, <2>2, <2>6 DEF EndRun, Registered, Discard
  <2> QED  BY <2>3, <2>4, <2>5, <2>6 DEF Owners
<1>4. Registry'  BY <1>1, <1>3 DEF Books, Registry, Begun
<1>5. \A c \in entries' : session'[op[c].session] = "open"
  <2> SUFFICES ASSUME NEW c \in entries' PROVE session'[op[c].session] = "open"
    OBVIOUS
  <2>1. /\ c \in entries /\ session[op[c].session] = "open" /\ op[c] \in Op
        /\ session \in [Sessions -> {"new", "open", "closed"}]
    BY <1>1 DEF Books, TypeOK, Kept
  <2>2. op[c].session \in Sessions  BY <2>1, OpFields
  <2>3. ASSUME NEW s \in Sessions, RemoveOwner(s) PROVE op[c].session # s
    BY <1>1, <2>3 DEF RemoveOwner
  <2> QED  BY <2>1, <2>2, <2>3 DEF Owners, RegisterOwner, RemoveOwner, RegisterRun, EndRun
<1>6. Kept'  BY <1>1, <1>5 DEF Books, Kept, File
<1> QED  BY <1>0, <1>2, <1>4, <1>6 DEF Books

LEMMA DispatchBooks ==
    ASSUME Books, NEW j \in Jobs, Dispatch(j), UNCHANGED owners
    PROVE  Books'
<1>0. TypeOK'  BY DispatchType DEF Books
<1>1. /\ UNCHANGED <<entries, age, sealed, size, uploads, alive, session, run, aborted>>
      /\ pc[j] = "idle" /\ pc'[j] \in {"start", "done"}
      /\ \A i \in Jobs \ {j} : pc'[i] = pc[i] /\ op'[i] = op[i]
  BY DEF Books, TypeOK, Dispatch, Goto, store, staging, owners
<1>2. \A u \in Jobs : Begun(u) => Begun(u)' /\ op'[u] = op[u]
  BY <1>1 DEF Begun
<1>3. Registry'  BY <1>1, <1>2 DEF Books, TypeOK, Registry, Registered
<1>4. Refusals'  BY <1>1, <1>2 DEF Books, TypeOK, Refusals
<1>5. Lookups'
  <2> SUFFICES ASSUME NEW i \in Jobs, pc'[i] \in {"found", "checked"}
               PROVE  op'[i].kind \in UploadKind /\ Begun(op[i].target)'
    BY DEF Lookups
  <2>1. i # j /\ pc[i] \in {"found", "checked"} /\ op'[i] = op[i]  BY <1>1
  <2>2. op[i] \in Op /\ op[i].kind \in UploadKind /\ Begun(op[i].target)
    BY <2>1 DEF Books, TypeOK, Lookups
  <2>3. op[i].target \in Jobs  BY <2>2, OpFields DEF UploadKind
  <2> QED  BY <2>1, <2>2, <2>3, <1>2
<1>6. History'
  <2> SUFFICES ASSUME NEW c \in Jobs, age'[c] # 0
               PROVE  /\ pc'[c] = "done" /\ op'[c].kind \in {"create", "commit"}
                      /\ op'[c].kind = "commit" =>
                            Begun(op[c].target)' /\ op'[c].target \notin alive'
    BY DEF History
  <2>1. /\ pc[c] = "done" /\ op[c].kind \in {"create", "commit"} /\ op[c] \in Op
        /\ op[c].kind = "commit" => Begun(op[c].target) /\ op[c].target \notin alive
    BY <1>1 DEF Books, TypeOK, History
  <2>2. c # j /\ pc'[c] = "done" /\ op'[c] = op[c]  BY <1>1, <2>1
  <2>3. op[c].kind = "commit" => op[c].target \in Jobs  BY <2>1, OpFields
  <2> QED  BY <1>1, <1>2, <2>1, <2>2, <2>3
<1>7. Kept'
  <2> SUFFICES ASSUME NEW c \in entries
               PROVE  /\ age'[c] # 0 /\ session'[op'[c].session] = "open"
                      /\ size'[File(c)'] = sealed'[c]
    BY <1>1 DEF Kept
  <2>1. /\ c \in Jobs /\ age[c] # 0 /\ session[op[c].session] = "open"
        /\ size[File(c)] = sealed[c] /\ pc[c] = "done"
    BY DEF Books, TypeOK, Kept, History
  <2> QED  BY <1>1, <2>1 DEF File
<1> QED  BY <1>0, <1>3, <1>4, <1>5, <1>6, <1>7 DEF Books

\* What every step of a job does: it moves the job, which is under way, and no other.
Moves(j) == /\ pc[j] \in {"start", "staged", "found", "checked"}
            /\ \A i \in Jobs \ {j} : pc'[i] = pc[i]
            /\ UNCHANGED <<owners, op>>

\* An upload enters the registry when it begins and an abort is answered for one
\* that is out of it.
Ends(j) == /\ alive' = uploads'
           /\ uploads' \subseteq uploads \cup {j}
           /\ j \in uploads' => op[j].kind = "begin" /\ pc'[j] = "done" /\ Registered(op[j])
           /\ \A u \in aborted' : u \in aborted \/ (u \in Jobs \ {j} /\ Begun(u) /\ u \notin alive')
           /\ pc'[j] \in {"found", "checked"} => op[j].kind \in UploadKind /\ Begun(op[j].target)

LEMMA BegunStays ==
    ASSUME NEW j \in Jobs, Moves(j), NEW u \in Jobs, Begun(u)
    PROVE  u # j /\ Begun(u)'
BY DEF Moves, Begun

LEMMA JobUploads ==
    ASSUME Books, NEW j \in Jobs, Moves(j), Ends(j)
    PROVE  Registry' /\ Refusals' /\ Lookups'
<1>1. Registry'
  <2> SUFFICES ASSUME NEW u \in uploads' PROVE Begun(u)' /\ Registered(op[u])'
    BY DEF Registry, Ends
  <2>1. CASE u = j  BY <2>1 DEF Ends, Moves, Begun, Registered, owners
  <2>2. CASE u # j
    <3>1. u \in Jobs /\ Begun(u) /\ Registered(op[u])
      BY <2>2 DEF Ends, Books, TypeOK, Registry
    <3> QED  BY <3>1, BegunStays DEF Moves, Registered, owners
  <2> QED  BY <2>1, <2>2
<1>2. Refusals'
  <2> SUFFICES ASSUME NEW u \in aborted' PROVE Begun(u)' /\ u \notin alive'
    BY DEF Refusals
  <2>1. CASE u \in aborted
    <3>1. u \in Jobs /\ Begun(u) /\ u \notin alive /\ alive = uploads
      BY <2>1 DEF Books, TypeOK, Refusals, Registry
    <3> QED  BY <3>1, BegunStays DEF Ends
  <2>2. CASE u \notin aborted
    <3>1. u \in Jobs /\ Begun(u) /\ u \notin alive'  BY <2>2 DEF Ends
    <3> QED  BY <3>1, BegunStays
  <2> QED  BY <2>1, <2>2
<1>3. Lookups'
  <2> SUFFICES ASSUME NEW i \in Jobs, pc'[i] \in {"found", "checked"}
               PROVE  op'[i].kind \in UploadKind /\ Begun(op[i].target)'
    BY DEF Lookups
  <2>1. op[i].kind \in UploadKind /\ Begun(op[i].target)
    BY DEF Books, Lookups, Ends, Moves
  <2>2. op[i].target \in Jobs  BY <2>1, OpFields DEF Books, TypeOK, UploadKind
  <2> QED  BY <2>1, <2>2, BegunStays DEF Moves
<1> QED  BY <1>1, <1>2, <1>3

\* A published artifact stays what it is: its upload is over for good.
LEMMA PublishedStays ==
    ASSUME Books, NEW j \in Jobs, Moves(j), Ends(j), NEW c \in Jobs, age[c] # 0
    PROVE  /\ c # j /\ pc'[c] = "done" /\ op'[c].kind \in {"create", "commit"}
           /\ op'[c].kind = "commit" => Begun(op[c].target)' /\ op'[c].target \notin alive'
           /\ File(c)' = File(c) /\ File(c) \in Jobs \ {j}
           /\ op[File(c)].kind \in {"create", "begin"} /\ File(c) \notin alive \cup alive'
<1>1. /\ pc[c] = "done" /\ op[c].kind \in {"create", "commit"} /\ op[c] \in Op
      /\ op[c].kind = "commit" => Begun(op[c].target) /\ op[c].target \notin alive
      /\ alive = uploads /\ \A u \in uploads : op[u].kind = "begin"
  BY DEF Books, TypeOK, History, Registry, Begun
<1>2. c # j /\ pc'[c] = "done" /\ op' = op  BY <1>1 DEF Moves
<1>3. CASE op[c].kind = "commit"
  <2>1. op[c].target \in Jobs /\ Begun(op[c].target)  BY <1>1, <1>3, OpFields
  <2>2. op[c].target # j /\ Begun(op[c].target)'  BY <1>2, <2>1, BegunStays
  <2> QED  BY <1>1, <1>2, <1>3, <2>1, <2>2 DEF File, Begun, Ends
<1>4. CASE op[c].kind = "create"  BY <1>1, <1>2, <1>4 DEF File, Ends
<1> QED  BY <1>1, <1>3, <1>4

\* A step that publishes nothing: it may only write a file no artifact is made of.
LEMMA JobKeeps ==
    ASSUME Books, NEW j \in Jobs, Moves(j), Ends(j), UNCHANGED <<age, sealed>>,
           entries' \subseteq entries,
           NEW f \in Jobs, f = j \/ f \in alive', \A i \in Jobs \ {f} : size'[i] = size[i]
    PROVE  History' /\ Kept'
<1>1. History'  BY PublishedStays DEF History
<1>2. Kept'
  <2> SUFFICES ASSUME NEW c \in entries'
               PROVE  /\ age'[c] # 0 /\ session'[op'[c].session] = "open"
                      /\ size'[File(c)'] = sealed'[c]
    BY DEF Kept
  <2>1. /\ c \in Jobs /\ age[c] # 0 /\ session[op[c].session] = "open"
        /\ size[File(c)] = sealed[c]
    BY DEF Books, TypeOK, Kept
  <2>2. File(c)' = File(c) /\ File(c) \in Jobs \ {f}  BY <2>1, PublishedStays
  <2> QED  BY <2>1, <2>2 DEF Moves, owners
<1> QED  BY <1>1, <1>2

\* A step that publishes its own artifact, of as many bytes as the file has.
LEMMA JobPublishes ==
    ASSUME Books, NEW j \in Jobs, Moves(j), Ends(j), NEW n \in Nat, Publish(j, n),
           UNCHANGED size, size[File(j)] = n, Registered(op[j]),
           op[j].kind \in {"create", "commit"},
           op[j].kind = "commit" => Begun(op[j].target) /\ op[j].target \notin alive'
    PROVE  History' /\ Kept'
<1>1. /\ pc'[j] = "done" /\ entries' \subseteq entries \cup {j}
      /\ \A c \in Jobs \ {j} : age'[c] = age[c] /\ sealed'[c] = sealed[c]
      /\ age'[j] # 0 /\ sealed'[j] = n /\ op' = op /\ session' = session
  <2>1. 1 + Cardinality({c \in Jobs : age[c] # 0}) \in Nat \ {0}
    BY AgePositive DEF Books
  <2> QED  BY <2>1 DEF Publish, Goto, Moves, owners, Books, TypeOK
<1>2. op[j].kind = "commit" => op[j].target \in Jobs /\ Begun(op[j].target)'
  BY <1>1, OpFields, BegunStays DEF Books, TypeOK
<1>3. History'
  <2> SUFFICES ASSUME NEW c \in Jobs, age'[c] # 0
               PROVE  /\ pc'[c] = "done" /\ op'[c].kind \in {"create", "commit"}
                      /\ op'[c].kind = "commit" =>
                            Begun(op[c].target)' /\ op'[c].target \notin alive'
    BY DEF History
  <2>1. CASE c = j  BY <1>1, <1>2, <2>1
  <2>2. CASE c # j  BY <1>1, <2>2, PublishedStays
  <2> QED  BY <2>1, <2>2
<1>4. Kept'
  <2> SUFFICES ASSUME NEW c \in entries'
               PROVE  /\ age'[c] # 0 /\ session'[op'[c].session] = "open"
                      /\ size'[File(c)'] = sealed'[c]
    BY DEF Kept
  <2>1. CASE c = j  BY <1>1, <2>1 DEF File, Registered
  <2>2. CASE c # j
    <3>1. /\ c \in Jobs /\ age[c] # 0 /\ session[op[c].session] = "open"
          /\ size[File(c)] = sealed[c]
      BY <1>1, <2>2 DEF Books, TypeOK, Kept
    <3> QED  BY <1>1, <2>2, <3>1, PublishedStays
  <2> QED  BY <2>1, <2>2
<1> QED  BY <1>3, <1>4

\* In the books every step of a job is one of a job under way, and ends what it ends.
LEMMA JobEnds ==
    ASSUME Books, NEW j \in Jobs, Job(j), UNCHANGED <<owners, op>>
    PROVE  Moves(j) /\ Ends(j)
<1> USE DEF store, staging
<1>1. /\ op[j] \in Op /\ alive = uploads /\ alive \subseteq Jobs
      /\ pc \in [Jobs -> {"idle", "start", "staged", "found", "checked", "done"}]
  BY DEF Books, TypeOK, Registry
<1>2. Moves(j)
  BY <1>1 DEF Job, Stage, Create, Begin, Lookup, Abort, AppendChunk, CommitCheck, Commit, Drop,
              At, Goto, Fail, Publish, Moves
<1>3. pc[j] \in {"found", "checked"} =>
          op[j].target \in Jobs /\ Begun(op[j].target) /\ op[j].target # j
  BY <1>1, OpFields DEF Books, Lookups, UploadKind, Begun
<1>4. j \notin uploads  BY <1>2 DEF Books, Registry, Begun, Moves
<1>5. Ends(j)
  <2>1. CASE Stage(j)  BY <1>1, <1>4, <2>1 DEF Stage, At, Goto, Ends, Begun
  <2>2. CASE Create(j)  BY <1>1, <1>4, <2>2 DEF Create, Publish, Fail, At, Goto, Ends
  <2>3. CASE Begin(j)  BY <1>1, <1>4, <2>3 DEF Begin, Fail, Recheck, At, Goto, Ends
  <2>4. CASE Lookup(j)
    <3>1. op[j].kind \in UploadKind  BY <2>4 DEF Lookup, At
    <3>2. op[j].target \in uploads => Begun(op[j].target)  BY DEF Books, Registry
    <3> QED  BY <1>1, <1>4, <2>4, <3>1, <3>2 DEF Lookup, Goto, Ends
  <2>5. CASE Abort(j)  BY <1>1, <1>4, <1>3, <2>5 DEF Abort, Discard, At, Goto, Ends
  <2>6. CASE AppendChunk(j)  BY <1>1, <1>4, <2>6 DEF AppendChunk, Fail, At, Goto, Ends
  <2>7. CASE CommitCheck(j)
    BY <1>1, <1>4, <1>3, <2>7 DEF CommitCheck, Fail, At, Goto, Ends, UploadKind
  <2>8. CASE Commit(j)  BY <1>1, <1>4, <2>8 DEF Commit, Publish, Discard, At, Goto, Ends
  <2>9. CASE Drop(j)  BY <1>1, <1>4, <2>9 DEF Drop, At, Goto, Ends
  <2> QED  BY <2>1, <2>2, <2>3, <2>4, <2>5, <2>6, <2>7, <2>8, <2>9 DEF Job
<1> QED  BY <1>2, <1>5

LEMMA JobBooks ==
    ASSUME Books, NEW j \in Jobs, Job(j), UNCHANGED <<owners, op>>
    PROVE  Books'
<1> USE DEF store, staging
<1>0. TypeOK'  BY JobType DEF Books
<1>1. op[j] \in Op /\ alive = uploads /\ size \in [Jobs -> Nat] /\ alive \subseteq Jobs
  BY DEF Books, TypeOK, Registry
<1>2. Moves(j) /\ Ends(j)  BY JobEnds
<1>3. pc[j] \in {"found", "checked"} => op[j].target \in Jobs /\ Begun(op[j].target)
  BY <1>1, OpFields DEF Books, Lookups, UploadKind
<1>4. Registry' /\ Refusals' /\ Lookups'  BY <1>2, JobUploads
<1>5. History' /\ Kept'
  <2>1. CASE Stage(j)  BY <1>1, <1>2, <2>1, JobKeeps DEF Stage
  <2>2. CASE Create(j)
    <3>1. CASE Fail(j)  BY <1>2, <3>1, JobKeeps DEF Fail
    <3>2. CASE Recheck(op[j]) /\ Publish(j, size[j]) /\ UNCHANGED <<staging, aborted>>
      <4>1. size[File(j)] = size[j] /\ size[j] \in Nat /\ op[j].kind = "create"
        BY <1>1, <2>2 DEF Create, At, File
      <4> QED  BY <1>2, <3>2, <4>1, JobPublishes DEF Recheck
    <3> QED  BY <2>2, <3>1, <3>2 DEF Create
  <2>3. CASE Begin(j)  BY <1>2, <2>3, JobKeeps DEF Begin, Fail
  <2>4. CASE Lookup(j)  BY <1>2, <2>4, JobKeeps DEF Lookup
  <2>5. CASE Abort(j)  BY <1>2, <2>5, JobKeeps DEF Abort
  <2>6. CASE AppendChunk(j)
    <3>1. CASE Fail(j)  BY <1>2, <3>1, JobKeeps DEF Fail
    <3>2. CASE Usable(j) /\ UNCHANGED <<store, uploads, alive>>
               /\ \E n \in 0..ItemLimit : size' = [size EXCEPT ![op[j].target] = @ + n]
      <4>1. op[j].target \in alive' /\ op[j].target \in Jobs  BY <1>1, <3>2 DEF Usable
      <4>2. \A i \in Jobs \ {op[j].target} : size'[i] = size[i]  BY <1>1, <3>2
      <4> QED  BY <1>2, <3>2, <4>1, <4>2, JobKeeps
    <3> QED  BY <2>6, <3>1, <3>2 DEF AppendChunk
  <2>7. CASE CommitCheck(j)  BY <1>2, <2>7, JobKeeps DEF CommitCheck, Fail
  <2>8. CASE Commit(j)
    <3>1. CASE ~Usable(j)  BY <1>2, <2>8, <3>1, JobKeeps DEF Commit
    <3>2. CASE Usable(j)
      <4>1. /\ Publish(j, size[op[j].target]) /\ Discard({op[j].target}) /\ UNCHANGED size
            /\ op[j].kind = "commit" /\ pc[j] = "checked"
        BY <2>8, <3>2 DEF Commit, At
      <4>2. File(j) = op[j].target /\ size[op[j].target] \in Nat  BY <1>1, <1>3, <4>1 DEF File
      <4> QED
        BY <1>2, <1>3, <3>2, <4>1, <4>2, JobPublishes DEF Usable, Recheck, Discard
    <3> QED  BY <3>1, <3>2
  <2>9. CASE Drop(j)  BY <1>2, <2>9, JobKeeps DEF Drop
  <2> QED  BY <2>1, <2>2, <2>3, <2>4, <2>5, <2>6, <2>7, <2>8, <2>9 DEF Job
<1> QED  BY <1>0, <1>4, <1>5 DEF Books

LEMMA NextBooks == Books /\ [Next]_vars => Books'
<1> SUFFICES ASSUME Books, [Next]_vars PROVE Books'
  OBVIOUS
<1>1. CASE Owners  BY <1>1, OwnersBooks
<1>2. CASE (\E j \in Jobs : Dispatch(j)) /\ UNCHANGED owners  BY <1>2, DispatchBooks
<1>3. CASE (\E j \in Jobs : Job(j)) /\ UNCHANGED <<owners, op>>  BY <1>3, JobBooks
<1>4. CASE UNCHANGED vars
  BY <1>4 DEF Books, TypeOK, Registry, Refusals, Lookups, History, Kept, Begun, Registered, File,
              vars, owners, store, staging
<1> QED  BY <1>1, <1>2, <1>3, <1>4 DEF Next, Owners, Done

LEMMA BooksHold == Spec => []Books
BY InitBooks, NextBooks, PTL DEF Spec

\* For every set of sessions, runs and operations: no artifact is kept for a session
\* that is closed, not even one made by a job that outlived its request.
THEOREM NoArtifactOfClosedSession == Spec => []OwnedByOpenSession
<1>1. Books => OwnedByOpenSession  BY DEF Books, Kept, OwnedByOpenSession
<1> QED  BY <1>1, BooksHold, PTL

\* For every set of jobs: nothing is written to the file of an artifact.
THEOREM NoWriterAfterCommit == Spec => []Sealed
<1>1. Books => Sealed  BY DEF Books, Kept, Sealed
<1> QED  BY <1>1, BooksHold, PTL

-----------------------------------------------------------------------------
(* The places for uploads, and what becomes of an upload.                    *)

\* A step empties places, or it is the step that begins an upload and finds one.
LEMMA Places ==
    ASSUME Books, [Next]_vars
    PROVE  \/ uploads' \subseteq uploads
           \/ Cardinality(uploads) < UploadLimit /\ \E j \in Jobs : uploads' = uploads \cup {j}
<1>1. CASE Owners
  BY <1>1 DEF Owners, RegisterOwner, RemoveOwner, RegisterRun, EndRun, Discard, staging
<1>2. CASE (\E j \in Jobs : Dispatch(j)) /\ UNCHANGED owners  BY <1>2 DEF Dispatch, staging
<1>3. CASE (\E j \in Jobs : Job(j)) /\ UNCHANGED <<owners, op>>
  BY <1>3 DEF Job, Stage, Create, Begin, Lookup, Abort, AppendChunk, CommitCheck, Commit, Drop,
              Fail, Discard, staging
<1>4. CASE UNCHANGED vars  BY <1>4 DEF vars, staging
<1> QED  BY <1>1, <1>2, <1>3, <1>4 DEF Next, Owners, Done

\* For every limit: the places for unfinished uploads are never overdrawn, and whoever
\* has one is a run that is still live in a session that is open.
THEOREM UploadsBelongToLiveRuns == Spec => []UploadsOfLiveRuns
<1> DEFINE Bounded == Books /\ Cardinality(uploads) <= UploadLimit
<1>1. Init => Bounded  BY InitBooks, FS_EmptySet DEF Init
<1>2. Bounded /\ [Next]_vars => Bounded'
  <2> SUFFICES ASSUME Bounded, [Next]_vars PROVE Bounded'
    OBVIOUS
  <2>1. Books'  BY NextBooks
  <2>2. IsFiniteSet(uploads)  BY FS_Subset DEF Books, TypeOK
  <2>3. Cardinality(uploads) \in Nat  BY <2>2, FS_CardinalityType
  <2>4. CASE uploads' \subseteq uploads
    <3>1. Cardinality(uploads') <= Cardinality(uploads) /\ Cardinality(uploads') \in Nat
      BY <2>2, <2>4, FS_Subset, FS_CardinalityType
    <3> QED  BY <2>1, <2>3, <3>1
  <2>5. CASE Cardinality(uploads) < UploadLimit /\ \E j \in Jobs : uploads' = uploads \cup {j}
    <3>1. PICK j \in Jobs : uploads' = uploads \cup {j}  BY <2>5
    <3>2. \/ Cardinality(uploads') = Cardinality(uploads)
          \/ Cardinality(uploads') = Cardinality(uploads) + 1
      BY <2>2, <3>1, FS_AddElement
    <3> QED  BY <2>1, <2>3, <2>5, <3>2
  <2> QED  BY <2>4, <2>5, Places
<1>3. Bounded => UploadsOfLiveRuns
  BY DEF Books, Registry, Begun, UploadsOfLiveRuns
<1> QED  BY <1>1, <1>2, <1>3, PTL DEF Spec

\* What is published is a file of the job's own, or an upload that is alive.
LEMMA NewArtifact ==
    ASSUME Books, [Next]_vars, NEW c \in Jobs, age'[c] # age[c]
    PROVE  /\ Moves(c) /\ Ends(c)
           /\ \A d \in Jobs \ {c} : age'[d] = age[d]
           /\ \/ op[c].kind = "create" /\ File(c) = c
              \/ File(c) \in alive
<1>1. PICK j \in Jobs : Job(j) /\ UNCHANGED <<owners, op>>
  BY DEF Next, RegisterOwner, RemoveOwner, RegisterRun, EndRun, Dispatch, Done, vars, store
<1>2. \/ Create(j) /\ Publish(j, size[j])
      \/ Commit(j) /\ Usable(j) /\ Publish(j, size[op[j].target])
  <2>1. Create(j) \/ Commit(j)
    BY <1>1 DEF Job, Stage, Begin, Lookup, Abort, AppendChunk, CommitCheck, Drop, Fail, store
  <2>2. Create(j) => Publish(j, size[j])  BY DEF Create, Fail, store
  <2>3. Commit(j) => Usable(j) /\ Publish(j, size[op[j].target])  BY DEF Commit, store
  <2> QED  BY <2>1, <2>2, <2>3
<1>3. age \in [Jobs -> Nat]  BY DEF Books, TypeOK
<1>4. j = c /\ \A d \in Jobs \ {c} : age'[d] = age[d]  BY <1>2, <1>3 DEF Publish
<1>5. Moves(c) /\ Ends(c)  BY <1>1, <1>4, JobEnds
<1> QED  BY <1>2, <1>4, <1>5 DEF Create, Commit, At, File, Usable

LEMMA FileStays ==
    ASSUME Books, [Next]_vars, NEW c \in Jobs, age[c] # 0
    PROVE  File(c)' = File(c)
<1>1. pc[c] = "done" /\ op \in [Jobs -> Op]  BY DEF Books, TypeOK, History
<1>2. op'[c] = op[c]
  <2>1. CASE \E j \in Jobs : Dispatch(j)  BY <1>1, <2>1 DEF Dispatch
  <2>2. CASE op' = op  BY <2>2
  <2> QED  BY <2>1, <2>2 DEF Next, Done, vars
<1> QED  BY <1>2 DEF File

\* A new artifact has a file no other artifact has had.
LEMMA NewDiffers ==
    ASSUME Books, [Next]_vars, NEW c \in Jobs, age'[c] # age[c],
           NEW d \in Jobs \ {c}, age'[d] # 0
    PROVE  File(c)' # File(d)'
<1>1. /\ Moves(c) /\ Ends(c) /\ age[d] # 0
      /\ (op[c].kind = "create" /\ File(c) = c) \/ File(c) \in alive
  BY NewArtifact
<1>2. File(d)' = File(d) /\ File(d) # c /\ File(d) \notin alive  BY <1>1, PublishedStays
<1>3. File(c)' = File(c)  BY <1>1 DEF Moves, File
<1> QED  BY <1>1, <1>2, <1>3

\* For every set of jobs: no upload becomes two artifacts, whichever of its commits
\* and aborts the pool runs at the same time.
THEOREM UploadsPublishOnce == Spec => []PublishedOnce
<1> DEFINE Once == Books /\ PublishedOnce
<1>1. Init => Once  BY InitBooks DEF Init, PublishedOnce
<1>2. Once /\ [Next]_vars => Once'
  <2> SUFFICES ASSUME Once, [Next]_vars,
                      NEW c \in Jobs, NEW d \in Jobs, age'[c] # 0, age'[d] # 0, (File(c) = File(d))'
               PROVE  c = d
    BY NextBooks DEF PublishedOnce
  <2>1. CASE age'[c] # age[c]
    BY <2>1, NewDiffers
  <2>2. CASE age'[d] # age[d]
    BY <2>2, NewDiffers
  <2>3. CASE age'[c] = age[c] /\ age'[d] = age[d]
    BY <2>3, FileStays DEF PublishedOnce
  <2> QED  BY <2>1, <2>2, <2>3
<1> QED  BY <1>1, <1>2, PTL DEF Spec

\* For every set of jobs: an abort that has been answered is not undone by a commit
\* that was under way.
THEOREM AbortsAreFinal == Spec => AbortIsFinal
<1>1. ASSUME Books, [Next]_vars, NEW c \in Jobs, age[c] = 0, age'[c] # 0
      PROVE  File(c) \notin aborted
  <2>1. Moves(c) /\ ((op[c].kind = "create" /\ File(c) = c) \/ File(c) \in alive)
    BY <1>1, NewArtifact
  <2> QED  BY <1>1, <2>1 DEF Books, Refusals, Begun
<1>2. Books /\ [Next]_vars =>
          [\A c \in Jobs : age[c] = 0 /\ age'[c] # 0 => File(c) \notin aborted]_vars
  BY <1>1
<1> QED  BY <1>2, BooksHold, PTL DEF Spec, AbortIsFinal

-----------------------------------------------------------------------------
(* Sums over sets of jobs, which the community modules define by recursion.  *)

\* One of the sets of a nonempty family has the fewest elements.
LEMMA FewestExists ==
    ASSUME NEW X \in SUBSET SUBSET Jobs, X # {}
    PROVE  \E R \in X : \A Q \in X : Cardinality(R) <= Cardinality(Q)
<1> DEFINE sizes == {Cardinality(R) : R \in X}
<1>1. \A R \in X : Cardinality(R) \in Nat  BY FS_Subset, FS_CardinalityType
<1>2. sizes \subseteq Nat /\ sizes # {}  BY <1>1
<1> DEFINE less == OpToRel(<, Nat)
<1>3. IsWellFoundedOn(less, Nat)  BY NatLessThanWellFounded
<1>4. \A m, n \in Nat : <<m, n>> \in less <=> m < n  BY DEF OpToRel
<1> HIDE DEF less, sizes
<1>5. PICK n \in sizes : \A m \in sizes : ~(<<m, n>> \in less)  BY <1>2, <1>3, WFMin
<1>6. ASSUME NEW m \in sizes PROVE n <= m
  <2>1. m \in Nat /\ n \in Nat  BY <1>2
  <2>2. ~(m < n)  BY <1>4, <1>5, <2>1
  <2> QED  BY <2>1, <2>2
<1> QED  BY <1>6 DEF sizes

\* Taking an element away makes a set smaller.
LEMMA Smaller ==
    ASSUME NEW S \in SUBSET Jobs, NEW x \in S
    PROVE  S \ {x} \in SUBSET Jobs /\ ~(Cardinality(S) <= Cardinality(S \ {x}))
BY FS_Subset, FS_RemoveElement, FS_CardinalityType

\* The functions g that add up what w counts, over the subsets of S, one element at a
\* time, and the sum they give.
Pick(s) == CHOOSE x \in s : TRUE
Adds(g, w, S) ==
    g = [s \in SUBSET S |-> IF s = {} THEN 0 ELSE w[Pick(s)] + g[s \ {Pick(s)}]]
Sum(w, S) == (CHOOSE g : Adds(g, w, S))[S]

\* The bytes of a set of artifacts are such a sum.
LEMMA BytesIsSum == \A S : Bytes(S) = Sum(sealed, S)
BY DEF Bytes, MapThenSumSet, MapThenFoldSet, Sum, Adds, Pick

LEMMA PickIn == \A s : s # {} => Pick(s) \in s
BY DEF Pick

\* What one step of the recursion says.
LEMMA AddsAt ==
    ASSUME NEW g, NEW w, NEW S, Adds(g, w, S), NEW U \in SUBSET S
    PROVE  g[U] = IF U = {} THEN 0 ELSE w[Pick(U)] + g[U \ {Pick(U)}]
BY DEF Adds

\* Two ways of adding up agree on the sets both know.
LEMMA AddsAgree ==
    ASSUME NEW S \in SUBSET Jobs, NEW T \in SUBSET Jobs, NEW g, NEW h, NEW w, NEW v,
           Adds(g, w, S), Adds(h, v, T),
           NEW U \in SUBSET (S \cap T), \A x \in U : w[x] = v[x]
    PROVE  g[U] = h[U]
<1> DEFINE X == {R \in SUBSET U : g[R] # h[R]}
<1>1. SUFFICES ASSUME X # {} PROVE FALSE  OBVIOUS
<1>2. PICK R \in X : \A Q \in X : Cardinality(R) <= Cardinality(Q)
  <2> HIDE DEF X
  <2>1. X \in SUBSET SUBSET Jobs  BY DEF X
  <2> QED  BY <1>1, <2>1, FewestExists
<1>3. R \subseteq U /\ g[R] # h[R]  OBVIOUS
<1>4. R # {}  BY <1>3, AddsAt
<1>5. Pick(R) \in R  BY <1>4, PickIn
<1>6. g[R \ {Pick(R)}] = h[R \ {Pick(R)}]  BY <1>2, <1>3, <1>5, Smaller
<1>7. g[R] = w[Pick(R)] + g[R \ {Pick(R)}]  BY <1>3, <1>4, AddsAt
<1>8. h[R] = v[Pick(R)] + h[R \ {Pick(R)}]  BY <1>3, <1>4, AddsAt
<1> QED  BY <1>3, <1>5, <1>6, <1>7, <1>8

\* The recursion has a solution.
LEMMA AddsExists ==
    ASSUME NEW w, NEW S \in SUBSET Jobs
    PROVE  \E g : Adds(g, w, S)
<1> DEFINE X == {R \in SUBSET Jobs : ~ \E g : Adds(g, w, R)}
<1>1. SUFFICES ASSUME X # {} PROVE FALSE  OBVIOUS
<1>2. PICK R \in X : \A Q \in X : Cardinality(R) <= Cardinality(Q)
  <2> HIDE DEF X
  <2>1. X \in SUBSET SUBSET Jobs  BY DEF X
  <2> QED  BY <1>1, <2>1, FewestExists
<1> DEFINE Sol(T) == CHOOSE g : Adds(g, w, T)
           part == [s \in SUBSET R |-> IF s = {} THEN 0 ELSE w[Pick(s)] + Sum(w, s \ {Pick(s)})]
<1>3. ASSUME NEW T \in SUBSET R, NEW x \in R, x \notin T PROVE \E g : Adds(g, w, T)
  <2>1. T \subseteq R \ {x}  BY <1>3
  <2>2. Cardinality(T) <= Cardinality(R \ {x})
    BY <2>1, FS_Subset
  <2>3. Cardinality(T) \in Nat /\ Cardinality(R \ {x}) \in Nat /\ Cardinality(R) \in Nat
    BY FS_Subset, FS_CardinalityType, Smaller
  <2>4. ~(Cardinality(R) <= Cardinality(T))  BY <1>3, <2>2, <2>3, Smaller
  <2> QED  BY <1>2, <2>4
<1>4. ASSUME NEW T \in SUBSET R, NEW x \in R, x \notin T PROVE part[T] = Sum(w, T)
  <2>1. Adds(Sol(T), w, T)  BY <1>3, <1>4
  <2>2. Sum(w, T) = Sol(T)[T]  BY DEF Sum
  <2> HIDE DEF Sol
  <2>3. CASE T = {}  BY <2>1, <2>2, <2>3, AddsAt
  <2>4. CASE T # {}
    <3> DEFINE V == T \ {Pick(T)}
    <3>1. Sol(T)[T] = w[Pick(T)] + Sol(T)[V]  BY <2>1, <2>4, AddsAt
    <3>2. V \in SUBSET R /\ x \notin V  BY <1>4
    <3>3. Adds(Sol(V), w, V)  BY <1>3, <1>4, <3>2 DEF Sol
    <3>4. Sum(w, V) = Sol(V)[V]  BY DEF Sum, Sol
    <3> HIDE DEF V
    <3>5. V \subseteq T  BY DEF V
    <3>6. Sol(T)[V] = Sol(V)[V]
      <4>1. T \in SUBSET Jobs /\ V \in SUBSET Jobs  BY <3>5
      <4>2. V \in SUBSET (T \cap V) /\ \A z \in V : w[z] = w[z]  BY <3>5
      <4> QED  BY <2>1, <3>3, <4>1, <4>2, AddsAgree
    <3>7. part[T] = w[Pick(T)] + Sum(w, V)  BY <2>4 DEF V
    <3> QED  BY <2>2, <3>1, <3>4, <3>6, <3>7
  <2> QED  BY <2>3, <2>4
<1>5. \A s \in SUBSET R : s # {} => part[s \ {Pick(s)}] = Sum(w, s \ {Pick(s)})
  BY <1>4, PickIn
<1>6. part = [s \in SUBSET R |-> IF s = {} THEN 0 ELSE w[Pick(s)] + part[s \ {Pick(s)}]]
  BY <1>5
<1>7. Adds(part, w, R)  BY <1>6 DEF Adds
<1> QED  BY <1>7

\* So a sum is what any such function gives.
LEMMA SumSolves ==
    ASSUME NEW w, NEW S \in SUBSET Jobs
    PROVE  \E g : Adds(g, w, S) /\ Sum(w, S) = g[S]
BY AddsExists DEF Sum

\* Only what the summed elements count matters.
LEMMA SumAgrees ==
    ASSUME NEW w, NEW v, NEW S \in SUBSET Jobs, \A x \in S : w[x] = v[x]
    PROVE  Sum(w, S) = Sum(v, S)
<1>1. PICK g : Adds(g, w, S) /\ Sum(w, S) = g[S]  BY SumSolves
<1>2. PICK h : Adds(h, v, S) /\ Sum(v, S) = h[S]  BY SumSolves
<1>3. S \in SUBSET (S \cap S)  OBVIOUS
<1>4. g[S] = h[S]  BY <1>1, <1>2, <1>3, AddsAgree
<1> QED  BY <1>1, <1>2, <1>4

LEMMA SumEmpty == \A w : Sum(w, {}) = 0
<1> TAKE w
<1>1. {} \in SUBSET Jobs  OBVIOUS
<1>2. PICK g : Adds(g, w, {}) /\ Sum(w, {}) = g[{}]  BY <1>1, SumSolves
<1>3. {} \in SUBSET {}  OBVIOUS
<1>4. g[{}] = 0  BY <1>2, <1>3, AddsAt
<1> QED  BY <1>2, <1>4

\* A sum is one element and the sum of the others.
LEMMA SumPick ==
    ASSUME NEW w, NEW S \in SUBSET Jobs, S # {}
    PROVE  Sum(w, S) = w[Pick(S)] + Sum(w, S \ {Pick(S)})
<1> DEFINE V == S \ {Pick(S)}
<1>1. V \in SUBSET Jobs /\ V \in SUBSET (S \cap V) /\ S \in SUBSET S  OBVIOUS
<1>2. PICK g : Adds(g, w, S) /\ Sum(w, S) = g[S]  BY SumSolves
<1>3. g[S] = w[Pick(S)] + g[V]  BY <1>1, <1>2, AddsAt
<1> HIDE DEF V
<1>4. PICK h : Adds(h, w, V) /\ Sum(w, V) = h[V]  BY <1>1, SumSolves
<1>5. \A x \in V : w[x] = w[x]  OBVIOUS
<1>6. g[V] = h[V]
  <2>1. V \in SUBSET Jobs /\ V \in SUBSET (S \cap V)  BY <1>1
  <2>2. Adds(g, w, S) /\ Adds(h, w, V)  BY <1>2, <1>4
  <2> QED  BY <2>1, <2>2, <1>5, AddsAgree, SMTT(30)
<1> QED  BY <1>2, <1>3, <1>4, <1>6 DEF V

\* From here on each job counts for a number.
Counts == [Jobs -> Nat]

LEMMA SumType ==
    ASSUME NEW w \in Counts, NEW S \in SUBSET Jobs
    PROVE  Sum(w, S) \in Nat
<1> DEFINE X == {R \in SUBSET Jobs : Sum(w, R) \notin Nat}
<1>1. SUFFICES ASSUME X # {} PROVE FALSE  OBVIOUS
<1>2. PICK R \in X : \A Q \in X : Cardinality(R) <= Cardinality(Q)
  <2> HIDE DEF X
  <2>1. X \in SUBSET SUBSET Jobs  BY DEF X
  <2> QED  BY <1>1, <2>1, FewestExists
<1>3. R # {} /\ Pick(R) \in R  BY SumEmpty, PickIn
<1>4. Sum(w, R \ {Pick(R)}) \in Nat  BY <1>2, <1>3, Smaller
<1>5. w[Pick(R)] \in Nat  BY <1>3 DEF Counts
<1>6. Sum(w, R) = w[Pick(R)] + Sum(w, R \ {Pick(R)})  BY <1>3, SumPick
<1> QED  BY <1>4, <1>5, <1>6

\* Every element can be the first one that is added.
LEMMA SumSplits ==
    ASSUME NEW w \in Counts, NEW S \in SUBSET Jobs, NEW x \in S
    PROVE  Sum(w, S) = w[x] + Sum(w, S \ {x})
<1> DEFINE X == {R \in SUBSET Jobs : \E y \in R : Sum(w, R) # w[y] + Sum(w, R \ {y})}
<1>1. SUFFICES ASSUME X # {} PROVE FALSE  OBVIOUS
<1>2. PICK R \in X : \A Q \in X : Cardinality(R) <= Cardinality(Q)
  <2> HIDE DEF X
  <2>1. X \in SUBSET SUBSET Jobs  BY DEF X
  <2> QED  BY <1>1, <2>1, FewestExists
<1>3. R \in SUBSET Jobs  OBVIOUS
<1>4. PICK y \in R : Sum(w, R) # w[y] + Sum(w, R \ {y})  OBVIOUS
<1>5. \A z \in R : R \ {z} \in SUBSET Jobs /\ R \ {z} \notin X
  BY <1>2, Smaller
<1>6. \A z \in R : \A u \in R \ {z} : Sum(w, R \ {z}) = w[u] + Sum(w, (R \ {z}) \ {u})
  BY <1>5
<1> DEFINE p == Pick(R)
<1>7. p \in R /\ Sum(w, R) = w[p] + Sum(w, R \ {p})  BY <1>3, <1>4, SumPick, PickIn
<1>8. p # y  BY <1>4, <1>7
<1> HIDE DEF p, X
<1>9. Sum(w, R \ {p}) = w[y] + Sum(w, (R \ {p}) \ {y})  BY <1>4, <1>6, <1>7, <1>8
<1>10. Sum(w, R \ {y}) = w[p] + Sum(w, (R \ {y}) \ {p})  BY <1>4, <1>6, <1>7, <1>8
<1>11. (R \ {y}) \ {p} = (R \ {p}) \ {y}  OBVIOUS
<1>12. Sum(w, (R \ {p}) \ {y}) \in Nat /\ w[y] \in Nat /\ w[p] \in Nat
  <2>1. (R \ {p}) \ {y} \in SUBSET Jobs  BY <1>3
  <2> QED  BY <1>3, <1>4, <1>7, <2>1, SumType DEF Counts
<1> QED  BY <1>4, <1>7, <1>9, <1>10, <1>11, <1>12

\* Fewer elements do not add up to more.
LEMMA SumMonotone ==
    ASSUME NEW w \in Counts, NEW S \in SUBSET Jobs, NEW T \in SUBSET S
    PROVE  Sum(w, T) <= Sum(w, S)
<1> DEFINE X == {R \in SUBSET S : T \subseteq R /\ ~(Sum(w, T) <= Sum(w, R))}
<1>1. SUFFICES ASSUME X # {} PROVE FALSE  OBVIOUS
<1>2. PICK R \in X : \A Q \in X : Cardinality(R) <= Cardinality(Q)
  <2> HIDE DEF X
  <2>1. X \in SUBSET SUBSET Jobs  BY DEF X
  <2> QED  BY <1>1, <2>1, FewestExists
<1>3. R \in SUBSET Jobs /\ T \in SUBSET Jobs /\ T \subseteq R  OBVIOUS
<1>4. Sum(w, T) \in Nat  BY <1>3, SumType
<1>5. PICK x \in R : x \notin T  BY <1>2, <1>4
<1>6. R \ {x} \notin X  BY <1>2, <1>3, Smaller
<1>7. Sum(w, T) <= Sum(w, R \ {x})  BY <1>3, <1>5, <1>6
<1>8. Sum(w, R) = w[x] + Sum(w, R \ {x}) /\ w[x] \in Nat  BY <1>3, SumSplits DEF Counts
<1>9. R \ {x} \in SUBSET Jobs  BY <1>3
<1>10. Sum(w, R \ {x}) \in Nat  BY <1>9, SumType
<1> QED  BY <1>2, <1>4, <1>7, <1>8, <1>10

-----------------------------------------------------------------------------
(* What is evicted.                                                          *)

\* Positions in the order of publication are given once, one after the other.
Published == {c \in Jobs : age[c] # 0}
Positions == /\ \A c \in Jobs : age[c] <= Cardinality(Published)
             /\ \A c, d \in Jobs : age[c] = age[d] /\ age[c] # 0 => c = d
Bounds == Cardinality(entries) <= CountLimit /\ Bytes(entries) <= TotalLimit

LEMMA BytesKept == Bytes(entries) = Sum(sealed, entries)
BY BytesIsSum

\* The same of the next state.
LEMMA BytesKeptNext == Bytes(entries)' = Sum(sealed', entries')
<1>1. (Bytes(entries) = Sum(sealed, entries))'  BY BytesKept, PTL
<1> QED  BY <1>1

\* An empty store has room for every artifact, so there is always a choice.
LEMMA EvictedFits ==
    ASSUME Books, NEW n \in 0..ItemLimit
    PROVE  /\ Evicted(n) \in Oldest /\ ~Exceeds(entries \ Evicted(n), n)
           /\ \A Q \in Oldest :
                 ~Exceeds(entries \ Q, n) => Cardinality(Evicted(n)) <= Cardinality(Q)
<1> DEFINE X == {R \in Oldest : ~Exceeds(entries \ R, n)}
<1>1. entries \in Oldest  BY DEF Oldest
<1>2. ~Exceeds(entries \ entries, n)
  <2>1. entries \ entries = {}  OBVIOUS
  <2>2. Bytes({}) = 0  BY BytesIsSum, SumEmpty
  <2> QED  BY <2>1, <2>2, FS_EmptySet DEF Exceeds
<1>3. X \in SUBSET SUBSET Jobs /\ X # {}  BY <1>1, <1>2 DEF Books, TypeOK, Oldest
<1>4. \E R \in X : \A Q \in X : Cardinality(R) <= Cardinality(Q)
  <2> HIDE DEF X
  <2> QED  BY <1>3, FewestExists
<1>5. \E R \in Oldest : /\ ~Exceeds(entries \ R, n)
                        /\ \A Q \in Oldest : ~Exceeds(entries \ Q, n) => Cardinality(R) <= Cardinality(Q)
  BY <1>4
<1> QED  BY <1>5 DEF Evicted

\* A job that publishes makes room by forgetting the oldest artifacts and no more of
\* them than it has to.
LEMMA PublishEvicts ==
    ASSUME Books, Positions, Bounds, NEW j \in Jobs, NEW n \in 0..ItemLimit, age[j] = 0,
           Publish(j, n)
    PROVE  /\ Positions' /\ Bounds' /\ entries' \ entries = {j}
           /\ \A c \in Lost :
                 /\ \A d \in entries' \cap entries : age[c] < age[d]
                 /\ (\A d \in Lost : age[d] <= age[c]) =>
                       Exceeds((entries' \ {j}) \cup {c}, sealed'[j])
<1>1. /\ entries \in SUBSET Jobs /\ age \in [Jobs -> Nat] /\ sealed \in [Jobs -> Nat]
      /\ j \notin entries
  BY DEF Books, TypeOK, Kept
<1> DEFINE E == Evicted(n)
           K == entries \ E
<1>2. /\ E \in Oldest /\ ~Exceeds(K, n)
      /\ \A Q \in Oldest : ~Exceeds(entries \ Q, n) => Cardinality(E) <= Cardinality(Q)
  BY EvictedFits
<1>3. entries' = K \cup {j} /\ sealed' = [sealed EXCEPT ![j] = n]
  BY DEF Publish
<1> HIDE DEF E
<1>4. E \subseteq entries /\ \A c \in E, d \in K : age[c] < age[d]  BY <1>2 DEF Oldest
<1>5. /\ entries' \ entries = {j} /\ entries' \ {j} = K /\ entries' \cap entries = K
      /\ Lost = E /\ sealed'[j] = n
  BY <1>1, <1>3, <1>4 DEF Lost
<1>6. ASSUME NEW c \in E, \A d \in E : age[d] <= age[c] PROVE Exceeds(K \cup {c}, n)
  <2> DEFINE Q == E \ {c}
  <2>1. entries \ Q = K \cup {c}  BY <1>4
  <2>2. Q \in SUBSET entries  BY <1>4
  <2>3. ASSUME NEW a \in Q, NEW d \in entries \ Q PROVE age[a] < age[d]
    <3>1. CASE d \in K  BY <1>4, <3>1
    <3>2. CASE d = c
      <4>1. a \in Jobs /\ c \in Jobs /\ a # c /\ age[a] <= age[c]  BY <1>1, <1>4, <1>6
      <4>2. age[a] # age[c]
        <5>1. age[a] # 0  BY <1>4 DEF Books, Kept
        <5> QED  BY <4>1, <5>1 DEF Positions
      <4> QED  BY <1>1, <3>2, <4>1, <4>2
    <3> QED  BY <2>1, <3>1, <3>2
  <2>4. Q \in Oldest  BY <2>2, <2>3 DEF Oldest
  <2>5. ~(Cardinality(E) <= Cardinality(Q))  BY <1>1, <1>4, Smaller
  <2> QED  BY <1>2, <2>1, <2>4, <2>5
<1>7. Cardinality(entries') <= CountLimit
  <2>1. IsFiniteSet(K) /\ Cardinality(K) \in Nat
    BY <1>1, FS_Subset, FS_CardinalityType
  <2>2. j \notin K /\ Cardinality(K) < CountLimit  BY <1>1, <1>2, <2>1 DEF Exceeds
  <2>3. Cardinality(K \cup {j}) = Cardinality(K) + 1  BY <2>1, <2>2, FS_AddElement
  <2> QED  BY <1>3, <2>1, <2>2, <2>3
<1>8. Bytes(entries)' <= TotalLimit
  <2>1. Bytes(entries)' = Sum(sealed', entries')  BY BytesKeptNext
  <2>2. sealed \in Counts /\ sealed' \in Counts  BY <1>1, <1>3 DEF Counts
  <2>3. K \in SUBSET Jobs /\ entries' \in SUBSET Jobs /\ j \in entries' /\ entries' \ {j} = K
    BY <1>1, <1>3, <1>5
  <2>4. Sum(sealed', entries') = n + Sum(sealed', K)  BY <1>5, <2>2, <2>3, SumSplits
  <2>5. Sum(sealed', K) = Sum(sealed, K)
    <3>1. \A x \in K : sealed'[x] = sealed[x]  BY <1>1, <1>3
    <3> QED  BY <2>3, <3>1, SumAgrees
  <2>6. Sum(sealed, K) \in Nat  BY <2>2, <2>3, SumType
  <2>7. ~(Bytes(K) + n > TotalLimit) /\ Bytes(K) = Sum(sealed, K)
    BY <1>2, BytesIsSum DEF Exceeds
  <2> QED  BY <2>1, <2>4, <2>5, <2>6, <2>7
<1>9. Positions'
  <2>1. age' = [age EXCEPT ![j] = 1 + Cardinality(Published)]  BY DEF Publish, Published
  <2>2. IsFiniteSet(Published) /\ Cardinality(Published) \in Nat
    BY FS_Subset, FS_CardinalityType DEF Published
  <2>3. Published' = Published \cup {j} /\ j \notin Published
    BY <1>1, <2>1, <2>2 DEF Published
  <2>4. Cardinality(Published') = Cardinality(Published) + 1  BY <2>2, <2>3, FS_AddElement
  <2>5. \A c \in Jobs : age'[c] = (IF c = j THEN 1 + Cardinality(Published) ELSE age[c])
    BY <1>1, <2>1
  <2>6. \A c \in Jobs : age[c] \in Nat /\ age[c] <= Cardinality(Published)
    BY <1>1 DEF Positions
  <2>7. \A c \in Jobs : age'[c] <= Cardinality(Published')  BY <2>2, <2>4, <2>5, <2>6
  <2>8. \A c, d \in Jobs : age'[c] = age'[d] /\ age'[c] # 0 => c = d
    BY <2>2, <2>5, <2>6 DEF Positions
  <2> QED  BY <2>7, <2>8 DEF Positions
<1> QED  BY <1>4, <1>5, <1>6, <1>7, <1>8, <1>9 DEF Bounds

\* A step publishes one artifact, or it only takes some away, and is asked to.
LEMMA Losing ==
    ASSUME Books, [Next]_vars
    PROVE  \/ \E j \in Jobs, n \in 0..ItemLimit : age[j] = 0 /\ Publish(j, n)
           \/ /\ UNCHANGED <<age, sealed>> /\ entries' \subseteq entries
              /\ \A c \in Lost :
                    \/ session'[op[c].session] = "closed"
                    \/ \E j \in Jobs : op[j].kind = "drop" /\ op[j].target = c /\ pc[j] # pc'[j]
<1> USE DEF store, Lost
<1>1. CASE Owners
  <2>1. ASSUME NEW s \in Sessions, RemoveOwner(s)
        PROVE  /\ entries' \subseteq entries /\ UNCHANGED <<age, sealed>>
               /\ \A c \in Lost : session'[op[c].session] = "closed"
    BY <2>1 DEF RemoveOwner, Books, TypeOK
  <2>2. CASE UNCHANGED store  BY <2>2
  <2> QED  BY <1>1, <2>1, <2>2 DEF Owners, RegisterOwner, RegisterRun, EndRun
<1>2. CASE \E j \in Jobs : Dispatch(j)  BY <1>2 DEF Dispatch
<1>3. ASSUME NEW j \in Jobs, Job(j), UNCHANGED <<owners, op>>
      PROVE  \/ \E n \in 0..ItemLimit : age[j] = 0 /\ Publish(j, n)
             \/ UNCHANGED store
             \/ /\ UNCHANGED <<age, sealed>> /\ entries' \subseteq entries
                /\ \A c \in Lost : op[j].kind = "drop" /\ op[j].target = c /\ pc[j] # pc'[j]
  <2>1. op[j] \in Op /\ size \in [Jobs -> 0..ItemLimit] /\ (pc[j] # "done" => age[j] = 0)
    BY DEF Books, TypeOK, History
  <2>2. CASE Create(j)  BY <2>1, <2>2 DEF Create, At, Fail, Books, TypeOK, History
  <2>3. CASE Commit(j)
    <3>1. op[j].target \in Jobs  BY <2>1, <2>3, OpFields DEF Commit, At
    <3> QED  BY <2>3, <3>1 DEF Commit, At, Books, TypeOK, History
  <2>4. CASE Drop(j)
    <3>1. /\ entries' = {c \in entries : c # op[j].target \/ op[c].session # op[j].session}
          /\ UNCHANGED <<age, sealed>> /\ op[j].kind = "drop" /\ pc[j] = "start"
          /\ pc' = [pc EXCEPT ![j] = "done"]
      BY <2>4 DEF Drop, At, Goto
    <3>2. pc'[j] = "done"  BY <3>1 DEF Books, TypeOK
    <3> QED  BY <3>1, <3>2
  <2>5. CASE UNCHANGED store  BY <2>5
  <2> QED  BY <1>3, <2>2, <2>3, <2>4, <2>5
           DEF Job, Stage, Begin, Lookup, Abort, AppendChunk, CommitCheck, Fail
<1>4. CASE UNCHANGED vars  BY <1>4 DEF vars
<1> QED  BY <1>1, <1>2, <1>3, <1>4 DEF Next, Owners, Done

\* The store keeps its limits while positions say in which order artifacts came.
LEMMA LimitsKept ==
    ASSUME Books, Positions, Bounds, [Next]_vars
    PROVE  Positions' /\ Bounds'
<1>1. CASE \E j \in Jobs, n \in 0..ItemLimit : age[j] = 0 /\ Publish(j, n)
  BY <1>1, PublishEvicts
<1>2. CASE UNCHANGED <<age, sealed>> /\ entries' \subseteq entries
  <2>1. Positions'  BY <1>2 DEF Positions, Published
  <2>2. entries \in SUBSET Jobs /\ entries' \in SUBSET entries /\ sealed \in Counts
    BY <1>2 DEF Books, TypeOK, Counts
  <2>3. Cardinality(entries') <= CountLimit
    <3>1. IsFiniteSet(entries)  BY <2>2, FS_Subset
    <3>2. /\ IsFiniteSet(entries') /\ Cardinality(entries') <= Cardinality(entries)
      BY <2>2, <3>1, FS_Subset
    <3> QED  BY <3>1, <3>2, FS_CardinalityType DEF Bounds
  <2>4. Bytes(entries)' <= TotalLimit
    <3>1. Bytes(entries)' = Sum(sealed, entries')  BY <1>2, BytesKeptNext
    <3>2. Sum(sealed, entries') <= Sum(sealed, entries)  BY <2>2, SumMonotone
    <3>3. Sum(sealed, entries') \in Nat /\ Sum(sealed, entries) \in Nat  BY <2>2, SumType
    <3>4. Bytes(entries) = Sum(sealed, entries)  BY BytesIsSum
    <3> QED  BY <3>1, <3>2, <3>3, <3>4 DEF Bounds
  <2> QED  BY <2>1, <2>3, <2>4 DEF Bounds
<1> QED  BY <1>1, <1>2, Losing

\* For any limits: the store never exceeds them, and an artifact that is lost to another
\* one is older than all that stay and had to go.
THEOREM EvictionIsMinimal == Spec => EvictsOldestFirst
<1> DEFINE Inv == Books /\ Positions /\ Bounds
<1>1. Init => Inv
  <2> SUFFICES ASSUME Init PROVE Positions /\ Bounds  BY InitBooks
  <2>1. Published = {}  BY DEF Init, Published
  <2>2. Positions  BY <2>1, FS_EmptySet DEF Init, Positions
  <2>3. Bytes({}) = 0 /\ entries = {}  BY BytesIsSum, SumEmpty DEF Init
  <2> QED  BY <2>2, <2>3, FS_EmptySet DEF Bounds
<1>2. Inv /\ [Next]_vars => Inv'  BY NextBooks, LimitsKept
<1> DEFINE Step == /\ Cardinality(entries') <= CountLimit /\ Bytes(entries)' <= TotalLimit
                   /\ \A c \in Lost :
                         \/ session'[op[c].session] = "closed"
                         \/ \E j \in Jobs : op[j].kind = "drop" /\ op[j].target = c /\ pc[j] # pc'[j]
                         \/ \E new \in entries' \ entries :
                               /\ \A d \in entries' \cap entries : age[c] < age[d]
                               /\ (\A d \in Lost : age[d] <= age[c]) =>
                                     Exceeds((entries' \ {new}) \cup {c}, sealed'[new])
<1>3. Inv /\ [Next]_vars => Step
  <2> SUFFICES ASSUME Inv, [Next]_vars PROVE Step  OBVIOUS
  <2>1. Bounds'  BY LimitsKept
  <2>2. CASE \E j \in Jobs, n \in 0..ItemLimit : age[j] = 0 /\ Publish(j, n)
    BY <2>1, <2>2, PublishEvicts DEF Bounds
  <2>3. CASE \A c \in Lost :
                 \/ session'[op[c].session] = "closed"
                 \/ \E j \in Jobs : op[j].kind = "drop" /\ op[j].target = c /\ pc[j] # pc'[j]
    BY <2>1, <2>3 DEF Bounds
  <2> QED  BY <2>2, <2>3, Losing
<1>4. Inv /\ [Next]_vars => [Step]_vars  BY <1>3
<1> QED  BY <1>1, <1>2, <1>4, PTL DEF Spec, EvictsOldestFirst
=============================================================================

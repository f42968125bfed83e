-------------------------------- MODULE Journal --------------------------------
(*****************************************************************************)
(* The journal of external effects: native/src/broker.rs, the CallRecord,    *)
(* the coalescing writer, and recovery with --journal.                       *)
(*                                                                           *)
(* A call to a downstream tool is entered as "dispatched", the journal is    *)
(* written to the file, and only then is the request sent.  One background   *)
(* writer serves all calls: it writes whole snapshots and publishes the      *)
(* number of the last request they cover.  All brokers share one journal.    *)
(*                                                                           *)
(* A journal is a function from the calls it records to their status; order  *)
(* gives their position.  `disk` is the file a restart would read, `stable`  *)
(* the file that survives a power loss: a rename is stable once the directory *)
(* has been synced.  Of the metadata, Fits abstracts the bytes of the file,  *)
(* and Plain the calls whose strings a start accepts.  Fits stands for the   *)
(* 900000 bytes on entry and the 1 MiB at the start: the terminal fields of  *)
(* 256 records take less than the difference.                                *)
(*****************************************************************************)
EXTENDS Integers, FiniteSets

CONSTANTS Calls,        \* the downstream calls
          Old,          \* those the file records when the server starts
          Limit,        \* records kept (256 in the code)
          Fits(_),      \* the metadata of these calls is within the byte limit
          Plain,        \* tool name and project are short and without control characters
          MaxCrashes    \* bound on the crashes explored

ASSUME JournalAssumption ==
    /\ IsFiniteSet(Calls) /\ Plain \in SUBSET Calls /\ Old \in SUBSET Plain
    /\ Cardinality(Old) <= Limit /\ Fits(Old)
    /\ Limit \in Nat \ {0} /\ MaxCrashes \in Nat
    /\ \A S \in SUBSET Calls : Fits(S) \in BOOLEAN
    /\ \A S \in SUBSET Calls : \A T \in SUBSET S : Fits(S) => Fits(T)  \* fewer bytes

VARIABLES
    journal,      \* the records in memory
    disk, stable, \* the records in the file
    order,        \* position of each record, 0 before it is entered
    requested,    \* number of writes asked for
    completed,    \* the last of them a snapshot has covered
    failed,       \* the last snapshot could not be written
    writer,       \* where the writer task stands, "idle" when there is none
    target,       \* the request the writer's next snapshot will cover
    snapshot,     \* the records it is writing
    notices,      \* writers that have stopped but still have to notify
    pc,           \* where each call stands
    finished,     \* CallRecord.finished
    ticket,       \* the write each call waits for
    woken,        \* the waiting call has been notified
    runtime,      \* the server process: "up", "down", "opening"
    crashes,
    sent,         \* history: the request may have reached the tool
    answered,     \* history: how the call ended
    told,         \* history: what the caller has been told
    evicted       \* history: calls whose record made room for others

files == <<disk, stable>>
io    == <<requested, completed, failed, writer, target, snapshot, notices>>
call  == <<pc, finished, ticket, woken>>
past  == <<sent, answered, told>>
vars  == <<journal, evicted, order, files, io, call, runtime, crashes, past>>

Status == {"dispatched", "completed", "tool_error", "outcome_unknown"}
Records == UNION {[S -> Status] : S \in SUBSET Calls}
Empty == [c \in {} |-> "dispatched"]

OldRecords == [c \in Old |-> "completed"]

\* A start with the file an earlier process has left.
Init ==
    /\ journal = OldRecords /\ disk = OldRecords /\ stable = OldRecords
    /\ snapshot = Empty
    /\ \E position \in [Old -> 1..Cardinality(Old)] :
          /\ \A c, d \in Old : position[c] = position[d] => c = d
          /\ order = [c \in Calls |-> IF c \in Old THEN position[c] ELSE 0]
    /\ requested = 0 /\ completed = 0 /\ target = 0 /\ notices = 0
    /\ failed = FALSE /\ writer = "idle"
    /\ pc = [c \in Calls |-> IF c \in Old THEN "done" ELSE "idle"]
    /\ finished = [c \in Calls |-> FALSE]
    /\ ticket = [c \in Calls |-> 0]
    /\ woken = [c \in Calls |-> FALSE]
    /\ runtime = "up" /\ crashes = 0
    /\ sent = [c \in Calls |-> c \in Old]
    /\ answered = [c \in Calls |-> IF c \in Old THEN "completed" ELSE "none"]
    /\ told = [c \in Calls |-> "nothing"]
    /\ evicted = {}

-----------------------------------------------------------------------------
(* Entering a call: one critical section of the journal's mutex.             *)

AnyRecord(j) == DOMAIN j           \* mutant: in-flight records can go, too
Terminal(j) == {c \in DOMAIN j : j[c] # "dispatched"}

Full == Cardinality(DOMAIN journal) >= Limit

Without(j, S) == [c \in DOMAIN j \ S |-> j[c]]
With(j, c, s) == [d \in DOMAIN j \cup {c} |-> IF d = c THEN s ELSE j[d]]

\* The oldest terminal records of j, as many as a prefix can have.
Prefixes(j) == {R \in SUBSET Terminal(j) :
                   \A c \in R, d \in Terminal(j) \ R : order[c] < order[d]}

\* A full journal loses its oldest terminal record.
OneEvicted == {R \in Prefixes(journal) : Cardinality(R) = 1}
Room == IF Full THEN Without(journal, UNION OneEvicted) ELSE journal
Entered(c) == With(Room, c, "dispatched")

\* Then as many more as it takes to respect the byte budget.
EnoughAlways(c) == Prefixes(Entered(c))   \* mutant: no byte budget
Enough(c) == {R \in Prefixes(Entered(c)) : Fits(DOMAIN Entered(c) \ R)}
Fewest(X) == CHOOSE R \in X : \A Q \in X : Cardinality(R) <= Cardinality(Q)

Keep(j, c) == /\ journal' = j
              /\ evicted' = (evicted \cup DOMAIN journal) \ (DOMAIN j \cup {c})

Refused(c) == /\ pc' = [pc EXCEPT ![c] = "done"]
              /\ UNCHANGED <<order>>

Enter(c) ==
    /\ pc[c] = "idle"
    /\ \/ /\ Full /\ Terminal(journal) = {}
          /\ Refused(c)
          /\ UNCHANGED <<journal, evicted>>
       \/ /\ ~(Full /\ Terminal(journal) = {}) /\ Enough(c) = {}
          /\ Refused(c)
          /\ Keep(Without(Entered(c), Terminal(Entered(c)) \cup {c}), c)
       \/ /\ ~(Full /\ Terminal(journal) = {}) /\ Enough(c) # {}
          /\ Keep(Without(Entered(c), Fewest(Enough(c))), c)
          /\ order' = [order EXCEPT ![c] = 1 + Cardinality({d \in Calls : order[d] # 0})]
          /\ pc' = [pc EXCEPT ![c] = "schedule"]
    /\ UNCHANGED <<finished, ticket, woken, io, past>>

-----------------------------------------------------------------------------
(* schedule_journal and persist_journal.                                     *)

\* Ask for a write; start a writer if there is none.
Schedule(c) ==
    /\ pc[c] \in {"schedule", "scheduleLast"}
    /\ requested' = requested + 1
    /\ ticket' = [ticket EXCEPT ![c] = requested + 1]
    /\ writer' = IF writer = "idle" THEN "start" ELSE writer
    /\ pc' = [pc EXCEPT ![c] = IF @ = "schedule" THEN "check" ELSE "done"]
    /\ UNCHANGED <<journal, evicted, order, finished, woken, completed, failed, target,
                   snapshot, notices, past>>

\* The first persist decides whether the call is sent, the second what the
\* caller hears.
CheckIgnoresError(c) ==            \* mutant: sends although the write failed
    /\ pc[c] = "check"
    /\ \/ /\ completed >= ticket[c] /\ finished[c]
          /\ pc' = [pc EXCEPT ![c] = "done"]
          /\ told' = [told EXCEPT ![c] = IF failed THEN "journal_failed" ELSE answered[c]]
          /\ UNCHANGED sent
       \/ /\ completed >= ticket[c] /\ ~finished[c]
          /\ pc' = [pc EXCEPT ![c] = "calling"]
          /\ sent' = [sent EXCEPT ![c] = TRUE]
          /\ UNCHANGED told
       \/ /\ completed < ticket[c]
          /\ pc' = [pc EXCEPT ![c] = "sleep"]
          /\ UNCHANGED <<told, sent>>
    /\ UNCHANGED <<journal, evicted, order, finished, ticket, woken, io, answered>>
Check(c) ==
    /\ pc[c] = "check"
    /\ \/ /\ completed >= ticket[c] /\ finished[c]
          /\ pc' = [pc EXCEPT ![c] = "done"]
          /\ told' = [told EXCEPT ![c] = IF failed THEN "journal_failed" ELSE answered[c]]
          /\ UNCHANGED sent
       \/ /\ completed >= ticket[c] /\ ~finished[c]
          /\ pc' = [pc EXCEPT ![c] = IF failed THEN "dropping" ELSE "calling"]
          /\ sent' = [sent EXCEPT ![c] = ~failed]
          /\ UNCHANGED told
       \/ /\ completed < ticket[c]
          /\ pc' = [pc EXCEPT ![c] = "sleep"]
          /\ UNCHANGED <<told, sent>>
    /\ UNCHANGED <<journal, evicted, order, finished, ticket, woken, io, answered>>

Wake(c) ==
    /\ pc[c] = "sleep" /\ woken[c]
    /\ pc' = [pc EXCEPT ![c] = "check"]
    /\ woken' = [woken EXCEPT ![c] = FALSE]
    /\ UNCHANGED <<journal, evicted, order, finished, ticket, io, past>>

-----------------------------------------------------------------------------
(* CallRecord: the outcome, by an answer or by its drop.                     *)

SetStatus(c, s) == /\ journal' = IF c \in DOMAIN journal THEN With(journal, c, s) ELSE journal
                   /\ finished' = [finished EXCEPT ![c] = TRUE]

\* The tool answers, or the request fails or passes its deadline.
AnswerCompleted(c) ==              \* mutant: does not look at isError
    /\ pc[c] = "calling"
    /\ \E s \in Status \ {"dispatched"} :
          /\ SetStatus(c, IF s = "tool_error" THEN "completed" ELSE s)
          /\ answered' = [answered EXCEPT ![c] = s]
    /\ pc' = [pc EXCEPT ![c] = "schedule"]
    /\ UNCHANGED <<evicted, order, ticket, woken, io, sent, told>>
Answer(c) ==
    /\ pc[c] = "calling"
    /\ \E s \in Status \ {"dispatched"} :
          /\ SetStatus(c, s)
          /\ answered' = [answered EXCEPT ![c] = s]
    /\ pc' = [pc EXCEPT ![c] = "schedule"]
    /\ UNCHANGED <<evicted, order, ticket, woken, io, sent, told>>

\* The task of the call is aborted at an await.
Abort(c) ==
    /\ pc[c] \in {"sleep", "calling"}
    /\ pc' = [pc EXCEPT ![c] = IF finished[c] THEN "done" ELSE "dropping"]
    /\ UNCHANGED <<journal, evicted, order, finished, ticket, woken, io, past>>

DropForgets(c) ==                  \* mutant: only schedules a write
    /\ pc[c] = "dropping"
    /\ pc' = [pc EXCEPT ![c] = "scheduleLast"]
    /\ UNCHANGED <<journal, evicted, order, finished, ticket, woken, io, past>>
Drop(c) ==
    /\ pc[c] = "dropping"
    /\ SetStatus(c, "outcome_unknown")
    /\ pc' = [pc EXCEPT ![c] = "scheduleLast"]
    /\ UNCHANGED <<evicted, order, ticket, woken, io, past>>

Step(c) == Enter(c) \/ Schedule(c) \/ Check(c) \/ Wake(c) \/ Answer(c) \/ Drop(c)

-----------------------------------------------------------------------------
(* journal_writer and atomic_snapshot.                                       *)

ReadTarget ==
    /\ writer = "start"
    /\ writer' = "snapshot"
    /\ target' = requested
    /\ UNCHANGED <<files, requested, completed, failed, snapshot, notices, woken>>

TakeSnapshot ==
    /\ writer = "snapshot"
    /\ writer' = "write"
    /\ snapshot' = journal
    /\ UNCHANGED <<files, requested, completed, failed, target, notices, woken>>

\* The new file is complete and synced before it replaces the old one.
Replace ==
    /\ writer = "write"
    /\ \/ writer' = "sync" /\ disk' = snapshot /\ UNCHANGED failed
       \/ writer' = "publish" /\ failed' = TRUE /\ UNCHANGED disk
    /\ UNCHANGED <<stable, requested, completed, target, snapshot, notices, woken>>

SyncDirectory ==
    /\ writer = "sync"
    /\ writer' = "publish"
    /\ \/ stable' = disk /\ failed' = FALSE
       \/ failed' = TRUE /\ UNCHANGED stable
    /\ UNCHANGED <<disk, requested, completed, target, snapshot, notices, woken>>

\* Publish what is covered; go on if more has been asked for meanwhile.
PublishRequested ==                \* mutant: covers what was asked for meanwhile
    /\ writer = "publish"
    /\ completed' = requested
    /\ writer' = "idle" /\ notices' = notices + 1
    /\ UNCHANGED <<files, requested, failed, target, snapshot, woken>>
PublishNext ==                     \* mutant: off by one
    /\ writer = "publish"
    /\ completed' = target + 1
    /\ IF requested > target THEN writer' = "notify" /\ UNCHANGED notices
                             ELSE writer' = "idle" /\ notices' = notices + 1
    /\ UNCHANGED <<files, requested, failed, target, snapshot, woken>>
PublishStops ==                    \* mutant: does not look for later requests
    /\ writer = "publish"
    /\ completed' = target
    /\ writer' = "idle" /\ notices' = notices + 1
    /\ UNCHANGED <<files, requested, failed, target, snapshot, woken>>
Publish ==
    /\ writer = "publish"
    /\ completed' = target
    /\ IF requested > target THEN writer' = "notify" /\ UNCHANGED notices
                             ELSE writer' = "idle" /\ notices' = notices + 1
    /\ UNCHANGED <<files, requested, failed, target, snapshot, woken>>

\* notify_waiters reaches every call that registered before it looked.
Registered(c) == pc[c] \in {"check", "sleep"}
WakeAll == woken' = [c \in Calls |-> woken[c] \/ Registered(c)]

NotifyAndGoOn ==
    /\ writer = "notify" /\ writer' = "start"
    /\ WakeAll
    /\ UNCHANGED <<files, requested, completed, failed, target, snapshot, notices>>

NotifyAndStop ==
    /\ notices > 0 /\ notices' = notices - 1
    /\ WakeAll
    /\ UNCHANGED <<files, requested, completed, failed, writer, target, snapshot>>

Writer == /\ ReadTarget \/ TakeSnapshot \/ Replace \/ SyncDirectory \/ Publish
             \/ NotifyAndGoOn \/ NotifyAndStop
          /\ UNCHANGED <<journal, evicted, order, pc, finished, ticket, past>>

-----------------------------------------------------------------------------
(* Crashes, and set_journal at the next start.                               *)

\* The process dies; a power loss may also undo a rename that is not stable.
Crash ==
    /\ runtime # "down" /\ crashes < MaxCrashes
    /\ runtime' = "down" /\ crashes' = crashes + 1
    /\ disk' \in {disk, stable}
    /\ journal' = Empty /\ snapshot' = Empty
    /\ requested' = 0 /\ completed' = 0 /\ target' = 0 /\ notices' = 0
    /\ failed' = FALSE /\ writer' = "idle"
    /\ pc' = [c \in Calls |-> IF pc[c] = "idle" THEN "idle" ELSE "done"]
    /\ woken' = [c \in Calls |-> FALSE]
    /\ UNCHANGED <<stable, order, finished, ticket, past, evicted>>

\* A start refuses the whole file for its size or for the metadata of one record,
\* and the server does not come up.  Nothing bounds that metadata on entry.
WithinLimits(j) == Cardinality(DOMAIN j) <= Limit /\ Fits(DOMAIN j)
Acceptable(j) == WithinLimits(j) /\ DOMAIN j \subseteq Plain

RefuseFile == runtime = "down" /\ ~Acceptable(disk) /\ UNCHANGED vars

\* Unfinished dispatches get an unknown outcome, in the file before in memory.
Recovered(j) == [c \in DOMAIN j |-> IF j[c] = "dispatched" THEN "outcome_unknown" ELSE j[c]]

Reload ==
    /\ runtime = "down" /\ Acceptable(disk)
    /\ runtime' = "opening"
    /\ disk' = Recovered(disk)
    /\ UNCHANGED <<stable, journal>>

Open ==
    /\ runtime = "opening"
    /\ runtime' = "up"
    /\ stable' = disk /\ journal' = disk
    /\ UNCHANGED disk

Restart == (Reload \/ Open) /\ UNCHANGED <<evicted, order, io, call, crashes, past>>

Live(A) == runtime = "up" /\ A /\ UNCHANGED <<runtime, crashes>>

Quiescent == /\ runtime = "up" /\ writer = "idle" /\ notices = 0
             /\ \A c \in Calls : pc[c] = "done"
             /\ UNCHANGED vars

Next == \/ \E c \in Calls : Live(Step(c) /\ UNCHANGED files) \/ Live(Abort(c) /\ UNCHANGED files)
        \/ Live(Writer) \/ Crash \/ Restart \/ RefuseFile \/ Quiescent

Spec == Init /\ [][Next]_vars

-----------------------------------------------------------------------------
(* Properties.                                                               *)

PC == {"idle", "schedule", "check", "sleep", "calling", "dropping", "scheduleLast", "done"}
WriterState == {"idle", "start", "snapshot", "write", "sync", "publish", "notify"}

\* Type invariant; a snapshot never covers a write nobody has asked for.
TypeOK ==
    /\ journal \in Records /\ snapshot \in Records
    /\ disk \in Records /\ stable \in Records
    /\ order \in [Calls -> Nat]
    /\ requested \in Nat /\ completed \in Nat /\ target \in Nat /\ notices \in Nat
    /\ completed <= target /\ target <= requested
    /\ failed \in BOOLEAN /\ writer \in WriterState
    /\ pc \in [Calls -> PC]
    /\ finished \in [Calls -> BOOLEAN] /\ woken \in [Calls -> BOOLEAN]
    /\ ticket \in [Calls -> Nat]
    /\ runtime \in {"up", "down", "opening"} /\ crashes \in Nat
    /\ sent \in [Calls -> BOOLEAN]
    /\ answered \in [Calls -> Status \cup {"none"}]
    /\ told \in [Calls -> Status \cup {"nothing", "journal_failed"}]
    /\ evicted \in SUBSET Calls

\* Write-ahead: a call that may have had an effect is in the file, also after a
\* crash or a power loss, unless its finished record made room for newer ones.
EffectsAreRecorded ==
    \A c \in Calls : sent[c] /\ c \notin evicted => c \in DOMAIN disk /\ c \in DOMAIN stable

\* No journal, in memory or in the file, credits a call with an outcome that the
\* tool has not given.
NoInventedOutcome ==
    \A j \in {journal, snapshot, disk, stable} : \A c \in DOMAIN j :
        j[c] \in {"completed", "tool_error"} => answered[c] = j[c]

\* The record of a call in flight is never evicted, and only such a record is
\* dispatched: another could never be evicted and would shrink the journal for good.
DispatchedIsInFlight ==
    \A c \in Calls :
        /\ pc[c] = "calling" => c \in DOMAIN journal /\ journal[c] = "dispatched"
        /\ c \in DOMAIN journal /\ journal[c] = "dispatched" => pc[c] \notin {"idle", "done"}

\* A caller that is told an outcome can find it in the file after any crash.
ToldOutcomeIsDurable ==
    \A c \in Calls : told[c] \in Status /\ c \notin evicted =>
        /\ c \in DOMAIN disk /\ disk[c] = told[c]
        /\ c \in DOMAIN stable /\ stable[c] = told[c]

\* Whatever file a start may find, after a crash or a power loss, keeps to the limits
\* on records and bytes: a start refuses it for the metadata of a record at most.
FileWithinLimits == \A j \in {disk, stable} : WithinLimits(j)

\* No call sleeps for ever: the write it waits for is still to come from a writer
\* at work, or is over and the notification is owed.
NoLostNotice ==
    \A c \in Calls : pc[c] = "sleep" /\ ~woken[c] =>
        IF completed >= ticket[c] THEN writer = "notify" \/ notices > 0 ELSE writer # "idle"

=============================================================================

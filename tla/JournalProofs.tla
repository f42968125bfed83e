----------------------------- MODULE JournalProofs -----------------------------
(* Theorems about the journal of effects, for any calls, limits and numbers   *)
(* of crashes.                                                                *)
EXTENDS Journal, FiniteSetTheorems, WellFoundedInduction, TLAPS

-----------------------------------------------------------------------------
(* The parts of the inductive invariant.                                     *)

Waiting(c)  == pc[c] \in {"check", "sleep"}
InFlight(c) == ~finished[c] /\ pc[c] \in {"schedule", "check", "sleep", "calling", "dropping"}
Answered(c) == finished[c] /\ pc[c] \in {"schedule", "check", "sleep"}

\* What the control point of a call says about its history.
Phases ==
    /\ \A c \in Calls :
          /\ pc[c] \in {"idle", "calling", "dropping"} => ~finished[c]
          /\ pc[c] = "idle" => ~sent[c] /\ order[c] = 0
          /\ pc[c] \in {"schedule", "check", "sleep"} => (sent[c] <=> finished[c])
          /\ pc[c] = "calling" => sent[c]
          /\ pc[c] # "done" /\ ~finished[c] => answered[c] = "none"
          /\ Answered(c) => answered[c] \in Status \ {"dispatched"}
          /\ told[c] \in Status =>
                pc[c] = "done" /\ sent[c] /\ told[c] = answered[c] /\ told[c] # "dispatched"
    /\ runtime # "up" => /\ \A c \in Calls : pc[c] \in {"idle", "done"}
                         /\ journal = Empty /\ snapshot = Empty /\ writer = "idle"

\* Exactly the calls in flight have a dispatched record.
Memory ==
    /\ \A c \in Calls : InFlight(c) <=> c \in DOMAIN journal /\ journal[c] = "dispatched"
    /\ \A c \in Calls : Answered(c) /\ c \in DOMAIN journal => journal[c] = answered[c]
    /\ runtime = "opening" => \A c \in DOMAIN disk : disk[c] # "dispatched"

\* Records are numbered in the order in which they were entered.
Numbered == {c \in Calls : order[c] # 0}
Positions ==
    /\ \A j \in {journal, snapshot, disk, stable} : DOMAIN j \subseteq Numbered
    /\ \A c \in Calls : order[c] <= Cardinality(Numbered)
    /\ \A c, d \in Numbered : order[c] = order[d] => c = d

\* The limits hold in memory and all the way to the file.
AllBounded == \A j \in {journal, snapshot, disk, stable} : WithinLimits(j)

\* Who waits has a ticket the writer knows of, and the writer stops only when it
\* has served all tickets.
Tickets ==
    /\ \A c \in Calls : Waiting(c) => ticket[c] <= requested
    /\ writer = "idle" => completed = requested
    /\ \A c \in Calls : pc[c] = "sleep" /\ ~woken[c] /\ completed >= ticket[c] =>
          writer = "notify" \/ notices > 0

\* The file j says of a waiting call what the call waits for.
Says(j, c) == IF finished[c] THEN c \in DOMAIN j => j[c] = answered[c] ELSE c \in DOMAIN j
Covers(j, n) == \A c \in Calls : Waiting(c) /\ ticket[c] <= n => Says(j, c)

\* What a snapshot has covered is in the file, unless the last one failed.
Coverage ==
    /\ writer \in {"write", "sync"} => Covers(snapshot, target)
    /\ writer = "sync" => disk = snapshot
    /\ writer = "publish" /\ ~failed => Covers(disk, target) /\ Covers(stable, target)
    /\ ~failed => Covers(disk, completed) /\ Covers(stable, completed)

\* The files a later state can start from.
Images == {journal, disk, stable} \cup (IF writer \in {"write", "sync"} THEN {snapshot} ELSE {})

\* An effect in memory is in all of them, and none contradicts what a caller was told.
Durable ==
    /\ \A c \in Calls : sent[c] /\ c \in DOMAIN journal => \A j \in Images : c \in DOMAIN j
    /\ runtime = "up" => \A c \in Calls : sent[c] /\ c \notin evicted => c \in DOMAIN journal
    /\ runtime # "up" => EffectsAreRecorded
    /\ \A c \in Calls : told[c] \in Status => \A j \in Images : c \in DOMAIN j => j[c] = told[c]

-----------------------------------------------------------------------------
(* Journals as functions.                                                    *)

LEMMA RecordFields ==
    ASSUME NEW j \in Records
    PROVE  /\ DOMAIN j \subseteq Calls /\ IsFiniteSet(DOMAIN j)
           /\ \A c \in DOMAIN j : j[c] \in Status
           /\ j = [c \in DOMAIN j |-> j[c]]
<1>1. PICK S \in SUBSET Calls : j \in [S -> Status]  BY DEF Records
<1>2. IsFiniteSet(S)  BY JournalAssumption, FS_Subset
<1> QED  BY <1>1, <1>2

LEMMA RecordsOver ==
    ASSUME NEW S \in SUBSET Calls, NEW j \in [S -> Status]
    PROVE  j \in Records
BY DEF Records

LEMMA EmptyType == Empty \in Records /\ DOMAIN Empty = {}
<1>1. Empty \in [{} -> Status]  BY DEF Empty
<1> QED  BY <1>1, RecordsOver DEF Empty

LEMMA OldType == OldRecords \in Records /\ DOMAIN OldRecords = Old
<1>1. OldRecords \in [Old -> Status]  BY DEF OldRecords, Status
<1> QED  BY <1>1, JournalAssumption, RecordsOver DEF OldRecords

LEMMA WithFields ==
    ASSUME NEW j \in Records, NEW c \in Calls, NEW s \in Status
    PROVE  /\ With(j, c, s) \in Records
           /\ DOMAIN With(j, c, s) = DOMAIN j \cup {c}
           /\ With(j, c, s)[c] = s
           /\ \A d \in DOMAIN j \ {c} : With(j, c, s)[d] = j[d]
<1>1. DOMAIN j \cup {c} \in SUBSET Calls  BY RecordFields
<1>2. With(j, c, s) \in [DOMAIN j \cup {c} -> Status]  BY RecordFields DEF With
<1>3. With(j, c, s) \in Records  BY <1>1, <1>2, RecordsOver
<1> QED  BY <1>3 DEF With

LEMMA WithoutFields ==
    ASSUME NEW j \in Records, NEW S
    PROVE  /\ Without(j, S) \in Records
           /\ DOMAIN Without(j, S) = DOMAIN j \ S
           /\ \A d \in DOMAIN j \ S : Without(j, S)[d] = j[d]
<1>1. DOMAIN j \ S \in SUBSET Calls  BY RecordFields
<1>2. Without(j, S) \in [DOMAIN j \ S -> Status]  BY RecordFields DEF Without
<1>3. Without(j, S) \in Records  BY <1>1, <1>2, RecordsOver
<1> QED  BY <1>3 DEF Without

LEMMA RecoveredFields ==
    ASSUME NEW j \in Records
    PROVE  /\ Recovered(j) \in Records
           /\ DOMAIN Recovered(j) = DOMAIN j
           /\ \A d \in DOMAIN j : /\ Recovered(j)[d] # "dispatched"
                                  /\ j[d] # "dispatched" => Recovered(j)[d] = j[d]
                                  /\ j[d] = "dispatched" => Recovered(j)[d] = "outcome_unknown"
<1>1. DOMAIN j \in SUBSET Calls  BY RecordFields
<1>2. Recovered(j) \in [DOMAIN j -> Status]  BY RecordFields DEF Recovered, Status
<1>3. Recovered(j) \in Records  BY <1>1, <1>2, RecordsOver
<1> QED  BY <1>3 DEF Recovered

-----------------------------------------------------------------------------
(* Entering a call.                                                          *)

LEMMA RoomFields ==
    ASSUME journal \in Records
    PROVE  /\ Room \in Records /\ DOMAIN Room \subseteq DOMAIN journal
           /\ \A d \in DOMAIN Room : Room[d] = journal[d]
           /\ \A d \in DOMAIN journal \ DOMAIN Room : journal[d] # "dispatched"
<1> DEFINE gone == UNION OneEvicted
<1>1. \A d \in gone : d \in DOMAIN journal => journal[d] # "dispatched"
  BY DEF OneEvicted, Prefixes, Terminal
<1>2. Without(journal, gone) \in Records /\ DOMAIN Without(journal, gone) = DOMAIN journal \ gone
      /\ \A d \in DOMAIN journal \ gone : Without(journal, gone)[d] = journal[d]
  BY WithoutFields
<1> QED  BY <1>1, <1>2 DEF Room

LEMMA EnteredFields ==
    ASSUME journal \in Records, NEW c \in Calls
    PROVE  /\ Entered(c) \in Records /\ DOMAIN Entered(c) = DOMAIN Room \cup {c}
           /\ Entered(c)[c] = "dispatched"
           /\ \A d \in DOMAIN Room \ {c} : Entered(c)[d] = journal[d]
           /\ c \notin Terminal(Entered(c))
<1>1. "dispatched" \in Status  BY DEF Status
<1>2. Room \in Records /\ \A d \in DOMAIN Room : Room[d] = journal[d]  BY RoomFields
<1>3. /\ Entered(c) \in Records /\ DOMAIN Entered(c) = DOMAIN Room \cup {c}
      /\ Entered(c)[c] = "dispatched"
      /\ \A d \in DOMAIN Room \ {c} : Entered(c)[d] = Room[d]
  BY <1>1, <1>2, WithFields DEF Entered
<1> QED  BY <1>2, <1>3 DEF Terminal

\* Some set of a nonempty family has the fewest elements.
LEMMA FewestExists ==
    ASSUME NEW X \in SUBSET SUBSET Calls, X # {}
    PROVE  Fewest(X) \in X /\ \A Q \in X : Cardinality(Fewest(X)) <= Cardinality(Q)
<1> DEFINE sizes == {Cardinality(R) : R \in X}
<1>1. \A R \in X : Cardinality(R) \in Nat  BY JournalAssumption, FS_Subset, FS_CardinalityType
<1>2. sizes \subseteq Nat /\ sizes # {}  BY <1>1
<1> DEFINE less == OpToRel(<, Nat)
<1>a. IsWellFoundedOn(less, Nat)  BY NatLessThanWellFounded
<1>b. \A m, n \in Nat : <<m, n>> \in less <=> m < n  BY DEF OpToRel
<1> HIDE DEF less, sizes
<1>3. PICK n \in sizes : \A m \in sizes : ~(<<m, n>> \in less)
  BY <1>2, <1>a, WFMin
<1>4. ASSUME NEW m \in sizes PROVE n <= m
  <2>1. m \in Nat /\ n \in Nat  BY <1>2
  <2>2. ~(m < n)  BY <1>3, <1>b, <2>1
  <2> QED  BY <2>1, <2>2
<1> USE DEF sizes
<1>5. \E R \in X : \A Q \in X : Cardinality(R) <= Cardinality(Q)  BY <1>4
<1> QED  BY <1>5 DEF Fewest

\* What Enter does to the records: none in flight is lost, and what is lost is evicted.
EnterEffect(c) ==
    /\ journal' \in Records /\ DOMAIN journal' \subseteq DOMAIN journal \cup {c}
    /\ \A d \in DOMAIN journal' \ {c} : journal'[d] = journal[d]
    /\ \A d \in DOMAIN journal \ (DOMAIN journal' \cup {c}) : journal[d] # "dispatched"
    /\ pc[c] = "idle" /\ pc' = [pc EXCEPT ![c] = pc'[c]]
    /\ \/ pc'[c] = "schedule" /\ c \in DOMAIN journal' /\ journal'[c] = "dispatched"
       \/ pc'[c] = "done" /\ order' = order /\ (c \in DOMAIN journal' => journal' = journal)
    /\ evicted' \subseteq Calls
    /\ \A d \in (evicted \cup DOMAIN journal) \ {c} : d \in evicted' \cup DOMAIN journal'
    /\ order' = order \/ order' = [order EXCEPT ![c] = 1 + Cardinality(Numbered)]
    /\ \A d \in Calls \ {c} : order'[d] = order[d]
    /\ \A d \in DOMAIN journal' : d = c \/ d \in DOMAIN journal
    /\ pc'[c] = "schedule" => order'[c] = 1 + Cardinality(Numbered)

LEMMA EnterEffects ==
    ASSUME TypeOK, NEW c \in Calls, Enter(c)
    PROVE  EnterEffect(c)
<1> DEFINE e == Entered(c)
<1>1. /\ journal \in Records /\ pc \in [Calls -> PC] /\ evicted \subseteq Calls
      /\ order \in [Calls -> Nat] /\ DOMAIN journal \subseteq Calls
  BY RecordFields DEF TypeOK
<1>2. /\ e \in Records /\ c \in DOMAIN e /\ e[c] = "dispatched" /\ c \notin Terminal(e)
      /\ DOMAIN e \subseteq DOMAIN journal \cup {c}
      /\ \A d \in DOMAIN e \ {c} : e[d] = journal[d]
      /\ \A d \in DOMAIN journal \ (DOMAIN e \cup {c}) : journal[d] # "dispatched"
  <2>1. /\ DOMAIN Room \subseteq DOMAIN journal
        /\ \A d \in DOMAIN journal \ DOMAIN Room : journal[d] # "dispatched"
    BY <1>1, RoomFields
  <2>2. /\ e \in Records /\ DOMAIN e = DOMAIN Room \cup {c} /\ e[c] = "dispatched"
        /\ \A d \in DOMAIN Room \ {c} : e[d] = journal[d]
        /\ c \notin Terminal(e)
    BY <1>1, EnteredFields
  <2> HIDE DEF e
  <2>3. c \in DOMAIN e /\ DOMAIN e \subseteq DOMAIN journal \cup {c}  BY <2>1, <2>2
  <2>4. \A d \in DOMAIN e \ {c} : e[d] = journal[d]  BY <2>2
  <2>5. \A d \in DOMAIN journal \ (DOMAIN e \cup {c}) : journal[d] # "dispatched"
    BY <2>1, <2>2
  <2> QED  BY <2>2, <2>3, <2>4, <2>5
<1> HIDE DEF e
<1>3. ASSUME NEW S, S \cap DOMAIN e \subseteq Terminal(e) \cup {c}, Keep(Without(e, S), c)
      PROVE  /\ journal' \in Records /\ DOMAIN journal' = DOMAIN e \ S
             /\ \A d \in DOMAIN e \ S : journal'[d] = e[d]
             /\ \A d \in DOMAIN journal' \ {c} : journal'[d] = journal[d]
             /\ \A d \in DOMAIN journal \ (DOMAIN journal' \cup {c}) : journal[d] # "dispatched"
             /\ evicted' \subseteq Calls
             /\ \A d \in (evicted \cup DOMAIN journal) \ {c} : d \in evicted' \cup DOMAIN journal'
  <2>1. /\ journal' = Without(e, S)
        /\ evicted' = (evicted \cup DOMAIN journal) \ (DOMAIN journal' \cup {c})
    BY <1>3 DEF Keep
  <2>2. /\ journal' \in Records /\ DOMAIN journal' = DOMAIN e \ S
        /\ \A d \in DOMAIN e \ S : journal'[d] = e[d]
    <3>1. /\ Without(e, S) \in Records /\ DOMAIN Without(e, S) = DOMAIN e \ S
          /\ \A d \in DOMAIN e \ S : Without(e, S)[d] = e[d]
      BY <1>2, WithoutFields
    <3> QED  BY <2>1, <3>1
  <2>3. \A d \in DOMAIN e : d \in S => d = c \/ e[d] # "dispatched"
    BY <1>3 DEF Terminal
  <2> QED  BY <1>1, <1>2, <2>1, <2>2, <2>3
<1>4. CASE Full /\ Terminal(journal) = {} /\ Refused(c) /\ UNCHANGED <<journal, evicted>>
  BY <1>1, <1>4, RecordFields DEF EnterEffect, Refused, Enter
<1>5. CASE Refused(c) /\ Keep(Without(e, Terminal(e) \cup {c}), c)
  <2>1. (Terminal(e) \cup {c}) \cap DOMAIN e \subseteq Terminal(e) \cup {c}  OBVIOUS
  <2>2. c \notin DOMAIN journal'  BY <1>3, <1>5, <2>1
  <2> QED  BY <1>1, <1>2, <1>3, <1>5, <2>1, <2>2 DEF EnterEffect, Refused, Enter
<1>6. CASE /\ Enough(c) # {} /\ Keep(Without(e, Fewest(Enough(c))), c)
           /\ order' = [order EXCEPT ![c] = 1 + Cardinality({d \in Calls : order[d] # 0})]
           /\ pc' = [pc EXCEPT ![c] = "schedule"]
  <2>1. Terminal(e) \subseteq Calls /\ Enough(c) \subseteq SUBSET Terminal(e)
    BY <1>2, RecordFields DEF Terminal, Enough, Prefixes, e
  <2>2. Fewest(Enough(c)) \in Enough(c)  BY <1>6, <2>1, FewestExists
  <2>3. Fewest(Enough(c)) \subseteq Terminal(e)  BY <2>1, <2>2
  <2>4. Fewest(Enough(c)) \cap DOMAIN e \subseteq Terminal(e) \cup {c}  BY <2>3
  <2>5. c \in DOMAIN journal' /\ journal'[c] = "dispatched"
    BY <1>2, <1>3, <1>6, <2>3, <2>4
  <2>6. order' = [order EXCEPT ![c] = 1 + Cardinality(Numbered)]  BY <1>6 DEF Numbered
  <2>7. pc[c] = "idle"  BY DEF Enter
  <2> HIDE DEF Numbered
  <2> QED  BY <1>1, <1>2, <1>3, <1>6, <2>4, <2>5, <2>6, <2>7 DEF EnterEffect
<1> QED  BY <1>4, <1>5, <1>6 DEF Enter, e

LEMMA SetStatusEffect ==
    ASSUME journal \in Records, NEW c \in Calls, NEW s \in Status, SetStatus(c, s)
    PROVE  /\ journal' \in Records /\ DOMAIN journal' = DOMAIN journal
           /\ c \in DOMAIN journal => journal'[c] = s
           /\ \A d \in DOMAIN journal \ {c} : journal'[d] = journal[d]
<1>1. CASE c \in DOMAIN journal
  <2>1. journal' = With(journal, c, s)  BY <1>1 DEF SetStatus
  <2>2. /\ With(journal, c, s) \in Records /\ DOMAIN With(journal, c, s) = DOMAIN journal \cup {c}
        /\ With(journal, c, s)[c] = s
        /\ \A d \in DOMAIN journal \ {c} : With(journal, c, s)[d] = journal[d]
    BY WithFields
  <2> QED  BY <1>1, <2>1, <2>2
<1>2. CASE c \notin DOMAIN journal
  BY <1>2 DEF SetStatus
<1> QED  BY <1>1, <1>2

-----------------------------------------------------------------------------
(* Types.                                                                    *)

LEMMA NumberedCount ==
    /\ IsFiniteSet(Numbered) /\ Cardinality(Numbered) \in Nat
BY JournalAssumption, FS_Subset, FS_CardinalityType DEF Numbered

LEMMA InitType == Init => TypeOK
<1> SUFFICES ASSUME Init PROVE TypeOK
  OBVIOUS
<1>1. journal \in Records /\ snapshot \in Records /\ disk \in Records /\ stable \in Records
  BY OldType, EmptyType DEF Init
<1>2. order \in [Calls -> Nat]
  <2>1. PICK position \in [Old -> 1..Cardinality(Old)] :
            order = [c \in Calls |-> IF c \in Old THEN position[c] ELSE 0]
    BY DEF Init
  <2>2. Cardinality(Old) \in Nat  BY JournalAssumption, FS_Subset, FS_CardinalityType
  <2> QED  BY <2>1, <2>2
<1>3. sent \in [Calls -> BOOLEAN]
  <2>1. sent = [c \in Calls |-> c \in Old]  BY DEF Init
  <2> QED  BY <2>1
<1>4. pc \in [Calls -> PC]  BY DEF Init, PC
<1>5. answered \in [Calls -> Status \cup {"none"}]  BY DEF Init, Status
<1>6. told \in [Calls -> Status \cup {"nothing", "journal_failed"}]  BY DEF Init
<1>7. /\ finished \in [Calls -> BOOLEAN] /\ woken \in [Calls -> BOOLEAN]
      /\ ticket \in [Calls -> Nat]
  BY DEF Init
<1>8. /\ requested = 0 /\ completed = 0 /\ target = 0 /\ notices = 0 /\ crashes = 0
      /\ writer = "idle" /\ runtime = "up" /\ evicted = {}
  BY DEF Init
<1>9. failed \in BOOLEAN  BY Zenon DEF Init
<1> QED
  BY <1>1, <1>2, <1>3, <1>4, <1>5, <1>6, <1>7, <1>8, <1>9 DEF TypeOK, WriterState

\* A step of a call, when the process is up.
CallStep(c) == Step(c) \/ Abort(c)

LEMMA CallType ==
    ASSUME TypeOK, Phases, NEW c \in Calls, CallStep(c), UNCHANGED <<files, runtime, crashes>>
    PROVE  TypeOK'
<1>1. CASE Enter(c)
  <2>1. /\ journal' \in Records /\ evicted' \subseteq Calls
        /\ pc' = [pc EXCEPT ![c] = pc'[c]] /\ pc'[c] \in PC
        /\ order' = order \/ order' = [order EXCEPT ![c] = 1 + Cardinality(Numbered)]
    BY <1>1, EnterEffects DEF EnterEffect, PC
  <2>2. order' \in [Calls -> Nat]  BY <2>1, NumberedCount DEF TypeOK
  <2>3. pc' \in [Calls -> PC]  BY <2>1 DEF TypeOK
  <2>4. UNCHANGED <<finished, ticket, woken, io, past>>  BY <1>1 DEF Enter
  <2> HIDE DEF PC
  <2> QED  BY <2>1, <2>2, <2>3, <2>4 DEF TypeOK, files, io, past
<1>2. CASE Schedule(c)  BY <1>2 DEF TypeOK, Schedule, PC, WriterState, files, past
<1>3. CASE Check(c)
  <2>1. sent \in [Calls -> BOOLEAN] /\ failed \in BOOLEAN  BY DEF TypeOK
  <2>2. sent' = sent \/ sent' = [sent EXCEPT ![c] = ~failed]  BY <1>3, Zenon DEF Check
  <2>3. sent' \in [Calls -> BOOLEAN]  BY <2>1, <2>2, Zenon
  <2>4. pc' \in [Calls -> PC]  BY <1>3 DEF TypeOK, Check, PC
  <2>5. told' \in [Calls -> Status \cup {"nothing", "journal_failed"}]
    <3>1. told' # told => answered[c] \in Status  BY <1>3 DEF Check, Phases, Answered
    <3> QED  BY <1>3, <3>1 DEF TypeOK, Check
  <2> QED  BY <1>3, <2>3, <2>4, <2>5 DEF TypeOK, Check, files, io
<1>4. CASE Wake(c)  BY <1>4 DEF TypeOK, Wake, PC, files, io, past
<1>5. CASE Answer(c)
  <2>1. PICK s \in Status \ {"dispatched"} :
            SetStatus(c, s) /\ answered' = [answered EXCEPT ![c] = s]
    BY <1>5 DEF Answer
  <2>2. journal' \in Records  BY <2>1, SetStatusEffect DEF TypeOK
  <2>3. finished' \in [Calls -> BOOLEAN] /\ answered' \in [Calls -> Status \cup {"none"}]
    BY <2>1 DEF TypeOK, SetStatus
  <2> QED  BY <1>5, <2>2, <2>3 DEF TypeOK, Answer, PC, files, io
<1>6. CASE Drop(c)
  <2>1. "outcome_unknown" \in Status  BY DEF Status
  <2>2. journal' \in Records  BY <1>6, <2>1, SetStatusEffect DEF TypeOK, Drop
  <2>3. finished' \in [Calls -> BOOLEAN]  BY <1>6 DEF TypeOK, Drop, SetStatus
  <2> QED  BY <1>6, <2>2, <2>3 DEF TypeOK, Drop, PC, files, io, past
<1>7. CASE Abort(c)  BY <1>7 DEF TypeOK, Abort, PC, files, io, past
<1> QED  BY <1>1, <1>2, <1>3, <1>4, <1>5, <1>6, <1>7 DEF CallStep, Step

LEMMA WriterType ==
    ASSUME TypeOK, Writer, UNCHANGED <<runtime, crashes>>
    PROVE  TypeOK'
<1> USE DEF TypeOK, Writer, WriterState, files, past
<1>1. CASE ReadTarget  BY <1>1 DEF ReadTarget
<1>2. CASE TakeSnapshot  BY <1>2 DEF TakeSnapshot
<1>3. CASE Replace  BY <1>3 DEF Replace
<1>4. CASE SyncDirectory  BY <1>4 DEF SyncDirectory
<1>5. CASE Publish  BY <1>5 DEF Publish
<1>6. CASE NotifyAndGoOn  BY <1>6 DEF NotifyAndGoOn, WakeAll, Registered
<1>7. CASE NotifyAndStop  BY <1>7 DEF NotifyAndStop, WakeAll, Registered
<1> QED  BY <1>1, <1>2, <1>3, <1>4, <1>5, <1>6, <1>7 DEF Writer

LEMMA CrashType == ASSUME TypeOK, Crash PROVE TypeOK'
<1>1. journal' \in Records /\ snapshot' \in Records /\ disk' \in Records
  BY EmptyType DEF TypeOK, Crash
<1>2. pc' \in [Calls -> PC]  BY DEF TypeOK, Crash, PC
<1>3. UNCHANGED <<stable, order, finished, ticket, sent, answered, told, evicted>>
  BY DEF Crash, past
<1>4. crashes' \in Nat /\ woken' \in [Calls -> BOOLEAN] /\ runtime' = "down"
  BY DEF TypeOK, Crash
<1>5. /\ requested' = 0 /\ completed' = 0 /\ target' = 0 /\ notices' = 0
      /\ writer' = "idle"
  BY DEF Crash
<1>6. failed' \in BOOLEAN  BY Zenon DEF Crash
<1> QED  BY <1>1, <1>2, <1>3, <1>4, <1>5, <1>6 DEF TypeOK, WriterState

LEMMA RestartType == ASSUME TypeOK, Restart PROVE TypeOK'
<1>1. CASE Reload
  <2>1. disk' \in Records  BY <1>1, RecoveredFields DEF TypeOK, Reload
  <2> QED  BY <1>1, <2>1 DEF TypeOK, Reload, Restart, io, call, past
<1>2. CASE Open  BY <1>2 DEF TypeOK, Open, Restart, io, call, past
<1> QED  BY <1>1, <1>2 DEF Restart

\* How a step of the server comes about.
LEMMA Cases ==
    ASSUME [Next]_vars
    PROVE  \/ runtime = "up" /\ UNCHANGED <<files, runtime, crashes>> /\ \E c \in Calls : CallStep(c)
           \/ runtime = "up" /\ UNCHANGED <<runtime, crashes>> /\ Writer
           \/ Crash
           \/ Restart
           \/ UNCHANGED vars
BY DEF Next, Live, CallStep, RefuseFile, Quiescent

-----------------------------------------------------------------------------
(* Control points and histories.                                             *)

LEMMA InitPhases == Init => Phases
<1> SUFFICES ASSUME Init, NEW c \in Calls
             PROVE  /\ ~finished[c] /\ told[c] = "nothing" /\ runtime = "up"
                    /\ c \in Old => pc[c] = "done"
                    /\ c \notin Old => /\ pc[c] = "idle" /\ order[c] = 0
                                       /\ answered[c] = "none" /\ ~sent[c]
  BY DEF Init, Phases, Answered, Status
<1>1. c \notin Old => ~sent[c]
  <2>1. sent = [d \in Calls |-> d \in Old]  BY DEF Init
  <2> QED  BY <2>1
<1>2. ~finished[c]
  <2>1. finished = [d \in Calls |-> FALSE]  BY DEF Init
  <2> QED  BY <2>1
<1> QED  BY <1>1, <1>2 DEF Init

\* A step of a call leaves the control points and histories of the others alone.
LEMMA CallPhases ==
    ASSUME TypeOK, Phases, runtime = "up", NEW c \in Calls, CallStep(c),
           UNCHANGED <<files, runtime, crashes>>
    PROVE  Phases'
<1> USE DEF TypeOK, Phases, Answered
<1>1. CASE Enter(c)
  <2>1. EnterEffect(c) /\ UNCHANGED <<finished, past>>
    BY <1>1, EnterEffects DEF Enter
  <2> QED  BY <2>1 DEF EnterEffect, past
<1>2. CASE Schedule(c)  BY <1>2 DEF Schedule, past
<1>3. CASE Check(c)
  <2>1. CASE completed >= ticket[c] /\ finished[c]
    <3>1. /\ pc' = [pc EXCEPT ![c] = "done"] /\ UNCHANGED <<finished, answered, sent, order, runtime>>
          /\ \A d \in Calls \ {c} : told'[d] = told[d]
          /\ told'[c] = "journal_failed" \/ told'[c] = answered[c]
      BY <1>3, <2>1 DEF Check
    <3>2. answered[c] \in Status \ {"dispatched"} /\ sent[c]  BY <1>3, <2>1 DEF Check
    <3>3. "journal_failed" \notin Status  BY DEF Status
    <3> QED  BY <3>1, <3>2, <3>3
  <2>2. CASE completed >= ticket[c] /\ ~finished[c]
    <3>1. sent' = [sent EXCEPT ![c] = ~failed] /\ sent \in [Calls -> BOOLEAN]
      BY <1>3, <2>2 DEF Check
    <3>2. (sent'[c] <=> ~failed) /\ \A d \in Calls \ {c} : sent'[d] = sent[d]
      BY <3>1, Zenon
    <3>3. pc' = [pc EXCEPT ![c] = IF failed THEN "dropping" ELSE "calling"] /\ told' = told
          /\ UNCHANGED <<finished, answered, order>>
      BY <1>3, <2>2 DEF Check
    <3> QED  BY <1>3, <2>2, <3>2, <3>3 DEF Check
  <2>3. CASE completed < ticket[c]  BY <1>3, <2>3 DEF Check
  <2> QED  BY <2>1, <2>2, <2>3
<1>4. CASE Wake(c)  BY <1>4 DEF Wake, past
<1>5. CASE Answer(c)  BY <1>5 DEF Answer, SetStatus
<1>6. CASE Drop(c)  BY <1>6 DEF Drop, SetStatus, past
<1>7. CASE Abort(c)  BY <1>7 DEF Abort, past
<1> QED  BY <1>1, <1>2, <1>3, <1>4, <1>5, <1>6, <1>7 DEF CallStep, Step

LEMMA CrashPhases == ASSUME TypeOK, Phases, Crash PROVE Phases'
BY DEF TypeOK, Phases, Answered, Crash, past

LEMMA RestartPhases == ASSUME TypeOK, Phases, Restart PROVE Phases'
BY DEF TypeOK, Phases, Answered, Restart, Reload, Open, io, call, past

LEMMA StepBase ==
    ASSUME TypeOK, Phases, [Next]_vars
    PROVE  TypeOK' /\ Phases'
<1>1. CASE UNCHANGED vars
  BY <1>1 DEF TypeOK, Phases, Answered, vars, files, io, call, past
<1>2. CASE runtime = "up" /\ UNCHANGED <<runtime, crashes>> /\ Writer
  BY <1>2, WriterType DEF Writer, Phases, Answered, past
<1> QED
  BY <1>1, <1>2, Cases, CallType, CallPhases, CrashType, CrashPhases, RestartType, RestartPhases

LEMMA Base == Spec => [](TypeOK /\ Phases)
BY InitType, InitPhases, StepBase, PTL DEF Spec

\* Every variable of the journal keeps its type, and what the writer has covered is
\* never more than it was asked for.
THEOREM TypeCorrect == Spec => []TypeOK
BY Base, PTL

-----------------------------------------------------------------------------
(* The records of calls in flight.                                           *)

LEMMA InitMemory == Init => Memory
<1> SUFFICES ASSUME Init PROVE Memory
  OBVIOUS
<1>1. \A c \in Calls : pc[c] \in {"done", "idle"}  BY DEF Init
<1>2. \A c \in DOMAIN journal : journal[c] = "completed"  BY DEF Init, OldRecords
<1> QED  BY <1>1, <1>2 DEF Init, Memory, InFlight, Answered

LEMMA CallMemory ==
    ASSUME TypeOK, Phases, Memory, runtime = "up", NEW c \in Calls, CallStep(c),
           UNCHANGED <<files, runtime, crashes>>
    PROVE  Memory'
<1> USE DEF TypeOK, Memory, InFlight, Answered
<1>1. CASE Enter(c)
  <2>1. EnterEffect(c) /\ UNCHANGED <<finished, answered>>
    BY <1>1, EnterEffects DEF Enter, past
  <2>2. \A d \in Calls \ {c} : /\ InFlight(d)' <=> InFlight(d)
                               /\ Answered(d)' <=> Answered(d)
    BY <2>1 DEF EnterEffect
  <2>3. ~InFlight(c) /\ ~Answered(c)'  BY <2>1 DEF EnterEffect, Phases
  <2>4. InFlight(c)' <=> c \in DOMAIN journal' /\ journal'[c] = "dispatched"
    BY <2>1, <2>3 DEF EnterEffect, Phases
  <2> QED  BY <2>1, <2>2, <2>3, <2>4 DEF EnterEffect
<1>2. CASE Schedule(c)  BY <1>2 DEF Schedule, past
<1>3. CASE Check(c)
  <2>1. /\ pc' = [pc EXCEPT ![c] = pc'[c]] /\ UNCHANGED <<journal, finished, answered>>
        /\ finished[c] => pc'[c] \in {"done", "sleep"}
        /\ ~finished[c] => pc'[c] \in {"dropping", "calling", "sleep"}
        /\ pc[c] = "check"
    BY <1>3 DEF Check
  <2> QED  BY <2>1
<1>4. CASE Wake(c)  BY <1>4 DEF Wake, past
<1>5. CASE Answer(c)
  <2>1. PICK s \in Status \ {"dispatched"} :
            SetStatus(c, s) /\ answered' = [answered EXCEPT ![c] = s]
    BY <1>5 DEF Answer
  <2>2. /\ DOMAIN journal' = DOMAIN journal
        /\ c \in DOMAIN journal => journal'[c] = s
        /\ \A d \in DOMAIN journal \ {c} : journal'[d] = journal[d]
    BY <2>1, SetStatusEffect
  <2>3. finished' = [finished EXCEPT ![c] = TRUE] /\ pc' = [pc EXCEPT ![c] = "schedule"]
    BY <1>5, <2>1 DEF Answer, SetStatus
  <2> QED  BY <2>1, <2>2, <2>3
<1>6. CASE Drop(c)
  <2>1. "outcome_unknown" \in Status /\ SetStatus(c, "outcome_unknown")
    BY <1>6 DEF Status, Drop
  <2>2. /\ DOMAIN journal' = DOMAIN journal
        /\ c \in DOMAIN journal => journal'[c] = "outcome_unknown"
        /\ \A d \in DOMAIN journal \ {c} : journal'[d] = journal[d]
    BY <2>1, SetStatusEffect
  <2>3. /\ finished' = [finished EXCEPT ![c] = TRUE] /\ pc' = [pc EXCEPT ![c] = "scheduleLast"]
        /\ answered' = answered
    BY <1>6, <2>1 DEF Drop, SetStatus, past
  <2> QED  BY <2>2, <2>3
<1>7. CASE Abort(c)  BY <1>7 DEF Abort, past
<1> QED
  BY <1>1, <1>2, <1>3, <1>4, <1>5, <1>6, <1>7 DEF CallStep, Step

LEMMA StepMemory ==
    ASSUME TypeOK, Phases, Memory, [Next]_vars
    PROVE  Memory'
<1>1. CASE Crash
  <2>1. \A c \in Calls : pc'[c] \in {"idle", "done"}  BY <1>1 DEF Crash
  <2>2. DOMAIN journal' = {} /\ runtime' = "down"  BY <1>1, EmptyType DEF Crash
  <2> QED  BY <2>1, <2>2 DEF Memory, InFlight, Answered
<1>2. CASE Restart
  <2>1. \A c \in Calls : pc[c] \in {"idle", "done"}  BY <1>2 DEF Phases, Restart, Reload, Open
  <2>2. pc' = pc  BY <1>2 DEF Restart, call
  <2>3. CASE Reload
    <3>1. \A c \in DOMAIN disk' : disk'[c] # "dispatched"
      BY <2>3, RecoveredFields DEF Reload, TypeOK
    <3>2. DOMAIN journal' = {}  BY <2>3, EmptyType DEF Reload, Phases
    <3> QED  BY <2>1, <2>2, <3>1, <3>2 DEF Memory, InFlight, Answered
  <2>4. CASE Open  BY <2>1, <2>2, <2>4 DEF Open, Memory, InFlight, Answered
  <2> QED  BY <1>2, <2>3, <2>4 DEF Restart
<1>3. CASE runtime = "up" /\ UNCHANGED <<runtime, crashes>> /\ Writer
  BY <1>3 DEF Writer, Memory, InFlight, Answered, past
<1>4. CASE UNCHANGED vars
  BY <1>4 DEF vars, files, call, past, Memory, InFlight, Answered
<1> QED  BY <1>1, <1>2, <1>3, <1>4, CallMemory, Cases

LEMMA MemoryInvariant == Spec => []Memory
BY Base, InitMemory, StepMemory, PTL DEF Spec

\* The record of a call in flight is never evicted, and a record is dispatched only
\* while its call is in flight, across crashes and restarts (dispatch,
\* CallRecord::drop, set_journal).
THEOREM InFlightIsRecorded == Spec => []DispatchedIsInFlight
<1>1. TypeOK /\ Phases /\ Memory => DispatchedIsInFlight
  BY DEF TypeOK, Phases, Memory, InFlight, DispatchedIsInFlight
<1> QED  BY <1>1, Base, MemoryInvariant, PTL

-----------------------------------------------------------------------------
(* Outcomes.                                                                 *)

Truthful(j) == \A c \in DOMAIN j : j[c] \in {"completed", "tool_error"} => answered[c] = j[c]

LEMMA OutcomesAreTruthful ==
    NoInventedOutcome <=> Truthful(journal) /\ Truthful(snapshot) /\ Truthful(disk) /\ Truthful(stable)
BY DEF NoInventedOutcome, Truthful

LEMMA InitTruthful == Init => NoInventedOutcome
<1> SUFFICES ASSUME Init PROVE NoInventedOutcome
  OBVIOUS
<1>1. Truthful(OldRecords)
  BY OldType, JournalAssumption DEF Init, Truthful, OldRecords
<1>2. Truthful(Empty)  BY EmptyType DEF Truthful
<1> QED  BY <1>1, <1>2, OutcomesAreTruthful DEF Init

LEMMA CallTruthful ==
    ASSUME TypeOK, Phases, NoInventedOutcome, NEW c \in Calls, CallStep(c), UNCHANGED files
    PROVE  NoInventedOutcome'
<1>1. CASE Enter(c)
  <2>1. EnterEffect(c) /\ UNCHANGED <<answered, snapshot>>
    BY <1>1, EnterEffects DEF Enter, io, past
  <2>2. Truthful(journal')
    BY <2>1, OutcomesAreTruthful DEF EnterEffect, Truthful
  <2> QED  BY <2>1, <2>2, OutcomesAreTruthful DEF Truthful, NoInventedOutcome, files
<1>2. CASE Answer(c)
  <2>1. PICK s \in Status \ {"dispatched"} :
            SetStatus(c, s) /\ answered' = [answered EXCEPT ![c] = s]
    BY <1>2 DEF Answer
  <2>2. answered[c] = "none"  BY <1>2 DEF Answer, Phases
  <2>3. ASSUME NEW j, Truthful(j), NEW d \in DOMAIN j, j[d] \in {"completed", "tool_error"}
        PROVE  d # c /\ answered[d] = j[d]
    BY <2>2, <2>3 DEF Truthful
  <2>4. \A d \in Calls \ {c} : answered'[d] = answered[d]  BY <2>1 DEF TypeOK
  <2>5. answered'[c] = s  BY <2>1 DEF TypeOK
  <2>6. /\ DOMAIN journal' = DOMAIN journal /\ DOMAIN journal \subseteq Calls
        /\ c \in DOMAIN journal => journal'[c] = s
        /\ \A d \in DOMAIN journal \ {c} : journal'[d] = journal[d]
    BY <2>1, SetStatusEffect, RecordFields DEF TypeOK
  <2>7. \A d \in DOMAIN journal' : journal'[d] \in {"completed", "tool_error"} => answered'[d] = journal'[d]
    BY <2>4, <2>5, <2>6, OutcomesAreTruthful DEF Truthful
  <2>8. \A j \in {snapshot, disk, stable} : \A d \in DOMAIN j :
            j[d] \in {"completed", "tool_error"} => answered'[d] = j[d]
    <3>1. ASSUME NEW j \in {snapshot, disk, stable}
          PROVE  DOMAIN j \subseteq Calls /\ Truthful(j)
      BY OutcomesAreTruthful, RecordFields DEF TypeOK
    <3> QED  BY <2>3, <2>4, <3>1
  <2>9. UNCHANGED <<snapshot, disk, stable>>  BY <1>2 DEF Answer, io, files
  <2> QED  BY <2>7, <2>8, <2>9 DEF NoInventedOutcome
<1>3. CASE Drop(c)
  <2>1. "outcome_unknown" \in Status /\ SetStatus(c, "outcome_unknown")
    BY <1>3 DEF Status, Drop
  <2>2. /\ DOMAIN journal' = DOMAIN journal
        /\ c \in DOMAIN journal => journal'[c] = "outcome_unknown"
        /\ \A d \in DOMAIN journal \ {c} : journal'[d] = journal[d]
    BY <2>1, SetStatusEffect DEF TypeOK
  <2>3. Truthful(journal')  BY <2>2, OutcomesAreTruthful DEF Truthful
  <2>4. UNCHANGED <<answered, snapshot, disk, stable>>  BY <1>3 DEF Drop, io, files, past
  <2> QED  BY <2>3, <2>4, OutcomesAreTruthful DEF Truthful, NoInventedOutcome
<1>4. CASE UNCHANGED <<journal, answered, snapshot>>
  BY <1>4 DEF NoInventedOutcome, files
<1>5. CASE Schedule(c) \/ Check(c) \/ Wake(c) \/ Abort(c)
  BY <1>4, <1>5 DEF Schedule, Check, Wake, Abort, io, past
<1> QED  BY <1>1, <1>2, <1>3, <1>5 DEF CallStep, Step

LEMMA StepTruthful ==
    ASSUME TypeOK, Phases, NoInventedOutcome, [Next]_vars
    PROVE  NoInventedOutcome'
<1>1. CASE Crash
  <2>1. /\ journal' = Empty /\ snapshot' = Empty /\ disk' \in {disk, stable}
        /\ UNCHANGED <<stable, answered>>
    BY <1>1 DEF Crash, past
  <2>2. \A c \in DOMAIN Empty : FALSE  BY EmptyType
  <2> QED  BY <2>1, <2>2 DEF NoInventedOutcome
<1>2. CASE Restart
  <2>1. UNCHANGED <<snapshot, answered>>  BY <1>2 DEF Restart, io, past
  <2>2. CASE Reload
    <3>1. Truthful(disk')
      BY <2>2, OutcomesAreTruthful, RecoveredFields DEF Reload, Truthful, TypeOK
    <3>2. UNCHANGED <<journal, stable>>  BY <2>2 DEF Reload
    <3> QED  BY <2>1, <3>1, <3>2, OutcomesAreTruthful DEF Truthful, NoInventedOutcome
  <2>3. CASE Open  BY <2>1, <2>3 DEF Open, NoInventedOutcome
  <2> QED  BY <1>2, <2>2, <2>3 DEF Restart
<1>3. CASE Writer
  <2>1. /\ UNCHANGED <<journal, answered>>
        /\ {snapshot', disk', stable'} \subseteq {journal, snapshot, disk, stable}
    BY <1>3 DEF Writer, ReadTarget, TakeSnapshot, Replace, SyncDirectory, Publish,
                NotifyAndGoOn, NotifyAndStop, files, past
  <2> QED  BY <2>1 DEF NoInventedOutcome
<1>4. CASE UNCHANGED vars
  BY <1>4 DEF vars, files, io, past, NoInventedOutcome
<1> QED  BY <1>1, <1>2, <1>3, <1>4, CallTruthful, Cases

\* No journal, in memory, on its way to the file or in it, ever credits a call with an
\* answer the tool has not given (CallRecord::finish, CallRecord::drop, set_journal).
THEOREM OutcomesAreReal == Spec => []NoInventedOutcome
BY Base, InitTruthful, StepTruthful, PTL DEF Spec

-----------------------------------------------------------------------------
(* Sizes.                                                                    *)

PositionsIn(j) == DOMAIN j \subseteq Numbered

LEMMA InitPositions == Init => Positions
<1> SUFFICES ASSUME Init PROVE Positions
  OBVIOUS
<1>1. PICK position \in [Old -> 1..Cardinality(Old)] :
          /\ \A c, d \in Old : position[c] = position[d] => c = d
          /\ order = [c \in Calls |-> IF c \in Old THEN position[c] ELSE 0]
  BY DEF Init
<1>2. Cardinality(Old) \in Nat /\ Old \subseteq Calls
  BY JournalAssumption, FS_Subset, FS_CardinalityType
<1>3. Numbered = Old  BY <1>1, <1>2 DEF Numbered
<1>4. \A j \in {journal, snapshot, disk, stable} : DOMAIN j \subseteq Numbered
  BY <1>3, OldType, EmptyType DEF Init
<1>5. \A c \in Calls : order[c] <= Cardinality(Numbered)  BY <1>1, <1>2, <1>3
<1>6. \A c, d \in Numbered : order[c] = order[d] => c = d  BY <1>1, <1>2, <1>3
<1> QED  BY <1>4, <1>5, <1>6 DEF Positions

LEMMA EnterPositions ==
    ASSUME TypeOK, Phases, Positions, NEW c \in Calls, EnterEffect(c),
           UNCHANGED <<snapshot, disk, stable>>
    PROVE  Positions'
<1> DEFINE n == Cardinality(Numbered)
<1>1. IsFiniteSet(Numbered) /\ n \in Nat  BY NumberedCount
<1>2. order[c] = 0 /\ c \notin Numbered /\ order \in [Calls -> Nat]
  BY DEF EnterEffect, Phases, Numbered, TypeOK
<1>a. \A d \in Numbered : order[d] \in 1..n
  BY <1>1 DEF Positions, TypeOK, Numbered
<1>3. CASE order' = order
  <2>1. c \notin DOMAIN journal' \/ journal' = journal
    BY <1>1, <1>2, <1>3 DEF EnterEffect
  <2>2. DOMAIN journal' \subseteq DOMAIN journal
    BY <2>1 DEF EnterEffect
  <2> QED  BY <1>3, <2>2 DEF Positions, Numbered
<1>4. CASE order' = [order EXCEPT ![c] = 1 + n]
  <2>1. Numbered' = Numbered \cup {c}
    BY <1>1, <1>2, <1>4 DEF Numbered
  <2>2. Cardinality(Numbered') = n + 1
    BY <1>1, <1>2, <2>1, FS_AddElement
  <2>3. order'[c] = n + 1 /\ \A d \in Calls \ {c} : order'[d] = order[d]
    BY <1>1, <1>2, <1>4
  <2>4. \A d \in Calls : order'[d] <= n + 1
    BY <1>1, <1>2, <2>3 DEF Positions
  <2>5. \A a, b \in Numbered' : order'[a] = order'[b] => a = b
    <3>1. \A a, b \in Numbered : order[a] = order[b] => a = b  BY DEF Positions
    <3>2. Numbered \subseteq Calls  BY DEF Numbered
    <3> HIDE DEF n, Numbered
    <3> QED  BY <1>1, <1>2, <1>a, <2>1, <2>3, <3>1, <3>2
  <2>6. DOMAIN journal' \subseteq Numbered'
    <3>1. DOMAIN journal \subseteq Numbered  BY DEF Positions
    <3>2. DOMAIN journal' \subseteq DOMAIN journal \cup {c}  BY DEF EnterEffect
    <3> QED  BY <2>1, <3>1, <3>2
  <2>7. \A j \in {snapshot, disk, stable} : DOMAIN j \subseteq Numbered'
    BY <2>1 DEF Positions
  <2> QED  BY <2>2, <2>4, <2>5, <2>6, <2>7 DEF Positions
<1> QED  BY <1>3, <1>4 DEF EnterEffect

LEMMA StepPositions ==
    ASSUME TypeOK, Phases, Positions, [Next]_vars
    PROVE  Positions'
<1>1. ASSUME order' = order,
             \A j \in {journal', snapshot', disk', stable'} :
                 \E i \in {Empty, journal, snapshot, disk, stable} : DOMAIN j \subseteq DOMAIN i
      PROVE  Positions'
  <2>1. Numbered' = Numbered  BY <1>1 DEF Numbered
  <2>2. \A i \in {Empty, journal, snapshot, disk, stable} : DOMAIN i \subseteq Numbered
    BY EmptyType DEF Positions
  <2> HIDE DEF Numbered
  <2> QED  BY <1>1, <2>1, <2>2 DEF Positions
<1>2. CASE Crash
  <2>1. /\ journal' = Empty /\ snapshot' = Empty /\ disk' \in {disk, stable}
        /\ UNCHANGED <<stable, order>>
    BY <1>2 DEF Crash
  <2> QED  BY <1>1, <2>1
<1>3. CASE Restart
  <2>1. UNCHANGED <<snapshot, order>>  BY <1>3 DEF Restart, io
  <2>2. CASE Reload
    <3>1. DOMAIN disk' = DOMAIN disk /\ UNCHANGED <<journal, stable>>
      BY <2>2, RecoveredFields DEF Reload, TypeOK
    <3> QED  BY <1>1, <2>1, <3>1
  <2>3. CASE Open  BY <1>1, <2>1, <2>3 DEF Open
  <2> QED  BY <1>3, <2>2, <2>3 DEF Restart
<1>4. CASE Writer
  <2>1. /\ UNCHANGED <<journal, order>>
        /\ {snapshot', disk', stable'} \subseteq {journal, snapshot, disk, stable}
    BY <1>4 DEF Writer, ReadTarget, TakeSnapshot, Replace, SyncDirectory, Publish,
                NotifyAndGoOn, NotifyAndStop, files, past
  <2> QED  BY <1>1, <2>1
<1>5. ASSUME NEW c \in Calls, CallStep(c), UNCHANGED files PROVE Positions'
  <2>1. CASE Enter(c)
    <3>1. EnterEffect(c) /\ UNCHANGED <<snapshot, disk, stable>>
      BY <1>5, <2>1, EnterEffects DEF Enter, io, files
    <3> QED  BY <3>1, EnterPositions
  <2>2. ASSUME Answer(c) \/ Drop(c) PROVE Positions'
    <3>1. \E s \in Status : SetStatus(c, s)  BY <2>2 DEF Answer, Drop, Status
    <3>2. DOMAIN journal' = DOMAIN journal  BY <3>1, SetStatusEffect DEF TypeOK
    <3>3. UNCHANGED <<snapshot, disk, stable, order>>
      BY <1>5, <2>2 DEF Answer, Drop, io, files
    <3> QED  BY <1>1, <3>2, <3>3
  <2>3. CASE Schedule(c) \/ Check(c) \/ Wake(c) \/ Abort(c)
    <3>1. UNCHANGED <<journal, snapshot, disk, stable, order>>
      BY <1>5, <2>3 DEF Schedule, Check, Wake, Abort, io, files
    <3> QED  BY <1>1, <3>1
  <2> QED  BY <1>5, <2>1, <2>2, <2>3 DEF CallStep, Step
<1>6. CASE UNCHANGED vars
  <2>1. UNCHANGED <<journal, snapshot, disk, stable, order>>  BY <1>6 DEF vars, io, files
  <2> QED  BY <1>1, <2>1
<1> QED  BY <1>2, <1>3, <1>4, <1>5, <1>6, Cases

LEMMA PositionsInvariant == Spec => []Positions
BY Base, InitPositions, StepPositions, PTL DEF Spec

\* A full journal with a terminal record loses exactly one record.
LEMMA RoomIsMade ==
    ASSUME TypeOK, Positions, Terminal(journal) # {}
    PROVE  \E a \in Terminal(journal) : UNION OneEvicted = {a}
<1> DEFINE T == Terminal(journal)
<1>1. T \subseteq DOMAIN journal /\ DOMAIN journal \subseteq Numbered /\ Numbered \subseteq Calls
  BY DEF Terminal, Positions, Numbered
<1>2. \A d \in T : order[d] \in Nat  BY <1>1 DEF TypeOK
<1>3. PICK a \in T : \A d \in T : order[a] <= order[d]
  <2> DEFINE places == {order[d] : d \in T}
  <2> DEFINE less == OpToRel(<, Nat)
  <2>1. IsWellFoundedOn(less, Nat)  BY NatLessThanWellFounded
  <2>2. \A m, n \in Nat : <<m, n>> \in less <=> m < n  BY DEF OpToRel
  <2>3. places \subseteq Nat /\ places # {}  BY <1>2
  <2> HIDE DEF less, places
  <2>4. PICK n \in places : \A m \in places : ~(<<m, n>> \in less)
    BY <2>1, <2>3, WFMin
  <2>5. ASSUME NEW m \in places PROVE n <= m
    <3>1. m \in Nat /\ n \in Nat  BY <2>3
    <3>2. ~(m < n)  BY <2>2, <2>4, <3>1
    <3> QED  BY <3>1, <3>2
  <2> USE DEF places
  <2> QED  BY <2>5
<1>4. \A d \in T \ {a} : order[a] < order[d]
  <2> SUFFICES ASSUME NEW d \in T \ {a} PROVE order[a] < order[d]
    OBVIOUS
  <2>1. order[a] # order[d]  BY <1>1, <1>3 DEF Positions
  <2> QED  BY <1>2, <1>3, <2>1
<1>5. {a} \in OneEvicted
  <2>1. {a} \in SUBSET T  BY <1>3
  <2>2. Cardinality({a}) = 1  BY FS_Singleton
  <2> QED  BY <1>4, <2>1, <2>2 DEF OneEvicted, Prefixes
<1>6. ASSUME NEW R \in OneEvicted PROVE R = {a}
  <2>1. R \in SUBSET T /\ Cardinality(R) = 1 /\ \A x \in R, d \in T \ R : order[x] < order[d]
    BY <1>6 DEF OneEvicted, Prefixes
  <2>2. IsFiniteSet(R)
    BY <1>1, <2>1, JournalAssumption, FS_Subset
  <2>3. PICK x : R = {x}  BY <2>1, <2>2, FS_Singleton
  <2>4. x = a
    <3>1. SUFFICES ASSUME x # a PROVE FALSE  OBVIOUS
    <3>2. order[x] < order[a] /\ order[a] < order[x]  BY <1>4, <2>1, <2>3, <3>1
    <3> QED  BY <1>2, <2>1, <2>3, <3>2
  <2> QED  BY <2>3, <2>4
<1> QED  BY <1>5, <1>6

LEMMA BoundedSubset ==
    ASSUME NEW i \in Records, NEW j \in Records, WithinLimits(i), DOMAIN j \subseteq DOMAIN i
    PROVE  WithinLimits(j)
<1>1. DOMAIN i \subseteq Calls /\ IsFiniteSet(DOMAIN i)  BY RecordFields
<1>2. Fits(DOMAIN j)  BY <1>1, JournalAssumption DEF WithinLimits
<1>3. Cardinality(DOMAIN j) <= Cardinality(DOMAIN i)  BY <1>1, FS_Subset
<1>4. Cardinality(DOMAIN i) \in Nat /\ Cardinality(DOMAIN j) \in Nat
  BY <1>1, RecordFields, FS_CardinalityType
<1>5. Cardinality(DOMAIN j) <= Limit  BY <1>3, <1>4, JournalAssumption DEF WithinLimits
<1> QED  BY <1>2, <1>5 DEF WithinLimits

LEMMA OldBounded == WithinLimits(OldRecords) /\ WithinLimits(Empty)
<1>1. WithinLimits(OldRecords)  BY OldType, JournalAssumption DEF WithinLimits
<1> QED  BY <1>1, OldType, EmptyType, BoundedSubset

\* There is room for one more record, or none is entered.
LEMMA EnteredSize ==
    ASSUME TypeOK, Positions, WithinLimits(journal), ~(Full /\ Terminal(journal) = {}), NEW c \in Calls
    PROVE  Cardinality(DOMAIN Entered(c)) <= Limit
<1>1. journal \in Records /\ IsFiniteSet(DOMAIN journal) /\ Cardinality(DOMAIN journal) \in Nat
  BY RecordFields, FS_CardinalityType DEF TypeOK
<1>2. Limit \in Nat /\ Cardinality(DOMAIN journal) <= Limit
  BY JournalAssumption DEF WithinLimits
<1>3. /\ IsFiniteSet(DOMAIN Room) /\ Cardinality(DOMAIN Room) \in Nat
      /\ Cardinality(DOMAIN Room) <= Limit - 1
  <2>1. CASE Full
    <3>1. PICK a \in Terminal(journal) : UNION OneEvicted = {a}  BY <2>1, RoomIsMade
    <3>2. a \in DOMAIN journal  BY DEF Terminal
    <3>3. DOMAIN Room = DOMAIN journal \ {a}
      BY <1>1, <2>1, <3>1, WithoutFields DEF Room
    <3>4. /\ IsFiniteSet(DOMAIN journal \ {a})
          /\ Cardinality(DOMAIN journal \ {a}) = Cardinality(DOMAIN journal) - 1
      BY <1>1, <3>2, FS_RemoveElement
    <3>5. Cardinality(DOMAIN Room) \in Nat  BY <3>3, <3>4, FS_CardinalityType
    <3> QED  BY <1>1, <1>2, <3>3, <3>4, <3>5
  <2>2. CASE ~Full
    <3>1. Room = journal /\ ~(Cardinality(DOMAIN journal) >= Limit)  BY <2>2 DEF Room, Full
    <3> QED  BY <1>1, <1>2, <3>1
  <2> QED  BY <2>1, <2>2
<1>4. DOMAIN Entered(c) = DOMAIN Room \cup {c}  BY <1>1, EnteredFields
<1>5. Cardinality(DOMAIN Room \cup {c}) = Cardinality(DOMAIN Room)
      \/ Cardinality(DOMAIN Room \cup {c}) = Cardinality(DOMAIN Room) + 1
  BY <1>3, FS_AddElement
<1> QED  BY <1>2, <1>3, <1>4, <1>5

LEMMA EnterBounded ==
    ASSUME TypeOK, Positions, WithinLimits(journal), NEW c \in Calls, Enter(c)
    PROVE  WithinLimits(journal')
<1> DEFINE e == Entered(c)
<1>1. CASE journal' = journal  BY <1>1
<1>2. CASE ~(Full /\ Terminal(journal) = {}) /\ Keep(Without(e, Terminal(e) \cup {c}), c)
  <2>1. e \in Records /\ journal \in Records
        /\ DOMAIN e \subseteq DOMAIN journal \cup {c}
    BY EnteredFields, RoomFields DEF TypeOK
  <2> HIDE DEF e
  <2>2. journal' = Without(e, Terminal(e) \cup {c})  BY <1>2 DEF Keep
  <2>3. journal' \in Records /\ DOMAIN journal' \subseteq DOMAIN journal
    BY <2>1, <2>2, WithoutFields
  <2> QED  BY <2>1, <2>3, BoundedSubset
<1>3. CASE ~(Full /\ Terminal(journal) = {}) /\ Enough(c) # {} /\ Keep(Without(e, Fewest(Enough(c))), c)
  <2> DEFINE R == Fewest(Enough(c))
  <2>1. e \in Records /\ Cardinality(DOMAIN e) <= Limit
    BY <1>3, EnteredFields, EnteredSize DEF TypeOK
  <2>2. Enough(c) \subseteq SUBSET Calls
    BY <2>1, RecordFields DEF Enough, Prefixes, Terminal
  <2>3. R \in Enough(c)  BY <1>3, <2>2, FewestExists
  <2>4. Fits(DOMAIN e \ R)  BY <2>3 DEF Enough
  <2>5. journal' = Without(e, R)  BY <1>3 DEF Keep
  <2> HIDE DEF e, R
  <2>6. DOMAIN journal' = DOMAIN e \ R  BY <2>1, <2>5, WithoutFields
  <2>7. IsFiniteSet(DOMAIN e)  BY <2>1, RecordFields
  <2>8. /\ Cardinality(DOMAIN journal') <= Cardinality(DOMAIN e)
        /\ IsFiniteSet(DOMAIN journal')
    BY <2>6, <2>7, FS_Subset
  <2>9. Cardinality(DOMAIN journal') \in Nat /\ Cardinality(DOMAIN e) \in Nat
    BY <2>7, <2>8, FS_CardinalityType
  <2>10. Cardinality(DOMAIN journal') <= Limit  BY <2>1, <2>8, <2>9, JournalAssumption
  <2> QED  BY <2>4, <2>6, <2>10 DEF WithinLimits
<1> QED  BY <1>1, <1>2, <1>3 DEF Enter

LEMMA StepBounded ==
    ASSUME TypeOK, Positions, AllBounded, [Next]_vars
    PROVE  AllBounded'
<1>1. ASSUME \A j \in {journal', snapshot', disk', stable'} :
                /\ j \in Records
                /\ \E i \in {Empty, journal, snapshot, disk, stable} : DOMAIN j = DOMAIN i
      PROVE  AllBounded'
  <2>1. \A i \in {Empty, journal, snapshot, disk, stable} : WithinLimits(i)
    BY OldBounded DEF AllBounded
  <2>2. \A j \in {journal', snapshot', disk', stable'} : WithinLimits(j)
    BY <1>1, <2>1 DEF WithinLimits
  <2> QED  BY <2>2 DEF AllBounded, WithinLimits
<1>t. /\ Empty \in Records /\ journal \in Records /\ snapshot \in Records
      /\ disk \in Records /\ stable \in Records
  BY EmptyType DEF TypeOK
<1>2. CASE Crash
  <2>1. /\ journal' = Empty /\ snapshot' = Empty /\ disk' \in {disk, stable}
        /\ UNCHANGED stable
    BY <1>2 DEF Crash
  <2> QED  BY <1>1, <1>t, <2>1
<1>3. CASE Restart
  <2>1. UNCHANGED snapshot  BY <1>3 DEF Restart, io
  <2>2. CASE Reload
    <3>1. disk' \in Records /\ DOMAIN disk' = DOMAIN disk /\ UNCHANGED <<journal, stable>>
      BY <2>2, RecoveredFields DEF Reload, TypeOK
    <3> QED  BY <1>1, <1>t, <2>1, <3>1
  <2>3. CASE Open  BY <1>1, <1>t, <2>1, <2>3 DEF Open
  <2> QED  BY <1>3, <2>2, <2>3 DEF Restart
<1>4. CASE Writer
  <2>1. /\ UNCHANGED journal
        /\ {snapshot', disk', stable'} \subseteq {journal, snapshot, disk, stable}
    BY <1>4 DEF Writer, ReadTarget, TakeSnapshot, Replace, SyncDirectory, Publish,
                NotifyAndGoOn, NotifyAndStop, files
  <2> QED  BY <1>1, <1>t, <2>1
<1>5. ASSUME NEW c \in Calls, CallStep(c), UNCHANGED files PROVE AllBounded'
  <2>1. CASE Enter(c)
    <3>1. WithinLimits(journal')  BY <2>1, EnterBounded DEF AllBounded
    <3>2. UNCHANGED <<snapshot, disk, stable>>  BY <1>5, <2>1 DEF Enter, io, files
    <3> QED  BY <3>1, <3>2 DEF AllBounded, WithinLimits
  <2>2. ASSUME Answer(c) \/ Drop(c) PROVE AllBounded'
    <3>1. \E s \in Status : SetStatus(c, s)  BY <2>2 DEF Answer, Drop, Status
    <3>2. journal' \in Records /\ DOMAIN journal' = DOMAIN journal
      BY <3>1, SetStatusEffect DEF TypeOK
    <3>3. UNCHANGED <<snapshot, disk, stable>>
      BY <1>5, <2>2 DEF Answer, Drop, io, files
    <3> QED  BY <1>1, <1>t, <3>2, <3>3
  <2>3. CASE Schedule(c) \/ Check(c) \/ Wake(c) \/ Abort(c)
    <3>1. UNCHANGED <<journal, snapshot, disk, stable>>
      BY <1>5, <2>3 DEF Schedule, Check, Wake, Abort, io, files
    <3> QED  BY <1>1, <1>t, <3>1
  <2> QED  BY <1>5, <2>1, <2>2, <2>3 DEF CallStep, Step
<1>6. CASE UNCHANGED vars
  <2>1. UNCHANGED <<journal, snapshot, disk, stable>>  BY <1>6 DEF vars, io, files
  <2> QED  BY <1>1, <1>t, <2>1
<1> QED  BY <1>2, <1>3, <1>4, <1>5, <1>6, Cases

LEMMA BoundedInvariant == Spec => []AllBounded
<1>1. Init => AllBounded  BY OldBounded DEF Init, AllBounded
<1> QED  BY <1>1, Base, PositionsInvariant, StepBounded, PTL DEF Spec

\* The file a start may find, also after a crash between any two steps of the writer,
\* has at most as many records and bytes as a start accepts (set_journal, dispatch).
\* A start can still refuse it for the metadata of a record, which dispatch does not
\* bound.
THEOREM FileKeepsLimits == Spec => []FileWithinLimits
<1>1. AllBounded => FileWithinLimits  BY DEF AllBounded, FileWithinLimits
<1> QED  BY <1>1, BoundedInvariant, PTL

-----------------------------------------------------------------------------
(* Notifications.                                                            *)

LEMMA InitTickets == Init => Tickets
BY DEF Init, Tickets, Waiting

LEMMA CallTickets ==
    ASSUME TypeOK, Tickets, NEW c \in Calls, CallStep(c)
    PROVE  Tickets'
<1> USE DEF TypeOK, Tickets, Waiting
<1>1. CASE Enter(c)
  <2>1. EnterEffect(c) /\ UNCHANGED <<ticket, woken, io>>
    BY <1>1, EnterEffects DEF Enter
  <2>2. pc' = [pc EXCEPT ![c] = pc'[c]] /\ pc'[c] \in {"schedule", "done"}
    BY <2>1 DEF EnterEffect
  <2> QED  BY <2>1, <2>2 DEF io
<1>2. CASE Schedule(c)
  <2>1. writer' # "idle" /\ (writer = "notify" => writer' = "notify")  BY <1>2 DEF Schedule
  <2>2. \A d \in Calls : Waiting(d)' => d = c \/ Waiting(d)  BY <1>2 DEF Schedule
  <2> QED  BY <1>2, <2>1, <2>2 DEF Schedule
<1>3. CASE Check(c)
  <2>1. /\ pc' = [pc EXCEPT ![c] = pc'[c]] /\ UNCHANGED <<ticket, woken, io>>
        /\ pc'[c] = "sleep" => completed < ticket[c]
        /\ pc'[c] \in {"sleep", "done", "dropping", "calling"} /\ pc[c] = "check"
    BY <1>3 DEF Check
  <2> QED  BY <2>1 DEF io
<1>4. CASE Wake(c)  BY <1>4 DEF Wake, io
<1>5. CASE Answer(c)  BY <1>5 DEF Answer, io
<1>6. CASE Drop(c)  BY <1>6 DEF Drop, io
<1>7. CASE Abort(c)  BY <1>7 DEF Abort, io
<1> QED  BY <1>1, <1>2, <1>3, <1>4, <1>5, <1>6, <1>7 DEF CallStep, Step

LEMMA StepTickets ==
    ASSUME TypeOK, Phases, Tickets, [Next]_vars
    PROVE  Tickets'
<1> USE DEF Tickets, Waiting
<1>1. CASE Crash
  <2>1. \A c \in Calls : pc'[c] \in {"idle", "done"}  BY <1>1 DEF Crash
  <2> QED  BY <1>1, <2>1 DEF Crash
<1>2. CASE Restart  BY <1>2 DEF Restart, io, call
<1>3. CASE Writer
  <2>1. UNCHANGED <<pc, ticket, requested>>
    BY <1>3 DEF Writer, ReadTarget, TakeSnapshot, Replace, SyncDirectory, Publish,
                NotifyAndGoOn, NotifyAndStop
  <2>2. CASE ReadTarget \/ TakeSnapshot \/ Replace \/ SyncDirectory
    BY <2>1, <2>2 DEF ReadTarget, TakeSnapshot, Replace, SyncDirectory
  <2>3. CASE Publish  BY <2>1, <2>3 DEF Publish, TypeOK
  <2>4. CASE NotifyAndGoOn \/ NotifyAndStop
    <3>1. \A c \in Calls : pc[c] = "sleep" => woken'[c]
      <4>1. woken' = [c \in Calls |-> woken[c] \/ Registered(c)]
        BY <2>4, Zenon DEF NotifyAndGoOn, NotifyAndStop, WakeAll
      <4>2. \A c \in Calls : woken'[c] <=> woken[c] \/ Registered(c)  BY <4>1, Zenon
      <4> QED  BY <4>2 DEF Registered
    <3>2. completed' = completed /\ (writer' = "idle" => writer = "idle")
      BY <2>4 DEF NotifyAndGoOn, NotifyAndStop
    <3> QED  BY <2>1, <3>1, <3>2
  <2> QED  BY <1>3, <2>2, <2>3, <2>4 DEF Writer
<1>4. CASE UNCHANGED vars  BY <1>4 DEF vars, io, call
<1> QED  BY <1>1, <1>2, <1>3, <1>4, CallTickets, Cases

LEMMA TicketsInvariant == Spec => []Tickets
BY Base, InitTickets, StepTickets, PTL DEF Spec

\* No caller sleeps for a write that is over without a notification still owed to it,
\* and none sleeps for a write no writer is at work on (schedule_journal,
\* journal_writer, persist_journal).
THEOREM NoticesAreOwed == Spec => []NoLostNotice
<1>1. TypeOK /\ Tickets => NoLostNotice
  <2> SUFFICES ASSUME TypeOK, Tickets, NEW c \in Calls, pc[c] = "sleep", ~woken[c]
               PROVE  IF completed >= ticket[c] THEN writer = "notify" \/ notices > 0
                                                ELSE writer # "idle"
    BY DEF NoLostNotice
  <2>1. CASE completed >= ticket[c]  BY <2>1 DEF Tickets
  <2>2. CASE ~(completed >= ticket[c])
    <3>1. ticket[c] <= requested  BY DEF Tickets, Waiting
    <3>2. completed \in Nat /\ requested \in Nat /\ ticket[c] \in Nat  BY DEF TypeOK
    <3>3. completed # requested  BY <2>2, <3>1, <3>2
    <3> QED  BY <2>2, <3>3 DEF Tickets
  <2> QED  BY <2>1, <2>2
<1> QED  BY <1>1, Base, TicketsInvariant, PTL

-----------------------------------------------------------------------------
(* What the writer has covered.                                              *)

LEMMA InitCoverage == Init => Coverage
BY DEF Init, Coverage, Covers, Waiting

LEMMA FewerCovered ==
    ASSUME TypeOK, NEW j, NEW m \in Nat, NEW n \in Nat, m <= n, Covers(j, n)
    PROVE  Covers(j, m)
BY DEF TypeOK, Covers

\* A step of a call makes nothing wait with a ticket that is already served.
LEMMA CallCovers ==
    ASSUME TypeOK, NEW c \in Calls, CallStep(c),
           NEW j, NEW n \in Nat, n <= requested, Covers(j, n)
    PROVE  Covers(j, n)'
<1> USE DEF TypeOK
<1>1. ASSUME \A d \in Calls : Waiting(d)' /\ ticket'[d] <= n =>
                 /\ Waiting(d) /\ ticket'[d] = ticket[d]
                 /\ finished'[d] = finished[d] /\ answered'[d] = answered[d]
      PROVE  Covers(j, n)'
  BY <1>1 DEF Covers, Says
<1>2. CASE Enter(c)
  <2>1. EnterEffect(c) /\ UNCHANGED <<ticket, finished, answered>>
    BY <1>2, EnterEffects DEF Enter, past
  <2>2. pc' = [pc EXCEPT ![c] = pc'[c]] /\ pc'[c] \in {"schedule", "done"}
    BY <2>1 DEF EnterEffect
  <2> QED  BY <1>1, <2>1, <2>2 DEF Waiting
<1>3. CASE Schedule(c)
  <2>1. /\ ticket' = [ticket EXCEPT ![c] = requested + 1]
        /\ pc' = [pc EXCEPT ![c] = pc'[c]] /\ UNCHANGED <<finished, answered>>
    BY <1>3 DEF Schedule, past
  <2> QED  BY <1>1, <2>1 DEF Waiting
<1>4. CASE Check(c)  BY <1>1, <1>4 DEF Check, Waiting
<1>5. CASE Wake(c)  BY <1>1, <1>5 DEF Wake, Waiting, past
<1>6. CASE Answer(c) \/ Drop(c)  BY <1>1, <1>6 DEF Answer, Drop, SetStatus, Waiting, past
<1>7. CASE Abort(c)  BY <1>1, <1>7 DEF Abort, Waiting, past
<1> QED  BY <1>2, <1>3, <1>4, <1>5, <1>6, <1>7 DEF CallStep, Step

LEMMA CallCoverage ==
    ASSUME TypeOK, Coverage, NEW c \in Calls, CallStep(c), UNCHANGED files
    PROVE  Coverage'
<1>1. /\ UNCHANGED <<completed, failed, target, snapshot, disk, stable>>
      /\ writer' = writer \/ (writer = "idle" /\ writer' = "start")
  BY DEF CallStep, Step, Enter, Schedule, Check, Wake, Answer, Drop, Abort, io, files
<1>2. /\ target \in Nat /\ target <= requested /\ completed \in Nat /\ completed <= requested
  BY DEF TypeOK
<1>3. ASSUME NEW j, NEW n \in {target, completed}, Covers(j, n) PROVE Covers(j, n)'
  BY <1>2, <1>3, CallCovers
<1> QED  BY <1>1, <1>3 DEF Coverage, Covers, Says

\* Memory says of every waiting call what it waits for.
LEMMA MemoryCovers ==
    ASSUME TypeOK, Memory, NEW n PROVE Covers(journal, n)
BY DEF TypeOK, Memory, InFlight, Answered, Covers, Says, Waiting

LEMMA WriterCoverage ==
    ASSUME TypeOK, Memory, Coverage, Writer
    PROVE  Coverage'
<1> USE DEF Coverage
<1>1. UNCHANGED <<pc, finished, ticket, answered, requested>>
  BY DEF Writer, ReadTarget, TakeSnapshot, Replace, SyncDirectory, Publish,
         NotifyAndGoOn, NotifyAndStop, past
<1>2. ASSUME NEW j, NEW n, Covers(j, n) PROVE Covers(j, n)'
  BY <1>1, <1>2 DEF Covers, Says, Waiting
<1>3. completed \in Nat /\ target \in Nat /\ completed <= target  BY DEF TypeOK
<1>4. ASSUME NEW j, Covers(j, target) PROVE Covers(j, completed)
  BY <1>3, <1>4, FewerCovered
<1>5. CASE ReadTarget
  BY <1>2, <1>5 DEF ReadTarget, files, Covers, Says, Waiting
<1>6. CASE TakeSnapshot
  <2>1. Covers(journal, target)  BY MemoryCovers
  <2>2. snapshot' = journal /\ writer' = "write" /\ UNCHANGED <<disk, stable, failed, target, completed>>
    BY <1>6 DEF TakeSnapshot, files
  <2> QED  BY <1>2, <2>1, <2>2 DEF Covers, Says, Waiting
<1>7. CASE Replace
  BY <1>2, <1>4, <1>7 DEF Replace, Covers, Says, Waiting
<1>8. CASE SyncDirectory
  BY <1>2, <1>4, <1>8 DEF SyncDirectory, Covers, Says, Waiting
<1>9. CASE Publish
  BY <1>2, <1>9 DEF Publish, files, Covers, Says, Waiting
<1>10. CASE NotifyAndGoOn \/ NotifyAndStop
  BY <1>2, <1>10 DEF NotifyAndGoOn, NotifyAndStop, files, Covers, Says, Waiting
<1> QED  BY <1>5, <1>6, <1>7, <1>8, <1>9, <1>10 DEF Writer

LEMMA StepCoverage ==
    ASSUME TypeOK, Phases, Memory, Coverage, [Next]_vars
    PROVE  Coverage'
<1>1. ASSUME \A c \in Calls : pc'[c] \in {"idle", "done"}, writer' = "idle"
      PROVE  Coverage'
  BY <1>1 DEF Coverage, Covers, Waiting
<1>2. CASE Crash
  <2>1. \A c \in Calls : pc'[c] \in {"idle", "done"}  BY <1>2 DEF Crash
  <2> QED  BY <1>1, <1>2, <2>1 DEF Crash
<1>3. CASE Restart
  <2>1. runtime # "up" /\ UNCHANGED <<pc, writer>>
    BY <1>3 DEF Restart, Reload, Open, io, call
  <2> QED  BY <1>1, <2>1 DEF Phases
<1>4. CASE UNCHANGED vars
  BY <1>4 DEF vars, io, call, files, past, Coverage, Covers, Says, Waiting
<1> QED  BY <1>2, <1>3, <1>4, CallCoverage, WriterCoverage, Cases

LEMMA CoverageInvariant == Spec => []Coverage
BY Base, MemoryInvariant, InitCoverage, StepCoverage, PTL DEF Spec

-----------------------------------------------------------------------------
(* Durability.                                                               *)

LEMMA InitDurable == Init => Durable
<1> SUFFICES ASSUME Init PROVE Durable
  OBVIOUS
<1>1. journal = OldRecords /\ disk = OldRecords /\ stable = OldRecords /\ writer = "idle" /\ runtime = "up"
  BY DEF Init
<1>2. Images = {OldRecords}  BY <1>1 DEF Images
<1>3. \A c \in Calls : told[c] = "nothing"  BY DEF Init
<1>4. \A c \in Calls : sent[c] => c \in Old
  <2>1. sent = [c \in Calls |-> c \in Old]  BY DEF Init
  <2> QED  BY <2>1
<1>5. "nothing" \notin Status  BY DEF Status
<1> QED  BY <1>1, <1>2, <1>3, <1>4, <1>5, OldType DEF Durable

\* An effect is recorded, or it is evicted.
LEMMA DurableIsRecorded == Durable => EffectsAreRecorded
<1> SUFFICES ASSUME Durable, runtime = "up" PROVE EffectsAreRecorded
  BY DEF Durable
<1>1. {disk, stable} \subseteq Images  BY DEF Images
<1> QED  BY <1>1 DEF Durable, EffectsAreRecorded

\* The call that is sent is in every file a restart may find.
LEMMA CheckIsCovered ==
    ASSUME TypeOK, Memory, Coverage, NEW c \in Calls, pc[c] = "check",
           completed >= ticket[c], ~failed
    PROVE  \A j \in Images : Says(j, c)
<1>1. /\ completed \in Nat /\ target \in Nat /\ ticket[c] \in Nat /\ completed <= target
      /\ ticket[c] <= completed /\ ticket[c] <= target
  BY DEF TypeOK
<1>2. Waiting(c)  BY DEF Waiting
<1>3. Says(disk, c) /\ Says(stable, c)  BY <1>1, <1>2 DEF Coverage, Covers
<1>4. Says(journal, c)
  <2>1. Covers(journal, completed)  BY MemoryCovers
  <2> QED  BY <1>1, <1>2, <2>1 DEF Covers
<1>5. writer \in {"write", "sync"} => Says(snapshot, c)
  BY <1>1, <1>2 DEF Coverage, Covers
<1> QED  BY <1>3, <1>4, <1>5 DEF Images

LEMMA CheckDurable ==
    ASSUME TypeOK, Phases, Memory, Coverage, Durable, runtime = "up", NEW c \in Calls, Check(c),
           UNCHANGED <<files, runtime>>
    PROVE  Durable'
<1>1. /\ UNCHANGED <<journal, evicted, disk, stable, snapshot, writer, runtime>>
      /\ pc[c] = "check"
  BY DEF Check, files, io
<1>2. Images' = Images /\ journal \in Images  BY <1>1 DEF Images
<1>3. ASSUME NEW d \in Calls, sent'[d]
      PROVE  /\ sent[d] \/ \A j \in Images : d \in DOMAIN j
  <2>1. CASE sent' = sent  BY <1>3, <2>1
  <2>2. CASE /\ completed >= ticket[c] /\ ~finished[c]
             /\ sent' = [sent EXCEPT ![c] = ~failed]
    <3>1. d # c => (sent'[d] <=> sent[d])
      <4>1. d # c => sent'[d] = sent[d]  BY <2>2 DEF TypeOK
      <4> QED  BY <4>1
    <3>2. d = c => ~failed
      <4>1. sent \in [Calls -> BOOLEAN]  BY DEF TypeOK
      <4>2. sent'[c] <=> ~failed  BY <2>2, <4>1, Zenon
      <4> QED  BY <1>3, <4>2
    <3>3. d = c => \A j \in Images : Says(j, c)  BY <1>1, <2>2, <3>2, CheckIsCovered
    <3> QED  BY <1>3, <2>2, <3>1, <3>3 DEF Says
  <2> QED  BY <2>1, <2>2 DEF Check
<1>4. ASSUME NEW d \in Calls, told'[d] \in Status
      PROVE  \A j \in Images : d \in DOMAIN j => j[d] = told'[d]
  <2>1. CASE told' = told  BY <1>4, <2>1 DEF Durable
  <2>2. CASE /\ completed >= ticket[c] /\ finished[c]
             /\ told' = [told EXCEPT ![c] = IF failed THEN "journal_failed" ELSE answered[c]]
    <3>1. d # c => told'[d] = told[d]  BY <2>2 DEF TypeOK
    <3>2. CASE d # c  BY <1>4, <3>1, <3>2 DEF Durable
    <3>3. CASE d = c
      <4>1. told'[c] = IF failed THEN "journal_failed" ELSE answered[c]  BY <2>2 DEF TypeOK
      <4>2. "journal_failed" \notin Status  BY DEF Status
      <4>3. ~failed /\ told'[c] = answered[c]  BY <1>4, <3>3, <4>1, <4>2
      <4>4. \A j \in Images : Says(j, c)  BY <1>1, <2>2, <4>3, CheckIsCovered
      <4> QED  BY <2>2, <3>3, <4>3, <4>4 DEF Says
    <3> QED  BY <3>2, <3>3
  <2> QED  BY <2>1, <2>2 DEF Check
<1>5. \A d \in Calls : sent'[d] /\ d \in DOMAIN journal => \A j \in Images : d \in DOMAIN j
  BY <1>3 DEF Durable
<1>6. \A d \in Calls : sent'[d] /\ d \notin evicted => d \in DOMAIN journal
  BY <1>2, <1>3 DEF Durable
<1> QED  BY <1>1, <1>2, <1>4, <1>5, <1>6 DEF Durable

LEMMA CallDurable ==
    ASSUME TypeOK, Phases, Memory, Coverage, Durable, runtime = "up", NEW c \in Calls, CallStep(c),
           UNCHANGED <<files, runtime>>
    PROVE  Durable'
<1>1. CASE Check(c)  BY <1>1, CheckDurable
<1>2. ASSUME UNCHANGED <<sent, told>>, {disk', stable'} = {disk, stable},
             Images' \subseteq Images \cup {journal'},
             \A d \in Calls : sent[d] /\ d \in DOMAIN journal' => d \in DOMAIN journal,
             \A d \in Calls : sent[d] /\ d \notin evicted' /\ (d \in evicted \/ d \in DOMAIN journal)
                 => d \in DOMAIN journal',
             \A d \in Calls : told[d] \in Status /\ d \in DOMAIN journal' =>
                 d \in DOMAIN journal /\ journal'[d] = journal[d]
      PROVE  Durable'
  <2>0. runtime' = "up"  OBVIOUS
  <2>1. journal \in Images  BY DEF Images
  <2>2. \A d \in Calls : sent[d] /\ d \in DOMAIN journal' => \A j \in Images' : d \in DOMAIN j
    BY <1>2 DEF Durable
  <2>3. \A d \in Calls : sent[d] /\ d \notin evicted' => d \in DOMAIN journal'
    BY <1>2 DEF Durable
  <2>4. \A d \in Calls : told[d] \in Status => \A j \in Images' : d \in DOMAIN j => j[d] = told[d]
    BY <1>2, <2>1 DEF Durable
  <2> QED  BY <1>2, <2>0, <2>2, <2>3, <2>4 DEF Durable
<1>3. UNCHANGED <<disk, stable, snapshot>> /\ (~Check(c) => UNCHANGED <<sent, told>>)
  <2>1. UNCHANGED <<disk, stable, snapshot>>
    BY DEF CallStep, Step, Enter, Schedule, Check, Wake, Answer, Drop, Abort, io, files
  <2>2. ~Check(c) => UNCHANGED <<sent, told>>
    BY DEF CallStep, Step, Enter, Schedule, Wake, Answer, Drop, Abort, past
  <2> QED  BY <2>1, <2>2
<1>4. writer' = writer \/ (writer = "idle" /\ writer' = "start")
  BY DEF CallStep, Step, Enter, Schedule, Check, Wake, Answer, Drop, Abort, io
<1>5. Images' \subseteq Images \cup {journal'}
  BY <1>3, <1>4 DEF Images
<1>6. CASE Enter(c)
  <2>1. EnterEffect(c) /\ UNCHANGED <<sent, told>>  BY <1>6, EnterEffects DEF Enter, past
  <2>2. ~sent[c] /\ told[c] \notin Status  BY <2>1 DEF EnterEffect, Phases
  <2>3. \A d \in Calls : sent[d] /\ d \in DOMAIN journal' => d \in DOMAIN journal
    BY <2>1, <2>2 DEF EnterEffect
  <2>4. \A d \in Calls : sent[d] /\ d \notin evicted' /\ (d \in evicted \/ d \in DOMAIN journal)
            => d \in DOMAIN journal'
    BY <2>1, <2>2 DEF EnterEffect
  <2>5. \A d \in Calls : told[d] \in Status /\ d \in DOMAIN journal' =>
            d \in DOMAIN journal /\ journal'[d] = journal[d]
    BY <2>1, <2>2 DEF EnterEffect
  <2> QED  BY <1>2, <1>3, <1>5, <2>1, <2>3, <2>4, <2>5
<1>7. ASSUME Answer(c) \/ Drop(c) PROVE Durable'
  <2>1. pc[c] \in {"calling", "dropping"} /\ ~Check(c) /\ evicted' = evicted
    BY <1>7 DEF Answer, Drop, Check
  <2>2. told[c] \notin Status  BY <2>1 DEF Phases
  <2>3. \E s \in Status : SetStatus(c, s)  BY <1>7 DEF Answer, Drop, Status
  <2>4. DOMAIN journal' = DOMAIN journal /\ \A d \in DOMAIN journal \ {c} : journal'[d] = journal[d]
    BY <2>3, SetStatusEffect DEF TypeOK
  <2> QED  BY <1>2, <1>3, <1>5, <2>1, <2>2, <2>4
<1>8. CASE Schedule(c) \/ Wake(c) \/ Abort(c)
  <2>1. UNCHANGED <<journal, evicted, sent, told>>
    BY <1>8 DEF Schedule, Wake, Abort, past
  <2> QED  BY <1>2, <1>3, <1>5, <2>1
<1> QED  BY <1>1, <1>6, <1>7, <1>8 DEF CallStep, Step

LEMMA WriterDurable ==
    ASSUME TypeOK, Durable, Writer, runtime = "up", UNCHANGED runtime
    PROVE  Durable'
<1>1. UNCHANGED <<journal, evicted, sent, told>>
  BY DEF Writer, past
<1>2. Images' \subseteq Images
  <2>1. CASE ReadTarget \/ TakeSnapshot \/ Publish \/ NotifyAndGoOn \/ NotifyAndStop
    BY <1>1, <2>1 DEF ReadTarget, TakeSnapshot, Publish, NotifyAndGoOn, NotifyAndStop, files, Images
  <2>2. CASE Replace  BY <1>1, <2>2 DEF Replace, Images
  <2>3. CASE SyncDirectory  BY <1>1, <2>3 DEF SyncDirectory, Images
  <2> QED  BY <2>1, <2>2, <2>3 DEF Writer
<1> QED  BY <1>1, <1>2 DEF Durable

LEMMA StepDurable ==
    ASSUME TypeOK, Phases, Memory, Coverage, Durable, [Next]_vars
    PROVE  Durable'
<1>1. EffectsAreRecorded  BY DurableIsRecorded
<1>2. CASE Crash
  <2>1. /\ journal' = Empty /\ writer' = "idle" /\ runtime' = "down" /\ disk' \in {disk, stable}
        /\ UNCHANGED <<stable, sent, told, evicted>>
    BY <1>2 DEF Crash, past
  <2>2. EffectsAreRecorded'  BY <1>1, <2>1 DEF EffectsAreRecorded
  <2>3. Images' \subseteq Images \cup {Empty}  BY <2>1 DEF Images
  <2> QED  BY <2>1, <2>2, <2>3, EmptyType DEF Durable
<1>3. CASE Restart /\ Reload
  <2>1. /\ disk' = Recovered(disk) /\ runtime = "down" /\ runtime' = "opening"
        /\ UNCHANGED <<journal, stable>>
    BY <1>3 DEF Reload
  <2>2. UNCHANGED <<sent, told, evicted, writer>>
    BY <1>3 DEF Restart, io, past
  <2>3. DOMAIN disk' = DOMAIN disk
        /\ \A c \in DOMAIN disk : disk[c] # "dispatched" => disk'[c] = disk[c]
    BY <2>1, RecoveredFields DEF TypeOK
  <2>4. journal = Empty /\ writer = "idle"  BY <2>1 DEF Phases
  <2>5. EffectsAreRecorded'  BY <1>1, <2>1, <2>2, <2>3 DEF EffectsAreRecorded
  <2>6. Images = {journal, disk, stable} /\ Images' = {journal, disk', stable}
    BY <2>1, <2>2, <2>4 DEF Images
  <2>7. ASSUME NEW c \in Calls, told[c] \in Status
        PROVE  \A j \in Images' : c \in DOMAIN j => j[c] = told[c]
    <3>1. told[c] # "dispatched"  BY <2>7 DEF Phases
    <3>2. c \in DOMAIN disk => disk[c] = told[c]  BY <2>6, <2>7 DEF Durable
    <3>3. c \in DOMAIN disk' => disk'[c] = told[c]  BY <2>3, <3>1, <3>2
    <3> QED  BY <2>6, <2>7, <3>3 DEF Durable
  <2>8. \A c \in Calls : c \notin DOMAIN journal'  BY <2>1, <2>4, EmptyType
  <2> QED  BY <2>1, <2>2, <2>5, <2>7, <2>8 DEF Durable
<1>4. CASE Restart /\ Open
  <2>1. /\ journal' = disk /\ stable' = disk /\ disk' = disk /\ runtime = "opening" /\ runtime' = "up"
    BY <1>4 DEF Open
  <2>2. UNCHANGED <<sent, told, evicted, writer>>
    BY <1>4 DEF Restart, io, past
  <2>3. writer = "idle"  BY <2>1 DEF Phases
  <2>4. Images' = {disk} /\ disk \in Images  BY <2>1, <2>2, <2>3 DEF Images
  <2>5. \A c \in Calls : sent[c] /\ c \notin evicted => c \in DOMAIN disk
    BY <1>1 DEF EffectsAreRecorded
  <2>6. \A c \in Calls : told[c] \in Status => (c \in DOMAIN disk => disk[c] = told[c])
    BY <2>4 DEF Durable
  <2> QED  BY <2>1, <2>2, <2>4, <2>5, <2>6 DEF Durable
<1>5. CASE UNCHANGED vars
  <2>1. UNCHANGED <<journal, disk, stable, snapshot, writer, runtime, sent, told, evicted>>
    BY <1>5 DEF vars, files, io, past
  <2> QED  BY <2>1 DEF Durable, Images, EffectsAreRecorded
<1> QED
  BY <1>2, <1>3, <1>4, <1>5, Cases, CallDurable, WriterDurable DEF Restart

LEMMA DurableInvariant == Spec => []Durable
BY Base, MemoryInvariant, CoverageInvariant, InitDurable, StepDurable, PTL DEF Spec

\* Write-ahead: a request that may have reached its tool is in the file, and stays there
\* through every crash and power loss, unless its terminal record made room for newer
\* ones (dispatch, persist_journal, journal_writer, atomic_snapshot, set_journal).
THEOREM WriteAhead == Spec => []EffectsAreRecorded
BY DurableInvariant, DurableIsRecorded, PTL

\* An outcome a caller has been told is what every file a restart may find says, unless
\* the record was evicted (persist_journal, journal_writer, set_journal).
THEOREM ToldIsDurable == Spec => []ToldOutcomeIsDurable
<1>1. Phases /\ Durable => ToldOutcomeIsDurable
  <2> SUFFICES ASSUME Phases, Durable, NEW c \in Calls, told[c] \in Status, c \notin evicted
               PROVE  /\ c \in DOMAIN disk /\ disk[c] = told[c]
                      /\ c \in DOMAIN stable /\ stable[c] = told[c]
    BY DEF ToldOutcomeIsDurable
  <2>1. sent[c]  BY DEF Phases
  <2>2. c \in DOMAIN disk /\ c \in DOMAIN stable
    BY <2>1, DurableIsRecorded DEF EffectsAreRecorded
  <2>3. disk \in Images /\ stable \in Images  BY DEF Images
  <2> QED  BY <2>2, <2>3 DEF Durable
<1> QED  BY <1>1, Base, DurableInvariant, PTL
=============================================================================

--------------------------- MODULE TransportsProofs ---------------------------
(* Theorems about the shared connections of a broker, for any number of       *)
(* calls, refreshes and servers.                                              *)
EXTENDS Transports, TLAPS, FiniteSetTheorems

USE TransportsAssumption

-----------------------------------------------------------------------------
(* The parts of the inductive invariant.                                     *)

Types ==
    /\ registry \subseteq Keys /\ cooling \subseteq Keys
    /\ slots \in [Keys -> Calls \cup {None}] /\ mapLock \in Calls \cup {None}
    /\ inside \in [Calls -> Calls \cup {None}]
    /\ lock \in [Calls -> Calls \cup {None}]
    /\ link \in [Calls -> {"none", "open", "closed"}]
    /\ pc \in [Tasks -> Task]
    /\ key \in [Calls -> Keys \cup {None}]
    /\ at \in [Tasks -> Calls \cup {None}] /\ conn \in [Calls -> Calls \cup {None}]
    /\ next \in [Refreshes -> SUBSET Keys] /\ failed \subseteq Refreshes
    /\ condemned \subseteq Calls
    /\ pending \in [Tasks -> SUBSET (Keys \cup Calls)]

Flags == configError \in BOOLEAN /\ stopped \in BOOLEAN

\* What a task refers to follows from where it stands.
WithSlot == {"retire", "lock", "connecting", "remove"}
WithLink == {"using", "invalidate", "remove"}
WithKey == {"queued", "slot"} \cup WithSlot \cup WithLink
Places ==
    /\ \A c \in Calls : /\ at[c] # None <=> pc[c] \in WithSlot
                        /\ conn[c] # None <=> pc[c] \in WithLink
                        /\ key[c] # None <=> pc[c] \in WithKey
                        /\ mapLock = c <=> pc[c] = "retire"
    /\ \A r \in Refreshes : /\ pc[r] = "closing" => at[r] # None
                            /\ pc[r] \in {"dropping", "closing"} => pending[r] \subseteq Keys

\* A slot is held by a call that connects in it.
Locks == \A s, c \in Calls : lock[s] = c => pc[c] = "connecting" /\ at[c] = s

\* A call that has not entered a slot has given its name to no slot and no connection.
New(c) == pc[c] \in {"idle", "lookup", "queued", "slot", "retire"}
Named(x) == \/ \E k \in Keys : slots[k] = x
            \/ x \in condemned
            \/ \E t \in Tasks : at[t] = x
            \/ \E c \in Calls : inside[c] = x \/ conn[c] = x
Names == \A c \in Calls : New(c) => ~Named(c)

\* It has used no slot either.
Vacant == \A c \in Calls : New(c) => inside[c] = None

\* A slot serves one server; the one that makes room is in the pool until it has gone.
OneServer ==
    /\ \A j, k \in Pooled : slots[j] = slots[k] => j = k
    /\ \A c \in Calls : pc[c] = "retire" => slots[key[c]] = None /\ at[c] \in PooledSlots

\* Slots and connections can be labelled with the server of the call that has made them:
\* whoever refers to one works for that server.
Label(g) ==
    /\ \A c \in Calls : key[c] # None => g[c] = key[c]
    /\ \A k \in Keys : slots[k] # None => g[slots[k]] = k
    /\ \A s \in Calls : inside[s] # None => g[inside[s]] = g[s]
    /\ \A c \in Calls : at[c] # None /\ pc[c] # "retire" => g[at[c]] = key[c]
    /\ \A c \in Calls : conn[c] # None => g[conn[c]] = key[c]
    /\ \A r \in Refreshes : pc[r] = "closing" => g[at[r]] \notin next[r]
Labelled == \E g \in [Calls -> Keys \cup {None}] : Label(g)

\* A refresh invalidates only what it does not keep.
Kept == \A r \in Refreshes : pc[r] \in {"dropping", "closing"} => pending[r] \cap next[r] = {}

\* An error with servers granted is the middle of a refresh, or one that was aborted.
Failing == configError /\ registry # {} =>
    \E r \in Refreshes : pc[r] \in {"clear", "clean", "aborted"}

\* A condemned slot in the pool is somebody's to drop, if that has not been aborted.
Dropping(r, k) == \/ pc[r] \in {"dropping", "closing"} /\ k \in pending[r]
                  \/ pc[r] = "aborted"
Revoking == \A k \in Keys : slots[k] # None /\ slots[k] \in condemned =>
    \E r \in Refreshes : Dropping(r, k)

-----------------------------------------------------------------------------
(* Types.                                                                    *)

LEMMA TaskKinds ==
    /\ \A c \in Calls : c \in Tasks /\ c \notin Refreshes /\ c # Shutdown /\ c # None
    /\ \A r \in Refreshes : r \in Tasks /\ r \notin Calls /\ r # Shutdown
    /\ Shutdown \in Tasks
    /\ \A k \in Keys : k # None
  BY DEF Tasks

LEMMA StepTypes ==
    ASSUME Types, Places, [Next]_vars
    PROVE  Types'
<1> USE TaskKinds DEF config, pool, work, Goes, Refers, Closed, Task
<1>1. ASSUME NEW c \in Calls, Call(c) PROVE Types'
  <2> USE DEF Types
  <2>1. UNCHANGED <<config, work, stopped>>  BY <1>1 DEF Call
  <2>2. Over(c) => /\ pc' \in [Tasks -> Task] /\ at' \in [Tasks -> Calls \cup {None}]
                   /\ conn' \in [Calls -> Calls \cup {None}] /\ key' \in [Calls -> Keys \cup {None}]
                   /\ lock' \in [Calls -> Calls \cup {None}]
    BY DEF Over
  <2>3. Refused(c) => Types'  BY <2>1, <2>2 DEF Refused
  <2>4. CASE CheckConfig(c) \/ Lookup(c) \/ Permit(c) \/ EndRequest(c) \/ Abort(c)
    BY <2>1, <2>3, <2>4 DEF CheckConfig, Lookup, Permit, EndRequest, Abort
  <2>5. ASSUME NEW p \in [Keys -> Calls \cup {None}], Enter(c, p), key[c] \in Keys
        PROVE  /\ slots' \in [Keys -> Calls \cup {None}] /\ pc' \in [Tasks -> Task]
               /\ at' \in [Tasks -> Calls \cup {None}]
    BY <2>5 DEF Enter
  <2>6. CASE FindSlot(c)
    <3>1. key[c] \in Keys  BY <2>6 DEF FindSlot, Places, WithKey
    <3>2. CASE Enter(c, slots) /\ UNCHANGED <<cooling, key, mapLock, inside, lock, link, conn>>
      BY <2>1, <2>5, <3>1, <3>2
    <3>3. CASE \E k \in Pooled : /\ Refers(c, slots[k]) /\ mapLock' = c /\ Goes(c, "retire")
                                 /\ UNCHANGED <<cooling, key, slots, inside, lock, link, conn>>
      BY <2>1, <3>3 DEF Pooled
    <3> QED  BY <2>3, <2>6, <3>2, <3>3 DEF FindSlot
  <2>7. CASE Retire(c)
    <3> DEFINE s == at[c]
               p == [k \in Keys |-> IF slots[k] = s THEN None ELSE slots[k]]
    <3>1. key[c] \in Keys /\ s \in Calls  BY <2>7 DEF Retire, Places, WithKey, WithSlot
    <3>2. p \in [Keys -> Calls \cup {None}] /\ Enter(c, p)  BY <2>7 DEF Retire
    <3>3. inside' \in [Calls -> Calls \cup {None}] /\ link' \in [Calls -> {"none", "open", "closed"}]
      BY <2>7, <3>1 DEF Retire
    <3>4. mapLock' = None /\ UNCHANGED <<cooling, key, lock, conn>>  BY <2>7 DEF Retire
    <3> HIDE DEF p
    <3> QED  BY <2>1, <2>5, <3>1, <3>2, <3>3, <3>4
  <2>8. CASE Acquire(c)
    <3>1. at[c] \in Calls  BY <2>8 DEF Acquire, Places, WithSlot
    <3>2. inside[at[c]] \in Calls \cup {None}  BY <3>1
    <3>3. /\ pc' \in [Tasks -> Task] /\ conn' \in [Calls -> Calls \cup {None}]
          /\ at' \in [Tasks -> Calls \cup {None}]
      BY <2>8, <3>2 DEF Acquire
    <3>4. inside' \in [Calls -> Calls \cup {None}] /\ lock' \in [Calls -> Calls \cup {None}]
      BY <2>8, <3>1 DEF Acquire
    <3> QED  BY <2>1, <2>8, <3>3, <3>4 DEF Acquire
  <2>9. CASE Connect(c)
    <3>1. at[c] \in Calls /\ key[c] \in Keys  BY <2>9 DEF Connect, Places, WithSlot, WithKey
    <3>2. CASE Over(c) /\ cooling' = cooling \cup {key[c]} /\ UNCHANGED <<inside, link>>
      BY <2>1, <2>2, <2>9, <3>1, <3>2 DEF Connect
    <3>3. CASE ~(Over(c) /\ cooling' = cooling \cup {key[c]} /\ UNCHANGED <<inside, link>>)
      <4>1. /\ link' = [link EXCEPT ![c] = "open"] /\ inside' = [inside EXCEPT ![at[c]] = c]
            /\ conn' = [conn EXCEPT ![c] = c] /\ lock' = [lock EXCEPT ![at[c]] = None]
            /\ at' = [at EXCEPT ![c] = None] /\ pc' = [pc EXCEPT ![c] = "using"]
            /\ UNCHANGED <<cooling, key, slots, mapLock>>
        BY <2>9, <3>3 DEF Connect, Opens
      <4> QED  BY <2>1, <3>1, <4>1
    <3> QED  BY <3>2, <3>3
  <2>10. CASE Invalidate(c)
    <3>1. key[c] \in Keys  BY <2>10 DEF Invalidate, Places, WithLink, WithKey
    <3>2. CASE slots[key[c]] # None
      <4>1. slots[key[c]] \in Calls  BY <3>1, <3>2
      <4>2. /\ slots' = [slots EXCEPT ![key[c]] = None] /\ at' = [at EXCEPT ![c] = slots[key[c]]]
            /\ pc' = [pc EXCEPT ![c] = "remove"]
            /\ UNCHANGED <<cooling, key, mapLock, inside, lock, link, conn>>
        BY <2>10, <3>2 DEF Invalidate, Remove
      <4> QED  BY <2>1, <3>1, <4>1, <4>2
    <3>3. CASE slots[key[c]] = None  BY <2>3, <2>10, <3>3 DEF Invalidate
    <3> QED  BY <3>2, <3>3
  <2>11. CASE CloseRemoved(c)
    <3>1. at[c] \in Calls  BY <2>11 DEF CloseRemoved, Places, WithSlot
    <3> QED  BY <2>1, <2>2, <2>11, <3>1 DEF CloseRemoved, TakeOut
  <2> QED  BY <1>1, <2>4, <2>6, <2>7, <2>8, <2>9, <2>10, <2>11 DEF Call
<1>2. ASSUME NEW r \in Refreshes, Refresh(r) PROVE Types'
  <2> USE DEF Types
  <2>1. UNCHANGED <<mapLock, lock, key, conn, stopped>>  BY <1>2 DEF Refresh
  <2>2. CASE GiveUp(r) \/ Load(r) \/ Report(r) \/ Clear(r) \/ Publish(r) \/ Clean(r)
    BY <2>1, <2>2 DEF GiveUp, Load, Unreadable, Report, Clear, Publish, Clean
  <2>3. CASE List(r)
    <3>1. Pooled \subseteq Keys /\ Revoked(r) \subseteq Keys
          /\ {slots[k] : k \in Pooled \ next[r]} \subseteq Calls
      BY DEF Pooled, Revoked
    <3> QED  BY <2>1, <2>3, <3>1 DEF List
  <2>4. CASE DropNext(r)
    <3>1. PICK k \in pending[r] : /\ pending' = [pending EXCEPT ![r] = @ \ {k}]
                                  /\ Remove(k) /\ Refers(r, slots[k])
      BY <2>4 DEF DropNext
    <3>2. k \in Keys  BY <2>4 DEF DropNext, Places
    <3> QED  BY <2>1, <2>4, <3>1, <3>2 DEF DropNext, Remove
  <2>5. CASE CloseDropped(r)
    <3>1. at[r] \in Calls  BY <2>5 DEF CloseDropped, Places
    <3> QED  BY <2>1, <2>5, <3>1 DEF CloseDropped, TakeOut
  <2> QED  BY <1>2, <2>2, <2>3, <2>4, <2>5 DEF Refresh
<1>3. CASE World
  <2> USE DEF Types
  <2>1. CASE Stop /\ UNCHANGED <<config, cooling, mapLock, lock, key, at, conn, next, failed, condemned>>
    <3>1. PooledSlots \subseteq Calls  BY DEF PooledSlots, Pooled
    <3>2. ASSUME NEW s \in pending[Shutdown], TakeOut(s)
          PROVE  /\ inside' \in [Calls -> Calls \cup {None}]
                 /\ link' \in [Calls -> {"none", "open", "closed"}]
      BY <3>2 DEF TakeOut
    <3>3. /\ slots' \in [Keys -> Calls \cup {None}] /\ pc' \in [Tasks -> Task]
          /\ pending' \in [Tasks -> SUBSET (Keys \cup Calls)]
      BY <2>1, <3>1 DEF Stop
    <3> QED  BY <2>1, <3>2, <3>3 DEF Stop
  <2>2. CASE (\E x \in Calls : PeerDies(x)) /\ UNCHANGED
             <<config, cooling, slots, mapLock, inside, lock, pc, key, at, conn, work, stopped>>
    BY <2>2 DEF PeerDies
  <2> QED  BY <1>3, <2>1, <2>2 DEF World
<1>4. CASE UNCHANGED vars
  BY <1>4 DEF vars, Types
<1> QED  BY <1>1, <1>2, <1>3, <1>4 DEF Next, Quiet

LEMMA StepFlags ==
    ASSUME Flags, [Next]_vars
    PROVE  Flags'
<1>1. ASSUME NEW c \in Calls, Call(c) PROVE Flags'
  BY <1>1, Zenon DEF Call, config, Flags
<1>2. ASSUME NEW r \in Refreshes, Refresh(r) PROVE Flags'
  <2>1. stopped' = stopped  BY <1>2, Zenon DEF Refresh
  <2>2. configError' = configError \/ configError' = TRUE \/ configError' = FALSE
    BY <1>2, Zenon DEF Refresh, GiveUp, Load, Report, Clear, List, DropNext, CloseDropped,
                       Publish, Clean
  <2> QED  BY <2>1, <2>2, Zenon DEF Flags
<1>3. CASE World
  BY <1>3, Zenon DEF World, Stop, config, Flags
<1>4. CASE UNCHANGED vars
  BY <1>4, Zenon DEF vars, config, Flags
<1> QED  BY <1>1, <1>2, <1>3, <1>4, Zenon DEF Next, Quiet

-----------------------------------------------------------------------------
(* Where tasks stand.                                                        *)

Place(c) == /\ at[c] # None <=> pc[c] \in WithSlot
            /\ conn[c] # None <=> pc[c] \in WithLink
            /\ key[c] # None <=> pc[c] \in WithKey
            /\ mapLock = c <=> pc[c] = "retire"
Aim(r) == /\ pc[r] = "closing" => at[r] # None
          /\ pc[r] \in {"dropping", "closing"} => pending[r] \subseteq Keys

\* A call moves itself only.
LEMMA CallMoves ==
    ASSUME Types, NEW c \in Calls, Call(c)
    PROVE  /\ \A t \in Tasks \ {c} : pc'[t] = pc[t] /\ at'[t] = at[t]
           /\ \A d \in Calls \ {c} : conn'[d] = conn[d] /\ key'[d] = key[d]
           /\ UNCHANGED <<config, work, stopped>>
<1> USE TaskKinds DEF Goes, Refers, pool, Types
<1>1. Over(c) => /\ \A t \in Tasks \ {c} : pc'[t] = pc[t] /\ at'[t] = at[t]
                 /\ \A d \in Calls \ {c} : conn'[d] = conn[d] /\ key'[d] = key[d]
  BY DEF Over
<1>a. \A to : Goes(c, to) => \A t \in Tasks \ {c} : pc'[t] = pc[t]
  OBVIOUS
<1>b. \A s : Refers(c, s) => \A t \in Tasks \ {c} : at'[t] = at[t]
  OBVIOUS
<1>c. UNCHANGED <<config, work, stopped>>  BY DEF Call
<1> DEFINE Moved == /\ \A t \in Tasks \ {c} : pc'[t] = pc[t] /\ at'[t] = at[t]
                    /\ \A d \in Calls \ {c} : conn'[d] = conn[d] /\ key'[d] = key[d]
<1>d. Refused(c) => Moved  BY <1>1 DEF Refused
<1>2. CASE CheckConfig(c)  BY <1>a, <1>c, <1>d, <1>2 DEF CheckConfig
<1>3. CASE Lookup(c)  BY <1>a, <1>c, <1>d, <1>3 DEF Lookup
<1>4. CASE Permit(c)  BY <1>a, <1>c, <1>d, <1>4 DEF Permit
<1>5. CASE EndRequest(c) \/ Abort(c)  BY <1>a, <1>c, <1>d, <1>5 DEF EndRequest, Abort
<1>6. CASE Invalidate(c)  BY <1>a, <1>b, <1>c, <1>d, <1>6 DEF Invalidate
<1>7. CASE CloseRemoved(c)  BY <1>1, <1>c, <1>7 DEF CloseRemoved
<1>8. CASE Connect(c)
  <2>1. CASE Over(c)  BY <1>1, <1>c, <2>1
  <2>2. CASE /\ conn' = [conn EXCEPT ![c] = c] /\ key' = key
             /\ Refers(c, None) /\ Goes(c, "using")
    BY <1>c, <2>2
  <2> QED  BY <1>8, <2>1, <2>2 DEF Connect
<1>9. CASE Acquire(c)
  BY <1>a, <1>b, <1>c, <1>9 DEF Acquire
<1>10. CASE FindSlot(c)
  <2>1. CASE Refused(c)  BY <1>c, <1>d, <2>1
  <2>2. CASE (\E s : Refers(c, s)) /\ (\E to : Goes(c, to)) /\ UNCHANGED <<key, conn>>
    BY <1>a, <1>b, <1>c, <2>2
  <2> QED  BY <1>10, <2>1, <2>2 DEF FindSlot, Enter
<1>11. CASE Retire(c)
  <2>1. (\E p : Enter(c, p)) /\ UNCHANGED <<key, conn>>
    BY <1>11, Zenon DEF Retire
  <2>2. (\E s : Refers(c, s)) /\ Goes(c, "lock")
    BY <2>1, Zenon DEF Enter
  <2> QED  BY <1>a, <1>b, <1>c, <2>1, <2>2
<1> QED  BY <1>2, <1>3, <1>4, <1>5, <1>6, <1>7, <1>8, <1>9, <1>10, <1>11 DEF Call

LEMMA RefreshMoves ==
    ASSUME Types, NEW r \in Refreshes, Refresh(r)
    PROVE  /\ UNCHANGED <<mapLock, lock, key, conn, stopped>>
           /\ \A t \in Tasks \ {r} : pc'[t] = pc[t] /\ at'[t] = at[t] /\ pending'[t] = pending[t]
  BY TaskKinds DEF Refresh, GiveUp, Load, Unreadable, Report, Clear, List, DropNext, CloseDropped,
                   Publish, Clean, Goes, Refers, Types

LEMMA WorldMoves ==
    ASSUME Types, World
    PROVE  /\ UNCHANGED <<registry, cooling, mapLock, lock, key, at, conn, next, failed, condemned>>
           /\ \A t \in Calls \cup Refreshes : pc'[t] = pc[t] /\ pending'[t] = pending[t]
           /\ slots' = slots \/ slots' = [k \in Keys |-> None]
  BY TaskKinds DEF World, Stop, Goes, Types, config, work

LEMMA StepPlaces ==
    ASSUME Types, Places, [Next]_vars
    PROVE  Places'
<1> USE TaskKinds DEF Goes, Refers, pool, config, work, Types
<1>a. Places <=> (\A c \in Calls : Place(c)) /\ (\A r \in Refreshes : Aim(r))
  BY DEF Places, Place, Aim
<1>b. Places' <=> (\A c \in Calls : Place(c)') /\ (\A r \in Refreshes : Aim(r)')
  BY DEF Places, Place, Aim
<1>1. ASSUME NEW c \in Calls, Call(c) PROVE Places'
  <2> USE DEF WithSlot, WithLink, WithKey
  <2>1. /\ \A t \in Tasks \ {c} : pc'[t] = pc[t] /\ at'[t] = at[t]
        /\ \A d \in Calls \ {c} : conn'[d] = conn[d] /\ key'[d] = key[d]
        /\ UNCHANGED <<config, work, stopped>>
    BY <1>1, CallMoves
  <2>2. Over(c) => at'[c] = None /\ conn'[c] = None /\ key'[c] = None /\ pc'[c] = "done"
    BY DEF Over
  <2>p. Place(c)  BY <1>a
  <2>o. \A d \in Calls : mapLock = d <=> pc[d] = "retire"  BY <1>a DEF Place
  <2>3. Refused(c) /\ pc[c] # "retire" => Place(c)' /\ mapLock' = mapLock
    BY <2>2, <2>p DEF Place, Refused
  <2>4. CASE CheckConfig(c) \/ Lookup(c) \/ Permit(c) \/ EndRequest(c) \/ Abort(c)
    <3>1. Place(c)' /\ mapLock' = mapLock
      BY <2>3, <2>4, <2>p DEF CheckConfig, Lookup, Permit, EndRequest, Abort, Place
    <3> QED  BY <1>a, <1>b, <2>1, <3>1 DEF Place, Aim
  <2>5. CASE FindSlot(c)
    <3>1. Refused(c) => Place(c)' /\ mapLock' = mapLock  BY <2>3, <2>5 DEF FindSlot
    <3>2. Enter(c, slots) /\ UNCHANGED <<cooling, key, mapLock, inside, lock, link, conn>>
             => Place(c)' /\ mapLock' = mapLock
      BY <2>5, <2>p DEF FindSlot, Enter, Place
    <3>3. CASE mapLock' = mapLock /\ Place(c)'
      BY <1>a, <1>b, <2>1, <3>3 DEF Place, Aim
    <3>4. CASE \E k \in Pooled : /\ Refers(c, slots[k]) /\ mapLock' = c /\ Goes(c, "retire")
                                 /\ UNCHANGED <<cooling, key, slots, inside, lock, link, conn>>
      <4>1. Place(c)'  BY <2>5, <2>p, <3>4 DEF FindSlot, Place, Pooled
      <4>2. mapLock = None /\ mapLock' = c  BY <2>5, <3>4 DEF FindSlot
      <4> QED  BY <1>a, <1>b, <2>1, <2>o, <4>1, <4>2 DEF Place, Aim
    <3> QED  BY <2>5, <3>1, <3>2, <3>3, <3>4 DEF FindSlot
  <2>6. CASE Retire(c)
    <3>1. \E s \in Calls : Refers(c, s)
      <4>1. \E p : Enter(c, p) /\ p \in [Keys -> Calls \cup {None}]
        BY <2>6 DEF Retire
      <4>2. key[c] \in Keys  BY <2>6, <2>p DEF Retire, Place
      <4> QED  BY <4>1, <4>2 DEF Enter
    <3>2. pc[c] = "retire" /\ mapLock' = None /\ pc'[c] = "lock" /\ UNCHANGED <<key, conn>>
      BY <2>6 DEF Retire, Enter
    <3>3. Place(c)'  BY <2>p, <3>1, <3>2 DEF Place
    <3> QED  BY <1>a, <1>b, <2>1, <2>o, <3>2, <3>3 DEF Place, Aim
  <2>7. CASE Acquire(c)
    <3>1. Place(c)' /\ mapLock' = mapLock  BY <2>7, <2>p DEF Acquire, Place
    <3> QED  BY <1>a, <1>b, <2>1, <3>1 DEF Place, Aim
  <2>8. CASE Connect(c)
    <3>1. Place(c)' /\ mapLock' = mapLock  BY <2>2, <2>8, <2>p DEF Connect, Place
    <3> QED  BY <1>a, <1>b, <2>1, <3>1 DEF Place, Aim
  <2>9. CASE Invalidate(c) \/ CloseRemoved(c)
    <3>1. Place(c)' /\ mapLock' = mapLock
      BY <2>2, <2>3, <2>9, <2>p DEF Invalidate, CloseRemoved, Place
    <3> QED  BY <1>a, <1>b, <2>1, <3>1 DEF Place, Aim
  <2> QED  BY <1>1, <2>4, <2>5, <2>6, <2>7, <2>8, <2>9 DEF Call
<1>2. ASSUME NEW r \in Refreshes, Refresh(r) PROVE Places'
  <2>1. /\ UNCHANGED <<mapLock, lock, key, conn, stopped>>
        /\ \A t \in Tasks \ {r} : pc'[t] = pc[t] /\ at'[t] = at[t] /\ pending'[t] = pending[t]
    BY <1>2, RefreshMoves
  <2>p. Aim(r)  BY <1>a
  <2>2. Aim(r)'
    <3>1. CASE GiveUp(r) \/ Load(r) \/ Report(r) \/ Clear(r) \/ CloseDropped(r)
               \/ Publish(r) \/ Clean(r)
      BY <2>p, <3>1 DEF GiveUp, Load, Unreadable, Report, Clear, CloseDropped, Publish, Clean, Aim
    <3>2. CASE List(r)
      BY <3>2 DEF List, Revoked, Pooled, Aim
    <3>3. CASE DropNext(r)
      BY <2>p, <3>3 DEF DropNext, Aim
    <3> QED  BY <1>2, <3>1, <3>2, <3>3 DEF Refresh
  <2> QED  BY <1>a, <1>b, <2>1, <2>2 DEF Place, Aim
<1>3. CASE World
  BY <1>a, <1>b, <1>3, WorldMoves DEF Place, Aim
<1>4. CASE UNCHANGED vars
  BY <1>a, <1>b, <1>4 DEF vars, Place, Aim
<1> QED  BY <1>1, <1>2, <1>3, <1>4 DEF Next, Quiet

LEMMA StepLocks ==
    ASSUME Types, Locks, [Next]_vars
    PROVE  Locks'
<1> USE TaskKinds DEF pool
<1>1. ASSUME NEW c \in Calls, Call(c) PROVE Locks'
  <2>1. \A t \in Tasks \ {c} : pc'[t] = pc[t] /\ at'[t] = at[t]  BY <1>1, CallMoves
  <2>2. CASE Acquire(c) /\ lock' # lock
    <3>1. /\ lock[at[c]] = None /\ lock' = [lock EXCEPT ![at[c]] = c]
          /\ pc' = [pc EXCEPT ![c] = "connecting"] /\ at' = at /\ pc[c] = "lock"
      BY <2>2 DEF Acquire, Goes
    <3> QED  BY <2>1, <3>1 DEF Locks, Types
  <2>3. CASE \A s \in Calls : lock'[s] = c => lock[s] = c /\ at'[c] = at[c] /\ pc'[c] = pc[c]
    <3>1. \A s, d \in Calls : lock'[s] = d => lock[s] = d
      BY <1>1, <2>3 DEF Call, CheckConfig, Lookup, Permit, FindSlot, Retire, Acquire, Connect,
                        EndRequest, Invalidate, CloseRemoved, Abort, Refused, Over, Types
    <3> QED  BY <2>1, <2>3, <3>1 DEF Locks
  <2>4. CASE ~Acquire(c) \/ lock' = lock
    <3>1. CASE pc[c] # "connecting"
      <4>1. \A s \in Calls : lock[s] # c  BY <3>1 DEF Locks
      <4>2. \A s \in Calls : lock'[s] # c
        BY <1>1, <2>4, <3>1, <4>1
           DEF Call, CheckConfig, Lookup, Permit, FindSlot, Retire, Acquire, Connect, EndRequest,
               Invalidate, CloseRemoved, Abort, Refused, Over, Types
      <4> QED  BY <2>3, <4>2
    <3>2. CASE pc[c] = "connecting"
      <4>1. Connect(c) \/ Abort(c)
        BY <1>1, <3>2 DEF Call, CheckConfig, Lookup, Permit, FindSlot, Retire, Acquire, EndRequest,
                          Invalidate, CloseRemoved
      <4>2. \A s \in Calls : lock'[s] # c
        BY <4>1 DEF Connect, Abort, Refused, Over, Locks, Types
      <4> QED  BY <2>3, <4>2
    <3> QED  BY <3>1, <3>2
  <2> QED  BY <2>2, <2>4
<1>2. ASSUME NEW r \in Refreshes, Refresh(r) PROVE Locks'
  BY <1>2, RefreshMoves DEF Locks
<1>3. CASE World
  BY <1>3, WorldMoves DEF Locks
<1>4. CASE UNCHANGED vars
  BY <1>4 DEF vars, Locks
<1> QED  BY <1>1, <1>2, <1>3, <1>4 DEF Next, Quiet

-----------------------------------------------------------------------------
(* Slots.                                                                    *)

\* A call becomes the name of a slot when it enters it, and of a connection when it opens it.
LEMMA CallNames ==
    ASSUME Types, Places, NEW c \in Calls, Call(c)
    PROVE  /\ New(c)' => New(c)
           /\ \A x \in Calls : Named(x)' => Named(x) \/ (x = c /\ ~New(c)')
<1> USE TaskKinds DEF pool, Types
<1>1. UNCHANGED <<config, work, stopped>>
      /\ \A t \in Tasks \ {c} : at'[t] = at[t]
      /\ \A d \in Calls \ {c} : conn'[d] = conn[d]
  BY CallMoves
<1>2. condemned' = condemned  BY <1>1 DEF work
<1>3. New(c)' => New(c)
  BY DEF New, Call, CheckConfig, Lookup, Permit, FindSlot, Retire, Acquire, Connect, EndRequest,
         Invalidate, CloseRemoved, Abort, Refused, Over, Goes, Enter
<1>4. Over(c) => at'[c] = None /\ conn'[c] = None /\ ~New(c)'
  BY DEF Over, Refers, Goes, New
<1>5. CASE UNCHANGED <<slots, inside>> /\ (at'[c] = at[c] \/ at'[c] = None)
           /\ (conn'[c] = conn[c] \/ conn'[c] = None)
  BY <1>1, <1>2, <1>3, <1>5 DEF Named
<1>6. CASE CheckConfig(c) \/ Lookup(c) \/ Permit(c) \/ EndRequest(c) \/ Abort(c)
  BY <1>4, <1>5, <1>6 DEF CheckConfig, Lookup, Permit, EndRequest, Abort, Refused
<1>7. ASSUME NEW p \in [Keys -> Calls \cup {None}], Enter(c, p), key[c] \in Keys,
             \A k \in Keys : p[k] = slots[k] \/ p[k] = None,
             conn' = conn, \A s \in Calls : inside'[s] = inside[s] \/ inside'[s] = None
      PROVE  \A x \in Calls : Named(x)' => Named(x) \/ (x = c /\ ~New(c)')
  <2>1. at'[c] = (IF p[key[c]] = None THEN c ELSE p[key[c]]) /\ slots' = [p EXCEPT ![key[c]] = at'[c]]
    BY <1>7 DEF Enter, Refers
  <2>2. ~New(c)'  BY <1>7 DEF Enter, Goes, New
  <2>3. \A x \in Calls : at'[c] = x => x = c \/ slots[key[c]] = x  BY <1>7, <2>1
  <2>4. \A x \in Calls, k \in Keys : slots'[k] = x => x = c \/ slots[k] = x  BY <1>7, <2>1
  <2> QED  BY <1>1, <1>2, <1>7, <2>2, <2>3, <2>4 DEF Named
<1>8. CASE FindSlot(c)
  <2>1. key[c] \in Keys  BY <1>8 DEF FindSlot, Places, WithKey
  <2>2. CASE Refused(c)  BY <1>4, <1>5, <2>2 DEF Refused
  <2>3. CASE Enter(c, slots) /\ UNCHANGED <<cooling, key, mapLock, inside, lock, link, conn>>
    <3>1. \A k \in Keys : slots[k] = slots[k] \/ slots[k] = None  OBVIOUS
    <3> QED  BY <1>3, <1>7, <2>1, <2>3, <3>1
  <2>4. CASE \E k \in Pooled : /\ Refers(c, slots[k]) /\ mapLock' = c /\ Goes(c, "retire")
                               /\ UNCHANGED <<cooling, key, slots, inside, lock, link, conn>>
    <3>1. PICK k \in Keys : at'[c] = slots[k] /\ UNCHANGED <<slots, inside, conn>>
      BY <2>4 DEF Pooled, Refers
    <3> QED  BY <1>1, <1>2, <1>3, <3>1 DEF Named
  <2> QED  BY <1>8, <2>2, <2>3, <2>4 DEF FindSlot
<1>9. CASE Retire(c)
  <2> DEFINE p == [k \in Keys |-> IF slots[k] = at[c] THEN None ELSE slots[k]]
  <2>1. key[c] \in Keys /\ at[c] \in Calls  BY <1>9 DEF Retire, Places, WithKey, WithSlot
  <2>2. p \in [Keys -> Calls \cup {None}] /\ Enter(c, p) /\ conn' = conn  BY <1>9 DEF Retire
  <2>3. \A k \in Keys : p[k] = slots[k] \/ p[k] = None  OBVIOUS
  <2>4. \A s \in Calls : inside'[s] = inside[s] \/ inside'[s] = None  BY <1>9, <2>1 DEF Retire
  <2> HIDE DEF p
  <2> QED  BY <1>3, <1>7, <2>1, <2>2, <2>3, <2>4
<1>10. CASE Acquire(c)
  <2>1. at[c] \in Calls  BY <1>10 DEF Acquire, Places, WithSlot
  <2>2. \A s \in Calls : inside'[s] = inside[s] \/ inside'[s] = None  BY <1>10, <2>1 DEF Acquire
  <2>3. /\ slots' = slots /\ (at'[c] = at[c] \/ at'[c] = None)
        /\ conn'[c] = conn[c] \/ conn'[c] = inside[at[c]]
    BY <1>10 DEF Acquire, Refers
  <2> QED  BY <1>1, <1>2, <1>3, <2>1, <2>2, <2>3 DEF Named
<1>11. CASE Connect(c)
  <2>1. at[c] \in Calls  BY <1>11 DEF Connect, Places, WithSlot
  <2>2. ~New(c)' /\ at'[c] = None /\ slots' = slots
    BY <1>4, <1>11 DEF Connect, Refers, Goes, New
  <2>3. conn'[c] = c \/ conn'[c] = None  BY <1>4, <1>11 DEF Connect
  <2>4. \A s \in Calls : inside'[s] = inside[s] \/ inside'[s] = c  BY <1>11, <2>1 DEF Connect
  <2> QED  BY <1>1, <1>2, <1>3, <2>2, <2>3, <2>4 DEF Named
<1>12. CASE Invalidate(c)
  <2>1. key[c] \in Keys  BY <1>12 DEF Invalidate, Places, WithLink, WithKey
  <2>2. CASE Refused(c)  BY <1>4, <1>5, <2>2 DEF Refused
  <2>3. CASE Remove(key[c]) /\ Refers(c, slots[key[c]]) /\ UNCHANGED <<inside, conn>>
    <3>1. at'[c] = slots[key[c]] /\ UNCHANGED <<inside, conn>>
          /\ \A k \in Keys : slots'[k] = slots[k] \/ slots'[k] = None
      BY <2>1, <2>3 DEF Remove, Refers
    <3> QED  BY <1>1, <1>2, <1>3, <2>1, <3>1 DEF Named
  <2> QED  BY <1>12, <2>2, <2>3 DEF Invalidate
<1>13. CASE CloseRemoved(c)
  <2>1. at[c] \in Calls  BY <1>13 DEF CloseRemoved, Places, WithSlot
  <2>2. slots' = slots /\ \A s \in Calls : inside'[s] = inside[s] \/ inside'[s] = None
    BY <1>13, <2>1 DEF CloseRemoved, TakeOut
  <2>3. at'[c] = None /\ conn'[c] = None  BY <1>4, <1>13 DEF CloseRemoved
  <2> QED  BY <1>1, <1>2, <1>3, <2>2, <2>3 DEF Named
<1> QED  BY <1>6, <1>8, <1>9, <1>10, <1>11, <1>12, <1>13 DEF Call

LEMMA StepNames ==
    ASSUME Types, Places, Names, [Next]_vars
    PROVE  Names'
<1> USE TaskKinds DEF pool, work
<1>1. ASSUME NEW c \in Calls, Call(c) PROVE Names'
  <2>1. \A d \in Calls \ {c} : New(d)' <=> New(d)  BY <1>1, CallMoves DEF New
  <2> QED  BY <1>1, <2>1, CallNames DEF Names
<1>2. ASSUME NEW r \in Refreshes, Refresh(r) PROVE Names'
  <2>1. \A d \in Calls : New(d)' <=> New(d)  BY <1>2, RefreshMoves DEF New
  <2>2. \A x \in Calls : Named(x)' => Named(x)
    <3>1. conn' = conn /\ \A t \in Tasks \ {r} : at'[t] = at[t]  BY <1>2, RefreshMoves
    <3>2. CASE GiveUp(r) \/ Load(r) \/ Report(r) \/ Clear(r) \/ Publish(r) \/ Clean(r)
      <4>1. UNCHANGED <<slots, inside, condemned>> /\ (at'[r] = at[r] \/ at'[r] = None)
        BY <3>2 DEF GiveUp, Load, Unreadable, Report, Clear, Publish, Clean, Refers, Types
      <4> QED  BY <3>1, <4>1 DEF Named
    <3>3. CASE List(r)
      <4>1. UNCHANGED <<slots, inside, at>> /\ condemned' = condemned \cup {slots[k] : k \in Pooled \ next[r]}
        BY <3>3 DEF List
      <4>2. \A x \in condemned' : x \in condemned \/ \E k \in Keys : slots[k] = x
        BY <4>1 DEF Pooled
      <4> QED  BY <3>1, <4>1, <4>2 DEF Named
    <3>4. CASE DropNext(r)
      <4>1. PICK k \in pending[r] : Remove(k) /\ Refers(r, slots[k])  BY <3>4 DEF DropNext
      <4>2. k \in Keys  BY <3>4, <4>1 DEF DropNext, Places
      <4>3. UNCHANGED <<inside, condemned>> /\ at'[r] = slots[k]
            /\ \A j \in Keys : slots'[j] = slots[j] \/ slots'[j] = None
        BY <3>4, <4>1, <4>2 DEF DropNext, Remove, Refers, Types
      <4> QED  BY <3>1, <4>2, <4>3 DEF Named
    <3>5. CASE CloseDropped(r)
      <4>1. at[r] \in Calls  BY <3>5 DEF CloseDropped, Places, Types
      <4>2. UNCHANGED <<slots, condemned>> /\ at'[r] = None
            /\ \A s \in Calls : inside'[s] = inside[s] \/ inside'[s] = None
        BY <3>5, <4>1 DEF CloseDropped, TakeOut, Refers, Types
      <4> QED  BY <3>1, <4>2 DEF Named
    <3> QED  BY <1>2, <3>2, <3>3, <3>4, <3>5 DEF Refresh
  <2> QED  BY <2>1, <2>2 DEF Names
<1>3. CASE World
  <2>1. \A d \in Calls : New(d)' <=> New(d)  BY <1>3, WorldMoves DEF New
  <2>2. \A s \in Calls : inside'[s] = inside[s] \/ inside'[s] = None
    BY <1>3 DEF World, Stop, TakeOut, Types
  <2>3. UNCHANGED <<at, conn, condemned>> /\ \A k \in Keys : slots'[k] = slots[k] \/ slots'[k] = None
    BY <1>3, WorldMoves
  <2> QED  BY <2>1, <2>2, <2>3 DEF Names, Named
<1>4. CASE UNCHANGED vars
  BY <1>4 DEF vars, Names, Named, New
<1> QED  BY <1>1, <1>2, <1>3, <1>4 DEF Next, Quiet

\* What a step does to the pool: a call enters a slot of its server, the one that made
\* room goes first, or slots leave it.
Entered(c, p) ==
    /\ slots' = [p EXCEPT ![key[c]] = IF p[key[c]] = None THEN c ELSE p[key[c]]]
    /\ key[c] \in Keys /\ New(c) /\ pc'[c] = "lock"
Without(s) == [k \in Keys |-> IF slots[k] = s THEN None ELSE slots[k]]
PoolMoves ==
    \/ slots' = slots
    \/ mapLock = None /\ \A k \in Keys : slots'[k] = slots[k] \/ slots'[k] = None
    \/ \E c \in Calls : pc[c] = "slot" /\ mapLock = None /\ Room(c) /\ Entered(c, slots)
    \/ \E c \in Calls : pc[c] = "retire" /\ Entered(c, Without(at[c]))

LEMMA StepPool ==
    ASSUME Types, Places, [Next]_vars
    PROVE  PoolMoves
<1> USE TaskKinds DEF pool, work
<1>1. ASSUME NEW c \in Calls, Call(c) PROVE PoolMoves
  <2>1. CASE slots' = slots  BY <2>1 DEF PoolMoves
  <2>2. CASE FindSlot(c) /\ slots' # slots
    <3>1. Room(c) /\ Enter(c, slots)  BY <2>2 DEF FindSlot, Refused
    <3>2. key[c] \in Keys /\ pc[c] = "slot" /\ mapLock = None
      BY <2>2 DEF FindSlot, Places, WithKey, Types
    <3>3. Entered(c, slots)  BY <3>1, <3>2 DEF Enter, Entered, Goes, New, Types
    <3> QED  BY <3>1, <3>2, <3>3 DEF PoolMoves
  <2>3. CASE Retire(c)
    <3>1. key[c] \in Keys /\ pc[c] = "retire"
      BY <2>3 DEF Retire, Places, WithSlot, WithKey, Types
    <3>2. Enter(c, Without(at[c]))  BY <2>3 DEF Retire, Without
    <3>3. Entered(c, Without(at[c]))
      BY <3>1, <3>2 DEF Enter, Entered, Goes, New, Types
    <3> QED  BY <3>1, <3>3 DEF PoolMoves
  <2>4. CASE Invalidate(c) /\ slots' # slots
    <3>1. Remove(key[c]) /\ mapLock = None  BY <2>4 DEF Invalidate, Refused
    <3> QED  BY <3>1 DEF Remove, PoolMoves, Types
  <2>5. CheckConfig(c) \/ Lookup(c) \/ Permit(c) \/ EndRequest(c) \/ Abort(c) \/ Acquire(c)
        \/ Connect(c) \/ CloseRemoved(c) => slots' = slots
    BY DEF CheckConfig, Lookup, Permit, EndRequest, Abort, Acquire, Connect, CloseRemoved, Refused
  <2> QED  BY <1>1, <2>1, <2>2, <2>3, <2>4, <2>5 DEF Call
<1>2. ASSUME NEW r \in Refreshes, Refresh(r) PROVE PoolMoves
  <2>1. CASE slots' = slots  BY <2>1 DEF PoolMoves
  <2>2. CASE DropNext(r)
    <3>1. mapLock = None /\ \E k \in pending[r] : Remove(k)  BY <2>2 DEF DropNext
    <3> QED  BY <3>1 DEF Remove, PoolMoves, Types
  <2> QED
    BY <1>2, <2>1, <2>2 DEF Refresh, GiveUp, Load, Report, Clear, List, CloseDropped, Publish, Clean
<1>3. CASE World
  BY <1>3 DEF World, Stop, PoolMoves
<1>4. CASE UNCHANGED vars
  BY <1>4 DEF vars, PoolMoves
<1> QED  BY <1>1, <1>2, <1>3, <1>4 DEF Next, Quiet

Injective == \A j, k \in Keys : slots[j] # None /\ slots[j] = slots[k] => j = k
Making(c) == pc[c] = "retire" => slots[key[c]] = None /\ at[c] \in PooledSlots

LEMMA StepOneServer ==
    ASSUME Types, Places, Names, OneServer, [Next]_vars
    PROVE  OneServer'
<1> USE TaskKinds DEF pool
<1>a. OneServer <=> Injective /\ \A c \in Calls : Making(c)
  BY DEF OneServer, Injective, Making, Pooled
<1>b. OneServer' <=> Injective' /\ \A c \in Calls : Making(c)'
  BY DEF OneServer, Injective, Making, Pooled
<1>1. Injective'
  <2> USE <1>a DEF Injective
  <2>1. CASE \A k \in Keys : slots'[k] = slots[k] \/ slots'[k] = None  BY <2>1
  <2>2. ASSUME NEW c \in Calls, NEW p, Entered(c, p), p \in [Keys -> Calls \cup {None}],
               \A k \in Keys : p[k] = slots[k] \/ p[k] = None
        PROVE  Injective'
    <3>1. \A k \in Keys : slots[k] # c  BY <2>2 DEF Entered, Names, Named
    <3> QED  BY <2>2, <3>1 DEF Entered
  <2>3. \A s : /\ Without(s) \in [Keys -> Calls \cup {None}]
               /\ \A k \in Keys : Without(s)[k] = slots[k] \/ Without(s)[k] = None
    BY DEF Without, Types
  <2>4. slots \in [Keys -> Calls \cup {None}]  BY DEF Types
  <2> QED  BY <2>1, <2>2, <2>3, <2>4, StepPool DEF PoolMoves
<1>2. \A c \in Calls : Making(c)'
  <2> SUFFICES ASSUME NEW c \in Calls, pc'[c] = "retire" PROVE (slots[key[c]] = None /\ at[c] \in PooledSlots)'
    BY DEF Making
  <2>1. CASE pc[c] = "retire"
    <3>1. mapLock = c /\ ~Retire(c)  BY <2>1 DEF Places, Retire, Enter, Goes, Types
    <3>2. \A d \in Calls : pc[d] = "retire" => d = c  BY <3>1 DEF Places
    <3>3. slots' = slots
      BY <2>1, <3>1, <3>2, StepPool DEF PoolMoves, Entered
    <3>4. at'[c] = at[c] /\ key'[c] = key[c]
      <4>1. ASSUME NEW d \in Calls, Call(d) PROVE d # c
        BY <2>1, <3>1, <4>1
           DEF Call, CheckConfig, Lookup, Permit, FindSlot, Acquire, Connect, EndRequest,
               Invalidate, CloseRemoved, Abort
      <4>2. ASSUME NEW d \in Calls, Call(d) PROVE at'[c] = at[c] /\ key'[c] = key[c]
        BY <4>1, <4>2, CallMoves
      <4>3. (\E r \in Refreshes : Refresh(r)) => at'[c] = at[c] /\ key'[c] = key[c]
        BY RefreshMoves
      <4>4. World => at'[c] = at[c] /\ key'[c] = key[c]
        BY WorldMoves
      <4> QED  BY <4>2, <4>3, <4>4 DEF Next, Quiet, vars
    <3> QED  BY <1>a, <2>1, <3>3, <3>4 DEF Making, PooledSlots, Pooled
  <2>2. CASE pc[c] # "retire"
    <3>1. FindSlot(c)
      <4>1. ASSUME NEW d \in Calls, Call(d) PROVE d = c
        BY <2>2, <4>1, CallMoves
      <4>2. Call(c) => FindSlot(c)
        BY <2>2 DEF Call, CheckConfig, Lookup, Permit, Retire, Acquire, Connect, EndRequest, Enter,
                    Invalidate, CloseRemoved, Abort, Refused, Over, Goes, Types
      <4>3. (\E r \in Refreshes : Refresh(r)) => pc'[c] = pc[c]  BY RefreshMoves
      <4>4. World => pc'[c] = pc[c]  BY WorldMoves
      <4> QED  BY <2>2, <4>1, <4>2, <4>3, <4>4 DEF Next, Quiet, vars
    <3>2. ~Room(c) /\ UNCHANGED <<key, slots>> /\ \E k \in Pooled : Refers(c, slots[k])
      BY <3>1 DEF FindSlot, Refused, Over, Enter, Goes, Types
    <3> QED  BY <3>2 DEF Room, Refers, PooledSlots, Pooled, Types
  <2> QED  BY <2>1, <2>2
<1> QED  BY <1>1, <1>2, <1>b

-----------------------------------------------------------------------------
(* The limits.                                                               *)

Limits == Cardinality(Pooled) <= SlotLimit /\ Cardinality(Admitted) <= CallLimit

\* A set with room for one more keeps to its limit when it gains one.
LEMMA OneMore ==
    ASSUME NEW S, IsFiniteSet(S), NEW T, NEW x, NEW n \in Nat,
           Cardinality(S) < n, T \subseteq S \cup {x}
    PROVE  Cardinality(T) <= n
<1> DEFINE U == S \cup {x}
<1>1. Cardinality(S) \in Nat  BY FS_CardinalityType
<1>2. IsFiniteSet(U) /\ Cardinality(U) = IF x \in S THEN Cardinality(S) ELSE Cardinality(S) + 1
  BY FS_AddElement
<1>3. T \in SUBSET U  OBVIOUS
<1>4. IsFiniteSet(T) /\ Cardinality(T) <= Cardinality(U)  BY <1>2, <1>3, FS_Subset
<1>5. Cardinality(T) \in Nat /\ Cardinality(U) \in Nat  BY <1>2, <1>4, FS_CardinalityType
<1> HIDE DEF U
<1> QED  BY <1>1, <1>2, <1>4, <1>5

\* A set that loses elements keeps to its limit.
LEMMA NoMore ==
    ASSUME NEW S, IsFiniteSet(S), NEW T \in SUBSET S, NEW n \in Nat, Cardinality(S) <= n
    PROVE  Cardinality(T) <= n
<1>1. IsFiniteSet(T) /\ Cardinality(T) <= Cardinality(S)  BY FS_Subset
<1>2. Cardinality(T) \in Nat /\ Cardinality(S) \in Nat  BY <1>1, FS_CardinalityType
<1> QED  BY <1>1, <1>2

LEMMA StepLimits ==
    ASSUME Types, Places, OneServer, Limits, [Next]_vars
    PROVE  Limits'
<1> USE TaskKinds
<1>1. IsFiniteSet(Pooled) /\ IsFiniteSet(Admitted)
  <2>1. Pooled \in SUBSET Keys /\ Admitted \in SUBSET Calls  BY DEF Pooled, Admitted
  <2> QED  BY <2>1, FS_Subset
<1>2. Cardinality(Pooled) \in Nat /\ Cardinality(Admitted) \in Nat
      /\ SlotLimit \in Nat /\ CallLimit \in Nat
  BY <1>1, FS_CardinalityType
<1>3. Cardinality(Pooled') <= SlotLimit
  <2>1. CASE Pooled' \subseteq Pooled
    BY <1>1, <1>2, <2>1, NoMore DEF Limits
  <2>2. ASSUME NEW c \in Calls, Room(c), Entered(c, slots)
        PROVE  Cardinality(Pooled') <= SlotLimit
    <3>1. CASE slots[key[c]] # None
      <4>1. slots' = slots  BY <2>2, <3>1 DEF Entered, Types
      <4> QED  BY <2>1, <4>1 DEF Pooled
    <3>2. CASE slots[key[c]] = None
      <4>1. Cardinality(Pooled) < SlotLimit  BY <2>2, <3>2 DEF Room
      <4>2. Pooled' \subseteq Pooled \cup {key[c]}  BY <2>2 DEF Entered, Pooled, Types
      <4> QED  BY <1>1, <1>2, <4>1, <4>2, OneMore
    <3> QED  BY <3>1, <3>2
  <2>3. ASSUME NEW c \in Calls, pc[c] = "retire", Entered(c, Without(at[c]))
        PROVE  Cardinality(Pooled') <= SlotLimit
    <3>1. at[c] \in PooledSlots  BY <2>3 DEF OneServer
    <3>2. PICK k \in Pooled : slots[k] = at[c]  BY <3>1 DEF PooledSlots
    <3>3. Pooled' \subseteq (Pooled \ {k}) \cup {key[c]}
      BY <2>3, <3>2 DEF Entered, Pooled, Without, Types
    <3>4. IsFiniteSet(Pooled \ {k}) /\ Cardinality(Pooled \ {k}) = Cardinality(Pooled) - 1
      BY <1>1, <3>2, FS_RemoveElement
    <3>5. Cardinality(Pooled \ {k}) < SlotLimit
      BY <1>2, <3>4 DEF Limits
    <3> QED  BY <1>2, <3>3, <3>4, <3>5, OneMore
  <2>4. (\A k \in Keys : slots'[k] = slots[k] \/ slots'[k] = None) => Pooled' \subseteq Pooled
    BY DEF Pooled
  <2>5. slots' = slots => Pooled' \subseteq Pooled
    BY DEF Pooled
  <2> QED  BY <2>1, <2>2, <2>3, <2>4, <2>5, StepPool DEF PoolMoves
<1>4. Cardinality(Admitted') <= CallLimit
  <2>1. CASE Admitted' \subseteq Admitted
    BY <1>1, <1>2, <2>1, NoMore DEF Limits
  <2>2. ASSUME NEW c \in Calls, Call(c) PROVE Cardinality(Admitted') <= CallLimit
    <3>1. \A d \in Calls \ {c} : pc'[d] = pc[d]  BY <2>2, CallMoves
    <3>2. CASE Permit(c) /\ ~Refused(c)
      <4>1. Cardinality(Admitted) < CallLimit  BY <3>2 DEF Permit
      <4>2. Admitted' \subseteq Admitted \cup {c}  BY <3>1 DEF Admitted
      <4> QED  BY <1>1, <1>2, <4>1, <4>2, OneMore
    <3>3. CASE ~Permit(c) \/ Refused(c)
      <4>1. c \in Admitted' => c \in Admitted
        BY <2>2, <3>3 DEF Call, CheckConfig, Lookup, Permit, FindSlot, Retire, Acquire, Connect,
             EndRequest, Invalidate, CloseRemoved, Abort, Refused, Over, Goes, Admitted, Types
      <4> QED  BY <2>1, <3>1, <4>1 DEF Admitted
    <3> QED  BY <3>2, <3>3
  <2>3. ASSUME NEW r \in Refreshes, Refresh(r) PROVE Admitted' \subseteq Admitted
    BY <2>3, RefreshMoves DEF Admitted
  <2>4. World \/ UNCHANGED vars => Admitted' \subseteq Admitted
    BY WorldMoves DEF Admitted, vars
  <2> QED  BY <2>1, <2>2, <2>3, <2>4 DEF Next, Quiet
<1> QED  BY <1>3, <1>4 DEF Limits

-----------------------------------------------------------------------------
(* Refreshes.                                                                *)

LEMMA StepKept ==
    ASSUME Types, Kept, [Next]_vars
    PROVE  Kept'
<1> USE TaskKinds DEF work
<1>1. ASSUME NEW c \in Calls, Call(c) PROVE Kept'
  BY <1>1, CallMoves DEF Kept
<1>2. ASSUME NEW r \in Refreshes, Refresh(r) PROVE Kept'
  <2>1. \A q \in Refreshes \ {r} : pc'[q] = pc[q] /\ pending'[q] = pending[q]
    BY <1>2, RefreshMoves
  <2>2. \A q \in Refreshes \ {r} : next'[q] = next[q]
    BY <1>2 DEF Refresh, GiveUp, Load, Unreadable, Report, Clear, List, DropNext, CloseDropped,
                Publish, Clean, Types
  <2>3. pc'[r] \in {"dropping", "closing"} => pending'[r] \cap next'[r] = {}
    BY <1>2 DEF Refresh, GiveUp, Load, Unreadable, Report, Clear, List, DropNext, CloseDropped,
                Publish, Clean, Goes, Revoked, Kept, Types
  <2> QED  BY <2>1, <2>2, <2>3 DEF Kept
<1>3. CASE World
  BY <1>3, WorldMoves DEF Kept
<1>4. CASE UNCHANGED vars
  BY <1>4 DEF vars, Kept
<1> QED  BY <1>1, <1>2, <1>3, <1>4 DEF Next, Quiet

LEMMA StepFailing ==
    ASSUME Types, Failing, [Next]_vars
    PROVE  Failing'
<1> USE TaskKinds DEF config
<1>1. ASSUME NEW c \in Calls, Call(c) PROVE Failing'
  BY <1>1, CallMoves DEF Failing
<1>2. ASSUME NEW r \in Refreshes, Refresh(r) PROVE Failing'
  <2>1. \A q \in Refreshes \ {r} : pc'[q] = pc[q]  BY <1>2, RefreshMoves
  <2>2. CASE pc'[r] \in {"clear", "clean", "aborted"}  BY <2>2 DEF Failing
  <2>3. CASE Clear(r)  BY <2>3 DEF Clear, Failing
  <2>4. CASE Clean(r)  BY <2>4 DEF Clean, Failing
  <2>5. CASE Load(r) \/ List(r) \/ DropNext(r) \/ CloseDropped(r) \/ Publish(r)
    <3>1. CASE UNCHANGED <<configError, registry>>
          /\ pc[r] \notin {"clear", "clean", "aborted"}
      BY <2>1, <3>1 DEF Failing
    <3>2. CASE pc'[r] = "clean"  BY <2>2, <3>2
    <3> QED  BY <2>5, <3>1, <3>2
             DEF Load, Unreadable, List, DropNext, CloseDropped, Publish, Goes, Types
  <2>6. CASE GiveUp(r) \/ Report(r)
    BY <2>2, <2>6 DEF GiveUp, Report, Goes, Types
  <2> QED  BY <1>2, <2>3, <2>4, <2>5, <2>6 DEF Refresh
<1>3. CASE World
  BY <1>3, WorldMoves DEF World, Failing
<1>4. CASE UNCHANGED vars
  BY <1>4 DEF vars, Failing
<1> QED  BY <1>1, <1>2, <1>3, <1>4 DEF Next, Quiet

LEMMA StepRevoking ==
    ASSUME Types, Places, Names, OneServer, Revoking, [Next]_vars
    PROVE  Revoking'
<1> USE TaskKinds DEF work, pool
<1>1. ASSUME NEW k \in Keys, slots'[k] # None, slots'[k] = slots[k], condemned' = condemned,
             \A r \in Refreshes : pc'[r] = pc[r] /\ pending'[r] = pending[r],
             slots'[k] \in condemned'
      PROVE  \E r \in Refreshes : Dropping(r, k)'
  BY <1>1 DEF Revoking, Dropping
<1>2. ASSUME NEW c \in Calls, Call(c) PROVE Revoking'
  <2>1. condemned' = condemned /\ \A r \in Refreshes : pc'[r] = pc[r] /\ pending'[r] = pending[r]
    BY <1>2, CallMoves
  <2>2. \A k \in Keys : slots'[k] # None /\ slots'[k] \in condemned => slots'[k] = slots[k]
    <3>1. CASE \A k \in Keys : slots'[k] = slots[k] \/ slots'[k] = None  BY <3>1
    <3>2. ASSUME NEW d \in Calls, NEW p, Entered(d, p), p \in [Keys -> Calls \cup {None}],
                 \A k \in Keys : p[k] = slots[k] \/ p[k] = None
          PROVE  \A k \in Keys : slots'[k] # None /\ slots'[k] \in condemned => slots'[k] = slots[k]
      <4>1. d \notin condemned  BY <3>2 DEF Entered, Names, Named
      <4> QED  BY <3>2, <4>1 DEF Entered
    <3>3. \A s : /\ Without(s) \in [Keys -> Calls \cup {None}]
                 /\ \A k \in Keys : Without(s)[k] = slots[k] \/ Without(s)[k] = None
      BY DEF Without, Types
    <3>4. slots \in [Keys -> Calls \cup {None}]  BY DEF Types
    <3> QED  BY <3>1, <3>2, <3>3, <3>4, StepPool DEF PoolMoves
  <2> QED  BY <1>1, <2>1, <2>2 DEF Revoking
<1>3. ASSUME NEW r \in Refreshes, Refresh(r) PROVE Revoking'
  <2>1. \A q \in Refreshes \ {r} : pc'[q] = pc[q] /\ pending'[q] = pending[q]
    BY <1>3, RefreshMoves
  <2>2. ASSUME NEW k \in Keys, NEW q \in Refreshes, Dropping(q, k), q # r PROVE Dropping(q, k)'
    BY <2>1, <2>2 DEF Dropping
  <2>3. CASE GiveUp(r)
    BY <2>3 DEF GiveUp, Goes, Revoking, Dropping, Types
  <2>4. CASE Load(r) \/ Report(r) \/ Clear(r) \/ Clean(r)
    <3>1. UNCHANGED <<slots, condemned>> /\ \A k \in Keys : ~Dropping(r, k)
      BY <2>4 DEF Load, Report, Clear, Clean, Dropping
    <3> QED  BY <2>2, <3>1 DEF Revoking
  <2>5. CASE List(r)
    <3>1. /\ slots' = slots /\ \A k \in Keys : ~Dropping(r, k)
          /\ condemned' = condemned \cup {slots[k] : k \in Pooled \ next[r]}
          /\ \A k \in Pooled \ next[r] : Dropping(r, k)'
      BY <2>5 DEF List, Dropping, Revoked, Goes, Types
    <3>2. ASSUME NEW k \in Keys, slots[k] # None, slots[k] \in condemned'
          PROVE  \E q \in Refreshes : Dropping(q, k)'
      <4>1. CASE slots[k] \in condemned  BY <2>2, <3>1, <3>2, <4>1 DEF Revoking
      <4>2. CASE k \notin next[r]  BY <3>1, <3>2, <4>2 DEF Pooled
      <4>3. CASE k \in next[r] /\ slots[k] \notin condemned
        <5>1. PICK j \in Pooled \ next[r] : slots[j] = slots[k]  BY <3>1, <3>2, <4>3
        <5> QED  BY <3>2, <4>3, <5>1 DEF OneServer, Pooled
      <4> QED  BY <4>1, <4>2, <4>3
    <3> QED  BY <3>1, <3>2 DEF Revoking
  <2>6. CASE DropNext(r)
    <3>1. PICK k \in pending[r] : pending' = [pending EXCEPT ![r] = @ \ {k}] /\ Remove(k)
      BY <2>6 DEF DropNext
    <3>2. /\ condemned' = condemned
          /\ k \in Keys => slots'[k] = None
          /\ \A j \in Keys \ {k} : slots'[j] = slots[j]
          /\ \A j \in Keys \ {k} : Dropping(r, j) => Dropping(r, j)'
      BY <2>6, <3>1 DEF DropNext, Remove, Goes, Dropping, Types
    <3>3. k \in Keys  BY <2>6, <3>1 DEF DropNext, Places
    <3> QED  BY <2>2, <3>2, <3>3 DEF Revoking
  <2>7. CASE CloseDropped(r)
    BY <2>2, <2>7 DEF CloseDropped, Goes, Revoking, Dropping, Types
  <2>8. CASE Publish(r)
    <3>1. UNCHANGED <<slots, condemned>> /\ \A k \in Keys : ~Dropping(r, k)
      BY <2>8 DEF Publish, Dropping
    <3> QED  BY <2>2, <3>1 DEF Revoking
  <2> QED  BY <1>3, <2>3, <2>4, <2>5, <2>6, <2>7, <2>8 DEF Refresh
<1>4. CASE World
  <2>1. \A k \in Keys : slots'[k] # None => slots'[k] = slots[k]  BY <1>4, WorldMoves
  <2> QED  BY <1>1, <1>4, <2>1, WorldMoves DEF Revoking
<1>5. CASE UNCHANGED vars
  BY <1>5 DEF vars, Revoking, Dropping
<1> QED  BY <1>2, <1>3, <1>4, <1>5 DEF Next, Quiet

-----------------------------------------------------------------------------
(* Labels.                                                                   *)

LEMMA StepVacant ==
    ASSUME Types, Places, Names, Vacant, [Next]_vars
    PROVE  Vacant'
<1> USE TaskKinds DEF pool
<1>1. ASSUME NEW c \in Calls, Call(c) PROVE Vacant'
  <2>1. \A d \in Calls : New(d)' => New(d)
    BY <1>1, CallMoves, CallNames DEF New
  <2>2. CASE \A s \in Calls : inside'[s] = inside[s] \/ inside'[s] = None
    BY <2>1, <2>2 DEF Vacant
  <2>3. CASE Connect(c)
    <3>1. at[c] \in Calls /\ ~New(at[c])
      BY <2>3 DEF Connect, Places, WithSlot, Names, Named, Types
    <3>2. \A s \in Calls \ {at[c]} : inside'[s] = inside[s]
      BY <2>3 DEF Connect, Types
    <3> QED  BY <2>1, <3>1, <3>2 DEF Vacant
  <2>4. CASE Retire(c) \/ Acquire(c) \/ CloseRemoved(c)
    <3>1. at[c] \in Calls
      BY <2>4 DEF Retire, Acquire, CloseRemoved, Places, WithSlot, Types
    <3>2. \A s \in Calls : inside'[s] = inside[s] \/ inside'[s] = None
      BY <2>4, <3>1 DEF Retire, Acquire, CloseRemoved, TakeOut, Types
    <3> QED  BY <2>2, <3>2
  <2>5. CheckConfig(c) \/ Lookup(c) \/ Permit(c) \/ FindSlot(c) \/ EndRequest(c) \/ Abort(c)
        \/ Invalidate(c) => inside' = inside
    BY DEF CheckConfig, Lookup, Permit, FindSlot, EndRequest, Abort, Invalidate, Refused
  <2> QED  BY <1>1, <2>2, <2>3, <2>4, <2>5 DEF Call
<1>2. ASSUME NEW r \in Refreshes, Refresh(r) PROVE Vacant'
  <2>1. \A d \in Calls : New(d)' <=> New(d)  BY <1>2, RefreshMoves DEF New
  <2>2. \A s \in Calls : inside'[s] = inside[s] \/ inside'[s] = None
    BY <1>2 DEF Refresh, GiveUp, Load, Report, Clear, List, DropNext, CloseDropped, TakeOut,
                Publish, Clean, Types
  <2> QED  BY <2>1, <2>2 DEF Vacant
<1>3. CASE World
  <2>1. \A d \in Calls : New(d)' <=> New(d)  BY <1>3, WorldMoves DEF New
  <2>2. \A s \in Calls : inside'[s] = inside[s] \/ inside'[s] = None
    BY <1>3 DEF World, Stop, TakeOut, Types
  <2> QED  BY <2>1, <2>2 DEF Vacant
<1>4. CASE UNCHANGED vars
  BY <1>4 DEF vars, Vacant, New
<1> QED  BY <1>1, <1>2, <1>3, <1>4 DEF Next, Quiet

\* The parts of a label, one for each kind of reference.
OfKeys(g) == \A c \in Calls : key[c] # None => g[c] = key[c]
OfSlots(g) == \A k \in Keys : slots[k] # None => g[slots[k]] = k
OfLinks(g) == \A s \in Calls : inside[s] # None => g[inside[s]] = g[s]
OfCall(g, c) == /\ at[c] # None /\ pc[c] # "retire" => g[at[c]] = key[c]
                /\ conn[c] # None => g[conn[c]] = key[c]
OfRefresh(g, r) == pc[r] = "closing" => g[at[r]] \notin next[r]

LEMMA LabelParts ==
    \A g : /\ Label(g) <=> /\ OfKeys(g) /\ OfSlots(g) /\ OfLinks(g)
                           /\ \A c \in Calls : OfCall(g, c)
                           /\ \A r \in Refreshes : OfRefresh(g, r)
           /\ Label(g)' <=> /\ OfKeys(g)' /\ OfSlots(g)' /\ OfLinks(g)'
                            /\ \A c \in Calls : OfCall(g, c)'
                            /\ \A r \in Refreshes : OfRefresh(g, r)'
  BY DEF Label, OfKeys, OfSlots, OfLinks, OfCall, OfRefresh

\* A slot that loses its connection, or leaves the pool, needs no other label.
LEMMA LabelsLost ==
    ASSUME NEW g \in [Calls -> Keys \cup {None}], OfSlots(g), OfLinks(g),
           \A k \in Keys : slots'[k] = slots[k] \/ slots'[k] = None,
           \A s \in Calls : inside'[s] = inside[s] \/ inside'[s] = None
    PROVE  OfSlots(g)' /\ OfLinks(g)'
  BY DEF OfSlots, OfLinks

LEMMA CallLabels ==
    ASSUME Types, Places, Names, Vacant, NEW c \in Calls, Call(c), Labelled
    PROVE  Labelled'
<1> USE TaskKinds DEF pool, Types
<1>1. PICK g \in [Calls -> Keys \cup {None}] : Label(g)  BY DEF Labelled
<1>2. OfKeys(g) /\ OfSlots(g) /\ OfLinks(g) /\ OfCall(g, c)  BY <1>1, LabelParts
<1>3. /\ \A t \in Tasks \ {c} : pc'[t] = pc[t] /\ at'[t] = at[t]
      /\ \A d \in Calls \ {c} : conn'[d] = conn[d] /\ key'[d] = key[d]
      /\ next' = next
  BY CallMoves DEF work
<1>4. ASSUME OfSlots(g)' /\ OfLinks(g)' /\ OfCall(g, c)',
             key'[c] = key[c] \/ key'[c] = None
      PROVE  Labelled'
  <2>1. \A d \in Calls : OfCall(g, d)'
    BY <1>1, <1>3, <1>4, LabelParts DEF OfCall
  <2>2. \A r \in Refreshes : OfRefresh(g, r)'
    BY <1>1, <1>3, LabelParts DEF OfRefresh
  <2>3. OfKeys(g)'  BY <1>2, <1>3, <1>4 DEF OfKeys
  <2> QED  BY <1>4, <2>1, <2>2, <2>3, LabelParts DEF Labelled
<1>5. ASSUME Over(c), \A k \in Keys : slots'[k] = slots[k] \/ slots'[k] = None,
             \A s \in Calls : inside'[s] = inside[s] \/ inside'[s] = None
      PROVE  Labelled'
  <2>1. key'[c] = None /\ at'[c] = None /\ conn'[c] = None
    BY <1>5 DEF Over, Refers
  <2> QED  BY <1>2, <1>4, <1>5, <2>1, LabelsLost DEF OfCall
<1>6. Refused(c) => Labelled'  BY <1>5 DEF Refused
<1>7. ASSUME UNCHANGED <<key, pool, at, conn>>, pc[c] # "retire"  PROVE Labelled'
  <2>1. OfCall(g, c)'  BY <1>2, <1>7 DEF OfCall
  <2> QED  BY <1>2, <1>4, <1>7, <2>1, LabelsLost
<1>8. CASE CheckConfig(c) \/ Permit(c) \/ EndRequest(c) \/ Abort(c)
  BY <1>6, <1>7, <1>8 DEF CheckConfig, Permit, EndRequest, Abort
<1>9. CASE Lookup(c) /\ ~Refused(c)
  <2>1. PICK k \in Keys : key' = [key EXCEPT ![c] = k] /\ UNCHANGED <<pool, at, conn>>
    BY <1>9 DEF Lookup
  <2>2. ~Named(c) /\ inside[c] = None /\ at[c] = None /\ conn[c] = None
    BY <1>9 DEF Lookup, Names, Vacant, New, Places, WithSlot, WithLink
  <2> DEFINE h == [g EXCEPT ![c] = k]
  <2>3. h \in [Calls -> Keys \cup {None}] /\ h[c] = k /\ \A x \in Calls \ {c} : h[x] = g[x]
    OBVIOUS
  <2> HIDE DEF h
  <2>4. OfKeys(h)'  BY <1>2, <1>3, <2>1, <2>3 DEF OfKeys
  <2>5. OfSlots(h)'  BY <1>2, <2>1, <2>2, <2>3 DEF OfSlots, Named
  <2>6. OfLinks(h)'  BY <1>2, <2>1, <2>2, <2>3 DEF OfLinks, Named
  <2>7. \A d \in Calls : OfCall(h, d)'
    <3> SUFFICES ASSUME NEW d \in Calls PROVE OfCall(h, d)'
      OBVIOUS
    <3>1. CASE d = c  BY <2>1, <2>2, <3>1 DEF OfCall
    <3>2. CASE d # c
      <4>1. OfCall(g, d)  BY <1>1, LabelParts
      <4>2. at[d] # c /\ conn[d] # c  BY <2>2 DEF Named
      <4> QED  BY <1>3, <2>1, <2>3, <3>2, <4>1, <4>2 DEF OfCall
    <3> QED  BY <3>1, <3>2
  <2>8. \A r \in Refreshes : OfRefresh(h, r)'
    <3> SUFFICES ASSUME NEW r \in Refreshes, pc[r] = "closing" PROVE OfRefresh(h, r)'
      BY <1>3 DEF OfRefresh
    <3>1. OfRefresh(g, r)  BY <1>1, LabelParts
    <3>2. at[r] \in Calls /\ at[r] # c  BY <2>2 DEF Places, Named
    <3> QED  BY <1>3, <2>3, <3>1, <3>2 DEF OfRefresh
  <2> QED  BY <2>3, <2>4, <2>5, <2>6, <2>7, <2>8, LabelParts DEF Labelled
<1>10. ASSUME NEW p \in [Keys -> Calls \cup {None}], Enter(c, p), key' = key, conn' = conn,
              key[c] \in Keys,
              \A k \in Keys : p[k] = slots[k] \/ p[k] = None,
              \A s \in Calls : inside'[s] = inside[s] \/ inside'[s] = None
       PROVE  Labelled'
  <2>1. /\ at'[c] = IF p[key[c]] = None THEN c ELSE p[key[c]]
        /\ slots' = [p EXCEPT ![key[c]] = at'[c]]
    BY <1>10 DEF Enter, Refers
  <2>2. g[at'[c]] = key[c]  BY <1>2, <1>10, <2>1 DEF OfKeys, OfSlots
  <2>3. OfSlots(g)'  BY <1>2, <1>10, <2>1, <2>2 DEF OfSlots
  <2>4. OfLinks(g)'  BY <1>2, <1>10 DEF OfLinks
  <2>5. OfCall(g, c)'  BY <1>2, <1>10, <2>2 DEF OfCall
  <2> QED  BY <1>4, <1>10, <2>3, <2>4, <2>5
<1>11. CASE FindSlot(c)
  <2>1. key[c] \in Keys  BY <1>11 DEF FindSlot, Places, WithKey
  <2>2. CASE Enter(c, slots) /\ UNCHANGED <<cooling, key, mapLock, inside, lock, link, conn>>
    <3>1. \A k \in Keys : slots[k] = slots[k] \/ slots[k] = None  OBVIOUS
    <3> QED  BY <1>10, <2>1, <2>2, <3>1
  <2>3. CASE Goes(c, "retire") /\ UNCHANGED <<key, slots, inside, conn>>
    <3>1. OfCall(g, c)'  BY <1>2, <2>3 DEF OfCall, Goes
    <3> QED  BY <1>2, <1>4, <2>3, <3>1, LabelsLost
  <2> QED  BY <1>6, <1>11, <2>2, <2>3 DEF FindSlot
<1>12. CASE Retire(c)
  <2>1. key[c] \in Keys /\ at[c] \in Calls  BY <1>12 DEF Retire, Places, WithKey, WithSlot
  <2>2. Enter(c, Without(at[c])) /\ conn' = conn /\ key' = key  BY <1>12 DEF Retire, Without
  <2>3. /\ Without(at[c]) \in [Keys -> Calls \cup {None}]
        /\ \A k \in Keys : Without(at[c])[k] = slots[k] \/ Without(at[c])[k] = None
    BY DEF Without
  <2>4. \A s \in Calls : inside'[s] = inside[s] \/ inside'[s] = None  BY <1>12, <2>1 DEF Retire
  <2> QED  BY <1>10, <2>1, <2>2, <2>3, <2>4
<1>13. CASE Acquire(c)
  <2>1. at[c] \in Calls  BY <1>13 DEF Acquire, Places, WithSlot
  <2>2. /\ UNCHANGED <<slots, key>> /\ pc[c] = "lock"
        /\ \A s \in Calls : inside'[s] = inside[s] \/ inside'[s] = None
        /\ at'[c] = at[c] \/ at'[c] = None
        /\ conn'[c] = conn[c] \/ (conn'[c] = inside[at[c]] /\ inside[at[c]] # None)
    BY <1>13, <2>1 DEF Acquire, Refers
  <2>3. g[at[c]] = key[c]  BY <1>2, <2>1, <2>2 DEF OfCall
  <2>4. inside[at[c]] # None => g[inside[at[c]]] = key[c]  BY <1>2, <2>1, <2>3 DEF OfLinks
  <2>5. OfCall(g, c)'  BY <1>2, <2>2, <2>3, <2>4 DEF OfCall
  <2> QED  BY <1>2, <1>4, <2>2, <2>5, LabelsLost
<1>14. CASE Connect(c)
  <2>1. at[c] \in Calls /\ key[c] \in Keys /\ pc[c] = "connecting"
    BY <1>14 DEF Connect, Places, WithSlot, WithKey
  <2>2. g[at[c]] = key[c] /\ g[c] = key[c]  BY <1>2, <2>1 DEF OfCall, OfKeys
  <2>3. CASE Over(c) /\ inside' = inside
    BY <1>5, <1>14, <2>3 DEF Connect
  <2>4. CASE /\ inside' = [inside EXCEPT ![at[c]] = c] /\ conn' = [conn EXCEPT ![c] = c]
             /\ Refers(c, None) /\ key' = key
    <3>1. slots' = slots  BY <1>14 DEF Connect
    <3>2. OfSlots(g)'  BY <1>2, <3>1 DEF OfSlots
    <3>3. OfLinks(g)'  BY <1>2, <2>1, <2>2, <2>4 DEF OfLinks
    <3>4. OfCall(g, c)'  BY <2>2, <2>4 DEF OfCall, Refers
    <3> QED  BY <1>4, <2>4, <3>2, <3>3, <3>4
  <2> QED  BY <1>14, <2>3, <2>4 DEF Connect
<1>15. CASE Invalidate(c) /\ ~Refused(c)
  <2>1. key[c] \in Keys  BY <1>15 DEF Invalidate, Places, WithLink, WithKey
  <2>2. /\ Remove(key[c]) /\ at'[c] = slots[key[c]] /\ slots[key[c]] # None
        /\ UNCHANGED <<key, inside, conn>>
    BY <1>15 DEF Invalidate, Refers
  <2>3. \A k \in Keys : slots'[k] = slots[k] \/ slots'[k] = None  BY <2>2 DEF Remove
  <2>4. g[at'[c]] = key[c]  BY <1>2, <2>1, <2>2 DEF OfSlots
  <2>5. OfCall(g, c)'  BY <1>2, <2>2, <2>4 DEF OfCall
  <2> QED  BY <1>2, <1>4, <2>2, <2>3, <2>5, LabelsLost
<1>16. CASE CloseRemoved(c)
  <2>1. at[c] \in Calls  BY <1>16 DEF CloseRemoved, Places, WithSlot
  <2>2. slots' = slots /\ \A s \in Calls : inside'[s] = inside[s] \/ inside'[s] = None
    BY <1>16, <2>1 DEF CloseRemoved, TakeOut
  <2> QED  BY <1>5, <1>16, <2>2 DEF CloseRemoved
<1> QED  BY <1>6, <1>8, <1>9, <1>11, <1>12, <1>13, <1>14, <1>15, <1>16 DEF Call

LEMMA StepLabelled ==
    ASSUME Types, Places, Names, Vacant, Kept, Labelled, [Next]_vars
    PROVE  Labelled'
<1> USE TaskKinds DEF work, pool
<1>1. PICK g \in [Calls -> Keys \cup {None}] : Label(g)  BY DEF Labelled
<1>2. OfKeys(g) /\ OfSlots(g) /\ OfLinks(g)  BY <1>1, LabelParts
<1>3. ASSUME \A c \in Calls : pc'[c] = pc[c] /\ at'[c] = at[c], UNCHANGED <<key, conn>>,
             \A k \in Keys : slots'[k] = slots[k] \/ slots'[k] = None,
             \A s \in Calls : inside'[s] = inside[s] \/ inside'[s] = None,
             \A r \in Refreshes : OfRefresh(g, r)'
      PROVE  Labelled'
  <2>1. OfSlots(g)' /\ OfLinks(g)'  BY <1>2, <1>3, LabelsLost
  <2>2. OfKeys(g)'  BY <1>2, <1>3 DEF OfKeys
  <2>3. \A c \in Calls : OfCall(g, c)'  BY <1>1, <1>3, LabelParts DEF OfCall
  <2> QED  BY <1>3, <2>1, <2>2, <2>3, LabelParts DEF Labelled
<1>4. ASSUME NEW r \in Refreshes, Refresh(r) PROVE Labelled'
  <2>1. /\ UNCHANGED <<mapLock, lock, key, conn, stopped>>
        /\ \A t \in Tasks \ {r} : pc'[t] = pc[t] /\ at'[t] = at[t]
    BY <1>4, RefreshMoves
  <2>2. \A q \in Refreshes \ {r} : next'[q] = next[q]
    BY <1>4 DEF Refresh, GiveUp, Load, Unreadable, Report, Clear, List, DropNext, CloseDropped,
                Publish, Clean, Types
  <2>3. \A s \in Calls : inside'[s] = inside[s] \/ inside'[s] = None
    BY <1>4 DEF Refresh, GiveUp, Load, Report, Clear, List, DropNext, CloseDropped, TakeOut,
                Publish, Clean, Types
  <2>4. \A k \in Keys : slots'[k] = slots[k] \/ slots'[k] = None
    BY <1>4 DEF Refresh, GiveUp, Load, Report, Clear, List, DropNext, Remove, CloseDropped,
                Publish, Clean, Types
  <2>5. pc'[r] = "closing" => g[at'[r]] \notin next'[r]
    <3>1. CASE DropNext(r) /\ pc'[r] = "closing"
      <4>1. PICK k \in pending[r] : at'[r] = slots[k] /\ slots[k] # None
        BY <3>1 DEF DropNext, Refers, Goes, Types
      <4>2. k \in Keys /\ k \notin next[r]  BY <3>1 DEF DropNext, Places, Kept
      <4> QED  BY <1>2, <3>1, <4>1, <4>2 DEF DropNext, OfSlots
    <3>2. pc'[r] # "closing" \/ DropNext(r)
      BY <1>4 DEF Refresh, GiveUp, Load, Unreadable, Report, Clear, List, CloseDropped, Publish,
                  Clean, Goes, Types
    <3> QED  BY <3>1, <3>2
  <2>6. \A q \in Refreshes : OfRefresh(g, q)'
    BY <1>1, <2>1, <2>2, <2>5, LabelParts DEF OfRefresh
  <2> QED  BY <1>3, <2>1, <2>3, <2>4, <2>6
<1>5. CASE World
  <2>1. \A s \in Calls : inside'[s] = inside[s] \/ inside'[s] = None
    BY <1>5 DEF World, Stop, TakeOut, Types
  <2>2. \A q \in Refreshes : OfRefresh(g, q)'
    BY <1>1, <1>5, WorldMoves, LabelParts DEF OfRefresh
  <2> QED  BY <1>3, <1>5, <2>1, <2>2, WorldMoves
<1>6. CASE UNCHANGED vars
  BY <1>1, <1>6 DEF vars, Labelled, Label
<1> QED  BY <1>4, <1>5, <1>6, CallLabels DEF Next, Quiet

-----------------------------------------------------------------------------
(* The theorems.                                                             *)

PoolInv == Types /\ Places /\ Names /\ OneServer

LEMMA PoolInvariant == Spec => []PoolInv
<1>1. Init => PoolInv
  <2> SUFFICES ASSUME Init PROVE PoolInv
    OBVIOUS
  <2> USE TaskKinds DEF Init
  <2>1. Types  BY DEF Types, Task
  <2>2. Places  BY DEF Places, WithSlot, WithLink, WithKey
  <2>3. Names  BY DEF Names, Named
  <2>4. OneServer  BY DEF OneServer, Pooled
  <2> QED  BY <2>1, <2>2, <2>3, <2>4 DEF PoolInv
<1>2. PoolInv /\ [Next]_vars => PoolInv'
  BY StepTypes, StepPlaces, StepNames, StepOneServer DEF PoolInv
<1> QED  BY <1>1, <1>2, PTL DEF Spec

\* Every variable has its type; the pool and the calls keep to their limits, whoever makes
\* room for whom; a slot serves one server and is held only by a call that connects in it
\* (session, dispatch_with_context).
THEOREM TypeCorrect == Spec => []TypeOK
<1> DEFINE I == Flags /\ Locks /\ Limits
<1>1. Init => I
  <2> SUFFICES ASSUME Init PROVE I
    OBVIOUS
  <2>1. Flags  BY Zenon DEF Init, Flags
  <2>2. Locks  BY TaskKinds DEF Init, Locks
  <2>3. Limits
    <3>1. Pooled = {} /\ Admitted = {}  BY TaskKinds DEF Init, Pooled, Admitted
    <3>2. Cardinality({}) = 0  BY FS_EmptySet
    <3> QED  BY <3>1, <3>2 DEF Limits
  <2> QED  BY <2>1, <2>2, <2>3
<1>2. PoolInv /\ I /\ [Next]_vars => I'
  <2>1. Flags /\ [Next]_vars => Flags'  BY StepFlags, Zenon
  <2>2. PoolInv /\ Locks /\ [Next]_vars => Locks'  BY StepLocks DEF PoolInv
  <2>3. PoolInv /\ Limits /\ [Next]_vars => Limits'  BY StepLimits DEF PoolInv
  <2> QED  BY <2>1, <2>2, <2>3
<1>3. PoolInv /\ I => TypeOK
  <2> SUFFICES ASSUME PoolInv, I PROVE TypeOK
    OBVIOUS
  <2>1. configError \in BOOLEAN /\ stopped \in BOOLEAN  BY Zenon DEF Flags
  <2> QED  BY <2>1 DEF PoolInv, Types, OneServer, Locks, Limits, TypeOK
<1> QED  BY <1>1, <1>2, <1>3, PoolInvariant, PTL DEF Spec

\* Broker operations fail closed: no order of refreshes that succeed and refreshes that fail
\* leaves servers granted under a configuration in error (refresh).
THEOREM BrokerFailsClosed == Spec => []FailClosed
<1>1. Init => Failing  BY DEF Init, Failing
<1>2. PoolInv /\ Failing /\ [Next]_vars => Failing'  BY StepFailing DEF PoolInv
<1>3. Failing => FailClosed  BY DEF Failing, FailClosed, AtWork
<1> QED  BY <1>1, <1>2, <1>3, PoolInvariant, PTL DEF Spec

\* What refreshes have found revoked has left the pool when they are over, whoever has
\* entered or left slots meanwhile (refresh, invalidate).
THEOREM RevokedServersLeave == Spec => []RevokedLeaves
<1>1. Init => Revoking  BY DEF Init, Revoking
<1>2. PoolInv /\ Revoking /\ [Next]_vars => Revoking'  BY StepRevoking DEF PoolInv
<1>3. Revoking => RevokedLeaves
  BY DEF Revoking, Dropping, RevokedLeaves, AtWork, PooledSlots, Pooled
<1> QED  BY <1>1, <1>2, <1>3, PoolInvariant, PTL DEF Spec

\* A refresh closes no connection in use of a server it keeps, though between its two locks
\* the slot it holds can be joined, left and connected in again (refresh, invalidate).
THEOREM RefreshesSpareKept == Spec => RefreshSparesKept
<1> DEFINE I == Vacant /\ Kept /\ Labelled
<1>1. Init => I
  <2> SUFFICES ASSUME Init PROVE I
    OBVIOUS
  <2> USE TaskKinds DEF Init
  <2>1. Vacant  BY DEF Vacant
  <2>2. Kept  BY DEF Kept
  <2>3. Labelled
    <3>1. [c \in Calls |-> None] \in [Calls -> Keys \cup {None}]  OBVIOUS
    <3>2. \A g : Label(g)  BY DEF Label
    <3> QED  BY <3>1, <3>2 DEF Labelled
  <2> QED  BY <2>1, <2>2, <2>3
<1>2. PoolInv /\ I /\ [Next]_vars => I'
  BY StepVacant, StepKept, StepLabelled DEF PoolInv
<1>3. PoolInv /\ I /\ [Next]_vars => [\A r \in Refreshes, x \in InUse :
          pc[r] = "closing" /\ pc'[r] # "closing" /\ link'[x] = "closed" =>
              \E c \in Users(x) : key[c] \notin next[r]]_vars
  <2> SUFFICES ASSUME PoolInv, Labelled, Next, NEW r \in Refreshes, NEW x \in InUse,
                      pc[r] = "closing", pc'[r] # "closing", link'[x] = "closed"
               PROVE  \E c \in Users(x) : key[c] \notin next[r]
    OBVIOUS
  <2> USE TaskKinds DEF PoolInv, Types
  <2>1. Refresh(r)
    <3>1. ASSUME NEW c \in Calls, Call(c) PROVE FALSE  BY <3>1, CallMoves
    <3>2. ASSUME NEW q \in Refreshes, Refresh(q) PROVE q = r  BY <3>2, RefreshMoves
    <3>3. ~World  BY WorldMoves
    <3> QED  BY <3>1, <3>2, <3>3 DEF Next, Quiet, vars
  <2>2. x \in Calls /\ link[x] = "open" /\ Users(x) # {}  BY DEF InUse
  <2>3. CloseDropped(r)
    BY <2>1, <2>2 DEF Refresh, GiveUp, Load, Report, Clear, List, DropNext, Publish, Clean
  <2>4. at[r] \in Calls /\ inside[at[r]] = x
    <3>1. at[r] \in Calls  BY DEF Places
    <3> QED  BY <2>2, <2>3, <3>1 DEF CloseDropped, TakeOut, Closed
  <2>5. PICK g \in [Calls -> Keys \cup {None}] : Label(g)  BY DEF Labelled
  <2>6. g[at[r]] \notin next[r] /\ g[x] = g[at[r]]  BY <2>2, <2>4, <2>5 DEF Label
  <2>7. PICK c \in Calls : conn[c] = x  BY <2>2 DEF Users
  <2>8. key[c] = g[x]  BY <2>2, <2>5, <2>7 DEF Label
  <2> QED  BY <2>6, <2>7, <2>8 DEF Users
<1> QED  BY <1>1, <1>2, <1>3, PoolInvariant, PTL DEF Spec, RefreshSparesKept
=============================================================================

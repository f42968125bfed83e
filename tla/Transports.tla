------------------------------- MODULE Transports -------------------------------
(*****************************************************************************)
(* The shared connections of one broker: native/src/broker.rs (session,      *)
(* invalidate, refresh, shutdown, and the part of dispatch_with_context that *)
(* takes and gives back a connection).                                       *)
(*                                                                           *)
(* The pool maps the key of a server to a slot, a mutex around a connection. *)
(* Tasks keep references to slots and connections: a slot that has left the  *)
(* pool goes on to be used by those who have looked it up, and what nobody   *)
(* refers to any more is dropped, which closes it (Live).  A slot and a      *)
(* connection are named after the call that has made them.                   *)
(*                                                                           *)
(* Aliases of a server have one key and are one server here.  The catalogue  *)
(* of tools and the validators are caches of data and left out; a request is *)
(* the time a call spends with its connection.  What happens to the record   *)
(* of a call is the subject of Journal.                                      *)
(*****************************************************************************)
EXTENDS Integers, FiniteSets

CONSTANTS Calls,      \* calls of downstream tools
          Refreshes,  \* refreshes, asked for or due
          Shutdown,   \* the task that shuts the broker down
          Keys,       \* servers, by transport_key
          None,
          SlotLimit,  \* slots in the pool (32 in the code)
          CallLimit   \* calls at a time (32)

Tasks == Calls \cup Refreshes \cup {Shutdown}

ASSUME TransportsAssumption ==
    /\ IsFiniteSet(Calls) /\ IsFiniteSet(Keys)
    /\ Calls \cap Refreshes = {} /\ Shutdown \notin Calls \cup Refreshes
    /\ None \notin Tasks \cup Keys
    /\ SlotLimit \in Nat \ {0} /\ CallLimit \in Nat \ {0}

VARIABLES
    registry,    \* the servers of the broker's registry
    configError, \* the last word on the configuration was an error
    cooling,     \* servers whose last connection has failed
    slots,       \* the pool
    mapLock,     \* the call that holds its mutex while it looks for an idle slot
    inside,      \* the connection in each slot
    lock,        \* the task that holds each slot
    link,        \* each connection: "none", "open", "closed"
    pc,
    key,         \* the server of each call
    at,          \* the slot each task refers to
    conn,        \* the connection each call refers to
    next,        \* the servers a refresh has loaded
    failed,      \* refreshes that could not load
    pending,     \* servers a refresh, or slots the shutdown, has still to invalidate
    stopped,     \* no call is admitted any more
    condemned    \* history: slots a refresh has found not to be granted any more

config == <<registry, configError>>
pool   == <<slots, mapLock, inside, lock, link>>
work   == <<next, failed, pending, condemned>>
vars   == <<config, cooling, pool, pc, key, at, conn, work, stopped>>

Init ==
    /\ registry = Keys /\ configError = FALSE /\ cooling = {}
    /\ slots = [k \in Keys |-> None] /\ mapLock = None
    /\ inside = [s \in Calls |-> None] /\ lock = [s \in Calls |-> None]
    /\ link = [x \in Calls |-> "none"]
    /\ pc = [t \in Tasks |-> "idle"]
    /\ key = [c \in Calls |-> None] /\ conn = [c \in Calls |-> None]
    /\ at = [t \in Tasks |-> None]
    /\ next = [r \in Refreshes |-> {}] /\ failed = {}
    /\ pending = [t \in Tasks |-> {}] /\ stopped = FALSE
    /\ condemned = {}

Goes(t, to) == pc' = [pc EXCEPT ![t] = to]
Refers(t, s) == at' = [at EXCEPT ![t] = s]

Pooled == {k \in Keys : slots[k] # None}
PooledSlots == {slots[k] : k \in Pooled}
Users(x) == {c \in Calls : conn[c] = x}
Reached(s) == s \in PooledSlots \/ (\E t \in Tasks : at[t] = s) \/ s \in pending[Shutdown]

\* A connection nobody refers to is dropped and thereby closed.
Live(x) == link[x] = "open" /\ (Users(x) # {} \/ \E s \in Calls : inside[s] = x /\ Reached(s))

Closed(x) == [link EXCEPT ![x] = "closed"]

-----------------------------------------------------------------------------
(* A call: dispatch_with_context and session.                                *)

\* Every way out of a call gives back what it holds; its permit goes with it.
Over(c) == /\ Goes(c, "done") /\ Refers(c, None)
           /\ conn' = [conn EXCEPT ![c] = None]
           /\ key' = [key EXCEPT ![c] = None]
           /\ lock' = [s \in Calls |-> IF lock[s] = c THEN None ELSE lock[s]]

Refused(c) == Over(c) /\ UNCHANGED <<cooling, slots, mapLock, inside, link>>

CheckConfig(c) ==
    /\ pc[c] = "idle"
    /\ \/ configError /\ Refused(c)
       \/ ~configError /\ Goes(c, "lookup")
          /\ UNCHANGED <<cooling, key, pool, at, conn>>

Lookup(c) ==
    /\ pc[c] = "lookup"
    /\ \E k \in Keys :
          \/ k \notin registry /\ Refused(c)
          \/ /\ k \in registry
             /\ Goes(c, "queued") /\ key' = [key EXCEPT ![c] = k]
             /\ UNCHANGED <<cooling, pool, at, conn>>

Admitted == {c \in Calls : pc[c] \notin {"idle", "lookup", "queued", "done"}}

\* The server has failed; a failure older than a minute counts no more.
CoolingDown(c) == key[c] \in cooling

Permit(c) ==
    /\ pc[c] = "queued"
    /\ \/ stopped /\ Refused(c)
       \/ /\ ~stopped /\ Cardinality(Admitted) < CallLimit
          /\ \/ CoolingDown(c) /\ Refused(c)
             \/ Goes(c, "slot") /\ UNCHANGED <<cooling, key, pool, at, conn>>

\* Slots that can make room: free, and with no connection that is in use.
InUse == {x \in Calls : link[x] = "open" /\ Users(x) # {}}
Idle(k) == lock[slots[k]] = None /\ inside[slots[k]] \notin InUse

RoomForOneMore(c) ==               \* mutant: off by one
    slots[key[c]] # None \/ Cardinality(Pooled) <= SlotLimit
Room(c) == slots[key[c]] # None \/ Cardinality(Pooled) < SlotLimit

\* The slot of the server, a new one if there is none.
Enter(c, p) == LET s == IF p[key[c]] = None THEN c ELSE p[key[c]] IN
    /\ slots' = [p EXCEPT ![key[c]] = s]
    /\ Refers(c, s) /\ Goes(c, "lock")

FindSlot(c) ==
    /\ pc[c] = "slot" /\ mapLock = None
    /\ \/ Room(c) /\ Enter(c, slots) /\ UNCHANGED <<cooling, key, mapLock, inside, lock, link, conn>>
       \/ ~Room(c) /\ (\A k \in Pooled : ~Idle(k)) /\ Refused(c)
       \/ /\ ~Room(c) /\ \E k \in Pooled : Idle(k) /\ Refers(c, slots[k])
          /\ mapLock' = c /\ Goes(c, "retire")
          /\ UNCHANGED <<cooling, key, slots, inside, lock, link, conn>>

\* The idle slot was let go after the check and is taken with a second try: if that
\* fails it leaves the pool as it is.
Retire(c) ==
    /\ pc[c] = "retire"
    /\ LET s == at[c]
           x == inside[s]
           taken == lock[s] = None /\ x # None
       IN  /\ inside' = IF taken THEN [inside EXCEPT ![s] = None] ELSE inside
           /\ link' = IF taken THEN Closed(x) ELSE link
           /\ Enter(c, [k \in Keys |-> IF slots[k] = s THEN None ELSE slots[k]])
    /\ mapLock' = None
    /\ UNCHANGED <<cooling, key, lock, conn>>

\* The slot is free: its connection if that is open, or a new one.
Acquire(c) ==
    /\ pc[c] = "lock" /\ lock[at[c]] = None
    /\ LET s == at[c]
           x == inside[s]
       IN  IF x # None /\ link[x] = "open"
           THEN /\ conn' = [conn EXCEPT ![c] = x]
                /\ Refers(c, None) /\ Goes(c, "using")
                /\ UNCHANGED <<inside, lock>>
           ELSE /\ inside' = [inside EXCEPT ![s] = None]
                /\ lock' = [lock EXCEPT ![s] = c]
                /\ Goes(c, "connecting")
                /\ UNCHANGED <<conn, at>>
    /\ UNCHANGED <<cooling, key, slots, mapLock, link>>

\* A child under a guardian or an HTTP client, initialised.
Opens(c) == link' = [link EXCEPT ![c] = "open"]

Connect(c) ==
    /\ pc[c] = "connecting"
    /\ \/ /\ Opens(c)
          /\ inside' = [inside EXCEPT ![at[c]] = c]
          /\ conn' = [conn EXCEPT ![c] = c]
          /\ lock' = [lock EXCEPT ![at[c]] = None]
          /\ Refers(c, None) /\ Goes(c, "using")
          /\ UNCHANGED <<cooling, key>>
       \/ /\ cooling' = cooling \cup {key[c]}
          /\ Over(c)
          /\ UNCHANGED <<inside, link>>
    /\ UNCHANGED <<slots, mapLock>>

\* The request is over.  Some errors return at once, the others look at the connection.
EndRequest(c) ==
    /\ pc[c] = "using"
    /\ \/ Refused(c)
       \/ /\ link[conn[c]] = "closed" /\ Goes(c, "invalidate")
          /\ UNCHANGED <<cooling, key, pool, at, conn>>

\* A task is aborted, or its deadline passes, where it waits.
Abort(c) ==
    /\ pc[c] \in {"lookup", "queued", "slot", "lock", "connecting", "using", "invalidate", "remove"}
    /\ Refused(c)

-----------------------------------------------------------------------------
(* invalidate, by a call or by a refresh: the server's slot leaves the pool, *)
(* then the connection that is in it is closed.                              *)

Remove(k) == slots' = [slots EXCEPT ![k] = None]

\* The slot is free: its connection is taken out and closed, in use or not.
TakeOut(s) ==
    /\ lock[s] = None
    /\ inside' = [inside EXCEPT ![s] = None]
    /\ link' = IF inside[s] = None THEN link ELSE Closed(inside[s])

Invalidate(c) ==
    /\ pc[c] = "invalidate" /\ mapLock = None
    /\ IF slots[key[c]] = None
       THEN Refused(c)
       ELSE /\ Remove(key[c]) /\ Refers(c, slots[key[c]]) /\ Goes(c, "remove")
            /\ UNCHANGED <<cooling, key, mapLock, inside, lock, link, conn>>

CloseRemoved(c) ==
    /\ pc[c] = "remove" /\ TakeOut(at[c])
    /\ Over(c)
    /\ UNCHANGED <<cooling, slots, mapLock>>

Call(c) == /\ \/ CheckConfig(c) \/ Lookup(c) \/ Permit(c) \/ FindSlot(c)
              \/ Retire(c) \/ Acquire(c) \/ Connect(c) \/ EndRequest(c)
              \/ Invalidate(c) \/ CloseRemoved(c) \/ Abort(c)
           /\ UNCHANGED <<config, work, stopped>>

-----------------------------------------------------------------------------
(* refresh.                                                                  *)

\* It cannot be read, or the job that reads it takes too long.
Unreadable(r) == failed' = failed \cup {r} /\ Goes(r, "report")

\* The configuration is read, whatever somebody has made of it meanwhile.
Load(r) ==
    /\ pc[r] = "idle"
    /\ \/ /\ \E granted \in SUBSET Keys : next' = [next EXCEPT ![r] = granted]
          /\ Goes(r, "list") /\ UNCHANGED failed
       \/ Unreadable(r) /\ UNCHANGED next
    /\ UNCHANGED <<registry, configError, cooling, slots, inside, link, at, pending, condemned>>

ReportOnly(r) ==                   \* mutant: keeps the servers it has
    /\ pc[r] = "report" /\ configError' = TRUE /\ Goes(r, "list")
    /\ UNCHANGED <<registry, cooling, slots, inside, link, at, next, failed, pending, condemned>>
Report(r) ==
    /\ pc[r] = "report" /\ configError' = TRUE /\ Goes(r, "clear")
    /\ UNCHANGED <<registry, cooling, slots, inside, link, at, next, failed, pending, condemned>>

Clear(r) ==
    /\ pc[r] = "clear" /\ registry' = {} /\ Goes(r, "list")
    /\ UNCHANGED <<configError, cooling, slots, inside, link, at, next, failed, pending, condemned>>

\* Transports of servers that are not kept; none are kept after a failure.
RevokedSoFar(r) == Pooled \ registry   \* mutant: compares with the registry it replaces
RevokedAll(r) == Pooled                \* mutant: keeps no transport
Revoked(r) == Pooled \ next[r]

List(r) ==
    /\ pc[r] = "list" /\ mapLock = None
    /\ pending' = [pending EXCEPT ![r] = Revoked(r)]
    /\ condemned' = condemned \cup {slots[k] : k \in Pooled \ next[r]}
    /\ Goes(r, "dropping")
    /\ UNCHANGED <<registry, configError, cooling, slots, inside, link, at, next, failed>>

DropNext(r) ==
    /\ pc[r] = "dropping" /\ mapLock = None
    /\ \E k \in pending[r] :
          /\ pending' = [pending EXCEPT ![r] = @ \ {k}]
          /\ Remove(k) /\ Refers(r, slots[k])
          /\ Goes(r, IF slots[k] = None THEN "dropping" ELSE "closing")
    /\ UNCHANGED <<registry, configError, cooling, inside, link, next, failed, condemned>>

CloseDropped(r) ==
    /\ pc[r] = "closing" /\ TakeOut(at[r])
    /\ Refers(r, None) /\ Goes(r, "dropping")
    /\ UNCHANGED <<registry, configError, cooling, slots, next, failed, pending, condemned>>

\* Only then the new registry is published, and after it that there is no error.
Publish(r) ==
    /\ pc[r] = "dropping" /\ pending[r] = {}
    /\ \/ r \in failed /\ Goes(r, "done") /\ UNCHANGED registry
       \/ r \notin failed /\ registry' = next[r] /\ Goes(r, "clean")
    /\ next' = [next EXCEPT ![r] = {}]
    /\ UNCHANGED <<configError, cooling, slots, inside, link, at, failed, pending, condemned>>

Clean(r) ==
    /\ pc[r] = "clean" /\ configError' = FALSE /\ cooling' = {} /\ Goes(r, "done")
    /\ UNCHANGED <<registry, slots, inside, link, at, next, failed, pending, condemned>>

\* Its task is aborted where it waits, between any two of its steps.
GiveUp(r) ==
    /\ pc[r] \in {"clear", "list", "dropping", "closing", "clean"}
    /\ Refers(r, None) /\ Goes(r, "aborted")
    /\ UNCHANGED <<registry, configError, cooling, slots, inside, link, next, failed, pending, condemned>>

Refresh(r) == /\ \/ GiveUp(r) \/ Load(r) \/ Report(r) \/ Clear(r) \/ List(r) \/ DropNext(r) \/ CloseDropped(r)
                 \/ Publish(r) \/ Clean(r)
              /\ UNCHANGED <<mapLock, lock, key, conn, stopped>>

-----------------------------------------------------------------------------
(* shutdown, and the world outside.                                          *)

\* Between the end of admission and the emptying of the pool nothing else changes.
Stop ==
    \/ /\ pc[Shutdown] = "idle" /\ mapLock = None
       /\ stopped' = TRUE
       /\ pending' = [pending EXCEPT ![Shutdown] = PooledSlots]
       /\ slots' = [k \in Keys |-> None]
       /\ Goes(Shutdown, "closing")
       /\ UNCHANGED <<inside, link>>
    \/ /\ pc[Shutdown] = "closing"
       /\ \E s \in pending[Shutdown] :
             TakeOut(s) /\ pending' = [pending EXCEPT ![Shutdown] = @ \ {s}]
       /\ UNCHANGED <<slots, pc, stopped>>

PeerDies(x) == Live(x) /\ link' = Closed(x)

World ==
    \/ Stop /\ UNCHANGED <<config, cooling, mapLock, lock, key, at, conn, next, failed, condemned>>
    \/ (\E x \in Calls : PeerDies(x))
       /\ UNCHANGED <<config, cooling, slots, mapLock, inside, lock, pc, key, at, conn, work, stopped>>

Ended(t) == pc[t] \in {"done", "aborted"} \/ (t = Shutdown /\ pc[t] = "closing" /\ pending[t] = {})
Quiet == (\A t \in Tasks : Ended(t)) /\ UNCHANGED vars

Next == (\E c \in Calls : Call(c)) \/ (\E r \in Refreshes : Refresh(r)) \/ World \/ Quiet

Spec == Init /\ [][Next]_vars

-----------------------------------------------------------------------------
(* Properties.                                                               *)

Task == {"idle", "done", "aborted", "lookup", "queued", "slot", "retire", "lock", "connecting",
         "using", "invalidate", "remove", "report", "clear", "list", "dropping", "closing", "clean"}

\* Type invariant; the pool and the calls keep to their limits, a slot serves one server
\* and is held only by a call that connects in it.
TypeOK ==
    /\ registry \subseteq Keys /\ cooling \subseteq Keys
    /\ configError \in BOOLEAN /\ stopped \in BOOLEAN
    /\ slots \in [Keys -> Calls \cup {None}] /\ mapLock \in Calls \cup {None}
    /\ inside \in [Calls -> Calls \cup {None}]
    /\ lock \in [Calls -> Calls \cup {None}]
    /\ link \in [Calls -> {"none", "open", "closed"}]
    /\ pc \in [Tasks -> Task]
    /\ key \in [Calls -> Keys \cup {None}]
    /\ at \in [Tasks -> Calls \cup {None}] /\ conn \in [Calls -> Calls \cup {None}]
    /\ next \in [Refreshes -> SUBSET Keys] /\ failed \subseteq Refreshes
    /\ condemned \subseteq Calls
    /\ Cardinality(Pooled) <= SlotLimit /\ Cardinality(Admitted) <= CallLimit
    /\ \A j, k \in Pooled : slots[j] = slots[k] => j = k
    /\ \A s, c \in Calls : lock[s] = c => pc[c] = "connecting" /\ at[c] = s

AtWork(r) == pc[r] \notin {"idle", "done", "aborted"}

\* Broker operations fail closed: once no refresh is at work, an error in the
\* configuration means that no server is granted, in whatever order refreshes that
\* succeed and refreshes that fail have published.
FailClosed ==
    configError /\ (\A r \in Refreshes : ~AtWork(r) /\ pc[r] # "aborted") => registry = {}

\* What a refresh has found revoked has left the pool when it is over, whoever else
\* has worked on the pool meanwhile.
RevokedLeaves ==
    (\A r \in Refreshes : ~AtWork(r) /\ pc[r] # "aborted") => condemned \cap PooledSlots = {}

\* A refresh closes what it revokes, and no connection in use of a server it keeps.
RefreshSparesKept ==
    [][\A r \in Refreshes, x \in InUse :
          pc[r] = "closing" /\ pc'[r] # "closing" /\ link'[x] = "closed" =>
              \E c \in Users(x) : key[c] \notin next[r]]_vars

\* broker.rs:612-613: "A protocol error or a cancelled call does not own the shared
\* transport. Only an actually closed service is invalidated; healthy peers survive."
HealthyPeersSurvive ==
    [][\A c \in Calls, x \in InUse :
          pc[c] # pc'[c] /\ Users(x) # {c} => link'[x] = "open"]_vars
=============================================================================

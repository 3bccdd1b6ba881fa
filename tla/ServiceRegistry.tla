-------------------------- MODULE ServiceRegistry --------------------------
(***************************************************************************)
(* How DBusServiceRegistry learns which instances are available and tells  *)
(* their listeners.  An instance is an object (a path and an interface) of *)
(* a service (a well-known bus name).  The registry follows the owners of  *)
(* the names, caches per owner which interfaces its object paths have, and *)
(* keeps the caches in step with the InterfacesAdded and InterfacesRemoved *)
(* signals of the owner.  A path is filled in by GetManagedObjects calls:  *)
(* one to the root object manager, one more to the parent path when a path *)
(* above it turns out to be there.                                         *)
(*                                                                         *)
(* Every operation holds dbusServicesMutex_ from its first to its last     *)
(* step, so each is one action.  What goes on between them is the bus: the *)
(* connection receives all replies and signals in the order in which the   *)
(* daemon forwards them, and the peers change while requests are under     *)
(* way.  The peers and the daemon are modelled from how the registry uses  *)
(* them.  isServiceInstanceAlive and predefined services are left out.     *)
(***************************************************************************)
EXTENDS Naturals, FiniteSets, Sequences, SequencesExt

CONSTANTS
  Services,     \* well-known bus names
  Owners,       \* unique names
  Paths,        \* object paths, without the root
  Objects,      \* interfaces of object paths
  PathOf,       \* the path of an object
  Above,        \* the paths that are proper prefixes of a path
  Parent,       \* a path without its last element
  Root,         \* the path of the root object manager
  ManagerOf,    \* the path of the manager that lists the objects of a path
  Listeners,    \* the subscriptions of proxies, each made at most once
  ServiceOf,    \* the service a listener waits for ...
  ObjectOf,     \* ... and the object
  Reclaims,     \* whether an owner claims names again that it has given up
  MaxEvents,    \* bound: what peers and users do, and requests given up
  Calls,        \* how many values a counter of pending calls has
  None

Managers == Paths \cup {Root}

ASSUME RegistryAssumption ==
  /\ IsFiniteSet(Paths) /\ IsFiniteSet(Objects)
  /\ Root \notin Paths /\ None \notin Owners
  /\ PathOf \in [Objects -> Paths]
  /\ Above \in [Paths -> SUBSET Paths]
  /\ \A p \in Paths : p \notin Above[p]
  /\ Parent \in [Paths -> Managers] /\ ManagerOf \in [Paths -> Managers]
  /\ ServiceOf \in [Listeners -> Services]
  /\ ObjectOf \in [Listeners -> Objects]
  /\ Reclaims \in BOOLEAN
  /\ MaxEvents \in Nat /\ Calls \in Nat \ {0}

VARIABLES
  reg,          \* the registry, and what it has sent
  owner,        \* who owns a service, as the daemon knows it
  former,       \* history: who has given up a service
  exports,      \* the objects that a peer has registered
  inbox,        \* what the connection will dispatch, in the order of arrival
  removals,     \* removals that unsubscribe has left to the main loop
  timedOut,     \* history: a request was given up
  events        \* history: the events so far

bus == <<owner, former, exports>>
vars == <<reg, bus, inbox, removals, timedOut, events>>

(* DBusRecordState of a service, of an interface and of a cached path.     *)
NameStates == {"UNKNOWN", "RESOLVING", "RESOLVED", "NOT_AVAILABLE"}
RecordStates == {"UNKNOWN", "RESOLVING", "AVAILABLE", "NOT_AVAILABLE"}
PathStates == {"absent", "RESOLVING", "RESOLVED"}
Statuses == {"UNKNOWN", "AVAILABLE", "NOT_AVAILABLE"}

Name(state, unique) == [state |-> state, unique |-> unique]
Absent == [state |-> "absent", service |-> None, ifaces |-> {}, pending |-> 0]

(* Requests: who owns this name; which objects does this manager list.     *)
NameRequest(s) == [kind |-> "name", service |-> s]
ObjectsRequest(u, p, m) ==
  [kind |-> "objects", unique |-> u, path |-> p, manager |-> m]

(* What arrives: replies to requests, and signals.                         *)
NameReply(s, u) == [kind |-> "name", service |-> s, unique |-> u]
ObjectsReply(u, p, found) ==
  [kind |-> "objects", unique |-> u, path |-> p, found |-> found]
NameOwnerChanged(s, old, new) ==
  [kind |-> "owner", service |-> s, old |-> old, new |-> new]
InterfacesChanged(u, o, status) ==
  [kind |-> "interfaces", unique |-> u, object |-> o, status |-> status]

Owner == Owners \cup {None}
Request == {NameRequest(s) : s \in Services}
  \cup [kind : {"objects"}, unique : Owners, path : Paths, manager : Managers]
Message ==
  [kind : {"name"}, service : Services, unique : Owner]
  \cup [kind : {"objects"}, unique : Owners, path : Paths, found : SUBSET Objects]
  \cup [kind : {"owner"}, service : Services, old : Owner, new : Owner]
  \cup [kind : {"interfaces"}, unique : Owners, object : Objects, status : Statuses]

Registry ==
  [names : [Services -> [state : NameStates, unique : Owner]],
   owned : [Owners -> SUBSET Services],
   caches : [Owners -> [Paths ->
     [state : PathStates, service : Services \cup {None},
      ifaces : SUBSET Objects, pending : 0 .. Calls - 1]]],
   watches : [Owners -> Nat],
   records : [Services \X Objects -> RecordStates],
   phase : [Listeners -> {"new", "in", "leaving", "out"}],
   told : [Listeners -> Statuses],
   sent : Seq(Request)]

TypeOK ==
  /\ reg \in Registry
  /\ owner \in [Services -> Owner]
  /\ former \in [Services -> SUBSET Owners]
  /\ exports \in [Owners -> SUBSET Objects]
  /\ inbox \in Seq(Message)
  /\ removals \subseteq Listeners
  /\ timedOut \in BOOLEAN
  /\ events \in 0 .. MaxEvents

(* A peer lists an object with a manager that it has registered, too.      *)
At(objects, p) == {o \in objects : PathOf[o] = p}
Managed(objects) ==
  \A o \in objects : LET m == ManagerOf[PathOf[o]]
                     IN m = Root \/ At(objects, m) # {}

(* The registry starts on a bus that is in use.                            *)
Init ==
  /\ reg = [names |-> [s \in Services |-> Name("UNKNOWN", None)],
            owned |-> [u \in Owners |-> {}],
            caches |-> [u \in Owners |-> [p \in Paths |-> Absent]],
            watches |-> [u \in Owners |-> 0],
            records |-> [x \in Services \X Objects |-> "UNKNOWN"],
            phase |-> [l \in Listeners |-> "new"],
            told |-> [l \in Listeners |-> "UNKNOWN"],
            sent |-> <<>>]
  /\ owner \in [Services -> Owner]
  /\ former = [s \in Services |-> {}]
  /\ exports \in [Owners -> {objects \in SUBSET Objects : Managed(objects)}]
  /\ inbox = <<>> /\ removals = {}
  /\ timedOut = FALSE /\ events = 0

-----------------------------------------------------------------------------
(* The registry's functions, from its state r to its next state.           *)

Slot(l) == <<ServiceOf[l], ObjectOf[l]>>
ListenerList(r, x) == {l \in Listeners : Slot(l) = x /\ r.phase[l] \in {"in", "leaving"}}
HasRecord(r, u) == r.owned[u] # {}
ObservedPaths(r, s) ==
  {PathOf[o] : o \in {o \in Objects : ListenerList(r, <<s, o>>) # {}}}

(* notifyDBusInterfaceNameListeners for the interfaces in slots: those     *)
(* whose state changes tell their listeners and drop the ones that leave;  *)
(* the callers drop the records of interfaces that have no listener left.  *)
Tell(r, slots, status) ==
  LET changed == {x \in slots : ListenerList(r, x) # {} /\ r.records[x] # status}
      Told(l) == r.phase[l] = "in" /\ Slot(l) \in changed
      Left(l) == r.phase[l] = "leaving" /\ Slot(l) \in changed
      emptied == {x \in changed : \A l \in ListenerList(r, x) : Left(l)}
  IN [r EXCEPT
       !.records = [x \in DOMAIN @ |-> IF x \in emptied THEN "UNKNOWN"
                                       ELSE IF x \in changed THEN status ELSE @[x]],
       !.phase = [l \in Listeners |-> IF Left(l) THEN "out" ELSE @[l]],
       !.told = [l \in Listeners |-> IF Told(l) THEN status ELSE @[l]]]

(* notifyDBusServiceListeners: the listeners of all names of an owner.     *)
TellOwned(r, u, objects, status) ==
  Tell(r, {s \in r.owned[u] : r.names[s].state = "RESOLVED"} \X objects, status)

(* Seeded fault: the subscription ends with the first name that is lost.   *)
RemoveNameAndWatch(r, u, s) ==
  IF r.owned[u] \subseteq {s}
    THEN [r EXCEPT !.owned[u] = {},
                   !.caches[u] = [p \in Paths |-> Absent],
                   !.watches[u] = IF @ = 0 THEN 0 ELSE @ - 1]
    ELSE [r EXCEPT !.owned[u] = @ \ {s},
                   !.caches[u] = [p \in Paths |-> IF @[p].service = s
                                                    THEN Absent ELSE @[p]],
                   !.watches[u] = IF @ = 0 THEN 0 ELSE @ - 1]

(* removeUniqueName, with the name of a service.                           *)
RemoveUniqueName(r, u, s) ==
  IF r.owned[u] \subseteq {s}
    THEN [r EXCEPT !.owned[u] = {},
                   !.caches[u] = [p \in Paths |-> Absent],
                   !.watches[u] = IF @ = 0 THEN 0 ELSE @ - 1]
    ELSE [r EXCEPT !.owned[u] = @ \ {s},
                   !.caches[u] = [p \in Paths |-> IF @[p].service = s
                                                    THEN Absent ELSE @[p]]]

(* onDBusServiceNotAvailable.                                              *)
ServiceNotAvailable(r, s) ==
  LET u == r.names[s].unique
      removed == IF u # None /\ HasRecord(r, u) THEN RemoveUniqueName(r, u, s) ELSE r
      cleared == [removed EXCEPT !.names[s] = Name("NOT_AVAILABLE", None)]
  IN Tell(cleared, {s} \X Objects, "NOT_AVAILABLE")

(* checkDBusServiceWasAvailable.                                           *)
CheckServiceWasAvailable(r, s, u) ==
  IF HasRecord(r, u) THEN ServiceNotAvailable(r, s) ELSE r

(* getDBusObjectPathCacheReference for a set of paths: the first path that *)
(* is cached for an owner subscribes to the signals of its managers, and a *)
(* new path asks the root object manager (resolveObjectPathWithObject-     *)
(* Manager).                                                               *)
CachePaths(r, u, s, paths) ==
  LET new == {p \in paths : r.caches[u][p].state = "absent"}
      first == new # {} /\ \A p \in Paths : r.caches[u][p].state = "absent"
      calls == SetToSeq({ObjectsRequest(u, p, Root) : p \in new})
  IN [r EXCEPT
       !.watches[u] = IF first THEN @ + 1 ELSE @,
       !.caches[u] = [p \in Paths |->
         IF p \in new THEN [Absent EXCEPT !.state = "RESOLVING", !.service = s,
                                          !.pending = 1 % Calls]
                      ELSE @[p]],
       !.sent = @ \o calls]

(* insertServiceNameMapping, without dbusServiceNameMap_.                  *)
InsertServiceNameMapping(r, s, u) ==
  [r EXCEPT !.owned[u] = @ \cup {s},
            !.names[s] = IF @.state = "RESOLVED" THEN @ ELSE Name("UNKNOWN", u)]

(* Seeded fault: an owner that is replaced keeps the name.                 *)
ServiceAvailableAsWell(r, s, u) ==
  LET inserted == InsertServiceNameMapping(r, s, u)
      named == [inserted EXCEPT !.names[s] = Name("RESOLVED", u)]
  IN CachePaths(named, u, s, ObservedPaths(named, s))

(* onDBusServiceAvailable: an owner that was not known to have lost the    *)
(* name is dealt with first.                                               *)
ServiceAvailable(r, s, u) ==
  LET inserted == InsertServiceNameMapping(r, s, u)
      before == inserted.names[s]
      replaced == IF before.state = "RESOLVED" /\ before.unique # u
                    THEN CheckServiceWasAvailable(inserted, s, before.unique)
                    ELSE inserted
      named == [replaced EXCEPT !.names[s] = Name("RESOLVED", u)]
      paths == ObservedPaths(named, s)
      cached == CachePaths(named, u, s, paths)
      resolved == {p \in paths : cached.caches[u][p].state = "RESOLVED"}
  IN Tell(cached, {s} \X UNION {cached.caches[u][p].ifaces : p \in resolved},
          "AVAILABLE")

(* Seeded faults: further calls are not counted, or not made.              *)
ManagedObjectsFoundUncounted(r, u, p, found) ==
  LET cache == r.caches[u][p]
      calls == Cardinality({PathOf[o] : o \in found} \cap Above[p])
      pending == (cache.pending + Calls - 1) % Calls
      ifaces == cache.ifaces \cup At(found, p)
      updated == [r EXCEPT
        !.caches[u][p].ifaces = ifaces,
        !.caches[u][p].pending = pending,
        !.caches[u][p].state = IF pending = 0 THEN "RESOLVED" ELSE @,
        !.sent = @ \o [i \in 1 .. calls |-> ObjectsRequest(u, p, Parent[p])]]
  IN IF cache.state = "absent" THEN r
     ELSE IF pending # 0 THEN updated
     ELSE TellOwned(updated, u, ifaces, "AVAILABLE")
RootObjectsFound(r, u, p, found) ==
  ManagedObjectsFoundUncounted(r, u, p, At(found, p))

(* onGetManagedObjectsCallbackResolve: the objects of the path itself are  *)
(* cached, and for every path above it that is listed the parent is asked. *)
(* With the last pending call the path is resolved.                        *)
ManagedObjectsFound(r, u, p, found) ==
  LET cache == r.caches[u][p]
      calls == Cardinality({PathOf[o] : o \in found} \cap Above[p])
      pending == (cache.pending + calls + Calls - 1) % Calls
      ifaces == cache.ifaces \cup At(found, p)
      updated == [r EXCEPT
        !.caches[u][p].ifaces = ifaces,
        !.caches[u][p].pending = pending,
        !.caches[u][p].state = IF pending = 0 THEN "RESOLVED" ELSE @,
        !.sent = @ \o [i \in 1 .. calls |-> ObjectsRequest(u, p, Parent[p])]]
  IN IF cache.state = "absent" THEN r
     ELSE IF pending # 0 THEN updated
     ELSE TellOwned(updated, u, ifaces, "AVAILABLE")

(* Seeded fault: the cache forgets an interface, the listeners do not.     *)
ObjectForgotten(r, u, o, status) ==
  LET p == PathOf[o]
      updated == [r EXCEPT !.caches[u][p].ifaces =
                    IF status = "AVAILABLE" THEN @ \cup {o} ELSE @ \ {o}]
  IN IF r.caches[u][p].state # "RESOLVED" THEN r
     ELSE IF status = "AVAILABLE" THEN TellOwned(updated, u, {o}, status)
     ELSE updated

(* onSignalDBusMessage: paths that are not resolved ignore the signal.     *)
ObjectChanged(r, u, o, status) ==
  LET p == PathOf[o]
      updated == [r EXCEPT !.caches[u][p].ifaces =
                    IF status = "AVAILABLE" THEN @ \cup {o} ELSE @ \ {o}]
  IN IF r.caches[u][p].state # "RESOLVED" THEN r
     ELSE TellOwned(updated, u, {o}, status)

-----------------------------------------------------------------------------
(* Users of the registry.                                                  *)

Event == events < MaxEvents /\ events' = events + 1

(* Seeded fault: a listener is inserted, but not told what is known.       *)
EnlistSilently(r, l, status) == reg' = [r EXCEPT !.phase[l] = "in"]

(* The end of subscribeAvailabilityListener: the listener is told what is  *)
(* known, then it is inserted.                                             *)
Enlist(r, l, status) ==
  reg' = [r EXCEPT !.phase[l] = "in",
                   !.told[l] = IF status \in {"AVAILABLE", "NOT_AVAILABLE"}
                                 THEN status ELSE @]

(* Seeded fault: the state of the path stands for that of the interface.   *)
PathState(r, s, u, o) == r.caches[u][PathOf[o]].state

(* resolveDBusInterfaceNameState, for a service that has an owner.         *)
InterfaceState(r, s, u, o) ==
  LET cache == r.caches[u][PathOf[o]]
  IN IF cache.state # "RESOLVED" THEN cache.state
     ELSE IF o \in cache.ifaces THEN "AVAILABLE" ELSE "NOT_AVAILABLE"

SubscribeUnknown(l) ==
  LET s == ServiceOf[l]
  IN /\ reg.names[s].state = "UNKNOWN"
     /\ Enlist([reg EXCEPT !.records[Slot(l)] = "UNKNOWN",
                           !.names[s].state = "RESOLVING",
                           !.sent = Append(@, NameRequest(s))],
               l, "UNKNOWN")

SubscribeNotAvailable(l) ==
  /\ reg.names[ServiceOf[l]].state = "NOT_AVAILABLE"
  /\ Enlist(reg, l, "NOT_AVAILABLE")

SubscribeResolved(l) ==
  LET s == ServiceOf[l]
      o == ObjectOf[l]
      u == reg.names[s].unique
      cached == CachePaths(reg, u, s, {PathOf[o]})
      state == InterfaceState(cached, s, u, o)
  IN /\ reg.names[s].state = "RESOLVED"
     /\ reg.records[Slot(l)] = "UNKNOWN"
     /\ Enlist([cached EXCEPT !.records[Slot(l)] = state], l, state)

SubscribeKnown(l) ==
  LET state == reg.names[ServiceOf[l]].state
  IN /\ \/ state = "RESOLVING"
        \/ state = "RESOLVED" /\ reg.records[Slot(l)] # "UNKNOWN"
     /\ Enlist(reg, l, reg.records[Slot(l)])

Subscribe(l) ==
  /\ reg.phase[l] = "new"
  /\ SubscribeUnknown(l) \/ SubscribeNotAvailable(l)
       \/ SubscribeResolved(l) \/ SubscribeKnown(l)
  /\ Event
  /\ UNCHANGED <<bus, inbox, removals, timedOut>>

(* unsubscribeAvailabilityListener only marks the listener; the main loop, *)
(* or the next notification, removes it.                                   *)
Unsubscribe(l) ==
  /\ reg.phase[l] = "in"
  /\ reg' = [reg EXCEPT !.phase[l] = "leaving"]
  /\ removals' = removals \cup {l}
  /\ Event
  /\ UNCHANGED <<bus, inbox, timedOut>>

RemoveListener(l) ==
  /\ l \in removals
  /\ removals' = removals \ {l}
  /\ reg' = IF reg.phase[l] # "leaving" THEN reg
            ELSE [reg EXCEPT !.phase[l] = "out",
                             !.records[Slot(l)] =
                               IF ListenerList(reg, Slot(l)) = {l} THEN "UNKNOWN" ELSE @]
  /\ UNCHANGED <<bus, inbox, timedOut, events>>

(* The reply to getAvailableServiceInstancesAsync: as if one more call to  *)
(* resolve the manager's own path had been pending.  A manager does not    *)
(* list itself nor what is above it.                                       *)
Refresh(s, p) ==
  LET u == reg.names[s].unique
      pending == [reg EXCEPT !.caches[u][p].state = "RESOLVING",
                             !.caches[u][p].pending = (@ + 1) % Calls]
  IN /\ \E q \in Paths : ManagerOf[q] = p
     /\ u # None
     /\ reg.caches[u][p].state # "absent"
     /\ reg' = ManagedObjectsFound(pending, u, p, {})
     /\ Event
     /\ UNCHANGED <<bus, inbox, removals, timedOut>>

-----------------------------------------------------------------------------
(* The bus.                                                                *)

Arrive(m) == inbox' = Append(inbox, m)

(* A name gets an owner, or another one.                                   *)
Claim(s, u) ==
  /\ owner[s] # u
  /\ Reclaims \/ u \notin former[s]
  /\ owner' = [owner EXCEPT ![s] = u]
  /\ former' = [former EXCEPT ![s] = @ \cup ({owner[s]} \ {None})]
  /\ Arrive(NameOwnerChanged(s, owner[s], u))
  /\ Event
  /\ UNCHANGED <<reg, exports, removals, timedOut>>

Release(s) ==
  /\ owner[s] # None
  /\ owner' = [owner EXCEPT ![s] = None]
  /\ former' = [former EXCEPT ![s] = @ \cup {owner[s]}]
  /\ Arrive(NameOwnerChanged(s, owner[s], None))
  /\ Event
  /\ UNCHANGED <<reg, exports, removals, timedOut>>

(* A peer registers or unregisters an object; the signal arrives only when *)
(* the connection has subscribed to it.                                    *)
Reexport(u, objects, o, status) ==
  /\ Managed(objects)
  /\ exports' = [exports EXCEPT ![u] = objects]
  /\ IF reg.watches[u] > 0 THEN Arrive(InterfacesChanged(u, o, status))
                           ELSE UNCHANGED inbox
  /\ Event
  /\ UNCHANGED <<reg, owner, former, removals, timedOut>>

Export(u, o) ==
  o \notin exports[u] /\ Reexport(u, exports[u] \cup {o}, o, "AVAILABLE")

Unexport(u, o) ==
  o \in exports[u] /\ Reexport(u, exports[u] \ {o}, o, "NOT_AVAILABLE")

(* What a manager lists; a manager that is not there lists nothing, as     *)
(* does an error.                                                          *)
Listed(u, m) ==
  {o \in exports[u] : ManagerOf[PathOf[o]] = m /\ (m = Root \/ At(exports[u], m) # {})}

Unsent(i) == [reg EXCEPT !.sent = RemoveAt(@, i)]

(* The daemon answers, or forwards, requests in their order, and so does   *)
(* each peer answer them.                                                  *)
InTurn(i) ==
  \A j \in 1 .. i - 1 :
    /\ reg.sent[j].kind # "name"
    /\ reg.sent[i].kind = "objects" => reg.sent[j].unique # reg.sent[i].unique

AnswerName(i) ==
  LET m == reg.sent[i]
  IN /\ m.kind = "name" /\ InTurn(i)
     /\ Arrive(NameReply(m.service, owner[m.service]))
     /\ reg' = Unsent(i)
     /\ UNCHANGED <<bus, removals, timedOut, events>>

AnswerObjects(i) ==
  LET m == reg.sent[i]
  IN /\ m.kind = "objects" /\ InTurn(i)
     /\ Arrive(ObjectsReply(m.unique, m.path, Listed(m.unique, m.manager)))
     /\ reg' = Unsent(i)
     /\ UNCHANGED <<bus, removals, timedOut, events>>

(* A request that takes too long fails.                                    *)
GiveUp(i) ==
  LET m == reg.sent[i]
  IN /\ Arrive(IF m.kind = "name" THEN NameReply(m.service, None)
                                  ELSE ObjectsReply(m.unique, m.path, {}))
     /\ reg' = Unsent(i)
     /\ timedOut' = TRUE
     /\ Event
     /\ UNCHANGED <<bus, removals>>

-----------------------------------------------------------------------------
(* What the connection dispatches to the registry.                         *)

Receive(kind) ==
  /\ inbox # <<>> /\ Head(inbox).kind = kind
  /\ inbox' = Tail(inbox)
  /\ UNCHANGED <<bus, removals, timedOut, events>>

(* onDBusDaemonProxyNameOwnerChangedEvent.                                 *)
OnNameOwnerChanged ==
  LET m == Head(inbox)
  IN /\ Receive("owner")
     /\ reg' = IF m.new = None
                 THEN CheckServiceWasAvailable(reg, m.service, m.old)
                 ELSE ServiceAvailable(reg, m.service, m.new)

(* onGetNameOwnerCallback.                                                 *)
OnGetNameOwner ==
  LET m == Head(inbox)
  IN /\ Receive("name")
     /\ reg' = IF m.unique # None THEN ServiceAvailable(reg, m.service, m.unique)
                                  ELSE ServiceNotAvailable(reg, m.service)

OnManagedObjects ==
  LET m == Head(inbox)
  IN /\ Receive("objects")
     /\ reg' = ManagedObjectsFound(reg, m.unique, m.path, m.found)

(* A signal whose handler is gone by now is not dispatched.                *)
OnInterfacesChanged ==
  LET m == Head(inbox)
  IN /\ Receive("interfaces")
     /\ reg' = IF reg.watches[m.unique] = 0 THEN reg
               ELSE ObjectChanged(reg, m.unique, m.object, m.status)

Dispatch ==
  OnNameOwnerChanged \/ OnGetNameOwner \/ OnManagedObjects \/ OnInterfacesChanged

Answer == \E i \in DOMAIN reg.sent : AnswerName(i) \/ AnswerObjects(i)

Next ==
  \/ \E l \in Listeners : Subscribe(l) \/ Unsubscribe(l) \/ RemoveListener(l)
  \/ \E s \in Services, p \in Paths : Refresh(s, p)
  \/ \E s \in Services : Release(s) \/ \E u \in Owners : Claim(s, u)
  \/ \E u \in Owners, o \in Objects : Export(u, o) \/ Unexport(u, o)
  \/ \E i \in DOMAIN reg.sent : GiveUp(i)
  \/ Answer
  \/ Dispatch

Spec == Init /\ [][Next]_vars

-----------------------------------------------------------------------------
(* Properties.                                                             *)

(* A service is resolved to an owner if and only if the record of the      *)
(* owner lists it among its ownedBusNames.                                 *)
OwnersAgree ==
  \A s \in Services, u \in Owners :
    s \in reg.owned[u] <=> reg.names[s] = Name("RESOLVED", u)

(* The counter of a cached path is the number of its GetManagedObjects     *)
(* calls that are not answered or whose reply is not handled yet, and only *)
(* a path that waits for none is resolved: a late reply is never taken for *)
(* the reply to another call, and nothing that waits waits for nothing.    *)
(* The same goes for a name that is being resolved.                        *)
Awaited(Of(_)) == Len(SelectSeq(reg.sent, Of)) + Len(SelectSeq(inbox, Of))
PendingExact ==
  /\ \A u \in Owners, p \in Paths :
       LET cache == reg.caches[u][p]
           Of(m) == m.kind = "objects" /\ m.unique = u /\ m.path = p
       IN cache.state # "absent" =>
            /\ cache.pending = Awaited(Of)
            /\ cache.state = "RESOLVED" <=> cache.pending = 0
  /\ \A s \in Services :
       LET Of(m) == m.kind = "name" /\ m.service = s
       IN reg.names[s].state = "RESOLVING" => Awaited(Of) > 0

(* While something of an owner is cached, the registry is subscribed to    *)
(* the signals that keep the cache up to date.                             *)
CachedIsWatched ==
  \A u \in Owners, p \in Paths :
    reg.caches[u][p].state # "absent" => reg.watches[u] > 0

(* A listener was last told AVAILABLE if and only if the record of its      *)
(* interface says so; hence the listeners of an interface agree on it.     *)
(* (They need not agree on the rest: the first listener of an interface    *)
(* that turns out to be missing is told nothing, the next NOT_AVAILABLE.)  *)
ListenersAgree ==
  \A l \in Listeners :
    reg.phase[l] = "in" =>
      (reg.told[l] = "AVAILABLE" <=> reg.records[Slot(l)] = "AVAILABLE")

(* An interface that has listeners is announced as available if and only   *)
(* if it is in the cache of a resolved path of the service's owner.        *)
InCache(s, o) ==
  LET cache == reg.caches[reg.names[s].unique][PathOf[o]]
  IN /\ reg.names[s].state = "RESOLVED"
     /\ cache.state = "RESOLVED"
     /\ o \in cache.ifaces
AnnouncedIsCached ==
  \A l \in Listeners :
    ListenerList(reg, Slot(l)) # {} =>
      (reg.records[Slot(l)] = "AVAILABLE" <=> InCache(ServiceOf[l], ObjectOf[l]))

(* When everything that was sent has been answered and handled, and no     *)
(* request was given up, a listener that was last told AVAILABLE waits for *)
(* an instance that is there, and one that waits for an instance that is   *)
(* there was told so.                                                      *)
AtRest == inbox = <<>> /\ reg.sent = <<>> /\ ~timedOut
TruthAtRest ==
  AtRest =>
    \A l \in Listeners :
      reg.phase[l] = "in" =>
        LET u == owner[ServiceOf[l]]
        IN reg.told[l] = "AVAILABLE" <=> u # None /\ ObjectOf[l] \in exports[u]

(* The record of an interface stands between its listeners, who were told  *)
(* what it says, and the cache of what the service announced; at rest that *)
(* is the truth.                                                           *)
ListenersInformed == ListenersAgree /\ AnnouncedIsCached /\ TruthAtRest

(* The records of owners follow the names and caches: they list what each  *)
(* owner owns, and watch it as long as something of it is cached, whatever *)
(* order owner changes, replies and path requests come in.                 *)
OwnersTracked == OwnersAgree /\ CachedIsWatched
=============================================================================

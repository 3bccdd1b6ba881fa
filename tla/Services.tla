------------------------------ MODULE Services ------------------------------
(* How a process offers services: Factory with its tables of connections   *)
(* and services, the DBusObjectManager of each connection with its         *)
(* DBusObjectManagerStubs, and what DBusConnection counts for them (bus     *)
(* names, object paths, users).                                            *)
(*                                                                         *)
(* Threads of the application register and unregister stubs, create and    *)
(* destroy proxies; the dispatch thread of a connection looks up the        *)
(* adapter of a call and runs its handler, which may do the same.  Each    *)
(* operation takes several steps, between which the others run as far as   *)
(* servicesMutex_, connectionsMutex_ and objectPathLock_ let them.         *)
EXTENDS Integers, FiniteSets, Sequences, SequencesExt, Functions

CONSTANTS
  Adapters,     \* DBusStubAdapter objects: each is created and registered once
  Addresses,    \* CommonAPI addresses
  AddressOf,    \* [Adapters -> Addresses]
  PathOf,       \* [Addresses -> Paths]: the object path of an address
  NameOf,       \* [Addresses -> Names]: the bus name of an address
  Paths, Names,
  Root,         \* the path "/", where every connection has an object manager
  Managed,      \* adapters that registerManagedService registers
  Managing,     \* adapters of managing interfaces
  Properties,   \* adapters with org.freedesktop.DBus.Properties
  Threads,      \* threads of the application
  Connections,  \* 1..n: the connections that are opened one after the other
  DispatcherOf, \* [Connections -> the dispatch threads]
  Creators,     \* the threads that call getConnection
  MaxProxies,   \* bound: proxies alive
  MaxFailures,  \* bound: signals libdbus cannot send, names the bus cannot release
  None

Dispatchers == {DispatcherOf[g] : g \in Connections}
Actors == Threads \cup Dispatchers

ASSUME ServicesAssumption ==
  /\ AddressOf \in [Adapters -> Addresses]
  /\ PathOf \in [Addresses -> Paths] /\ Root \notin Paths
  /\ NameOf \in [Addresses -> Names]
  /\ Managed \subseteq Adapters /\ Managing \subseteq Adapters
  /\ IsFiniteSet(Adapters) /\ IsFiniteSet(Addresses) /\ IsFiniteSet(Threads)
  /\ IsFiniteSet(Connections) /\ Connections = 1..Cardinality(Connections)
  /\ DispatcherOf \in [Connections -> Dispatchers]
  /\ Threads \cap Dispatchers = {} /\ Creators \subseteq Actors
  /\ None \notin Adapters \cup Addresses \cup Actors
  /\ Addresses \cap {"ObjectManager", "Properties"} = {}
  /\ MaxProxies \in Nat /\ MaxFailures \in Nat

VARIABLES
  current,         \* Factory: connections_ (0: empty)
  services,        \* Factory: services_
  servicesMutex,   \* the thread that holds servicesMutex_
  connectionsMutex,\* the thread that holds connectionsMutex_
  manager,         \* DBusObjectManager of each connection
  conn,            \* DBusConnection: counters and state
  home,            \* the connection of each adapter (0: not created yet)
  destroyed,       \* adapters whose destructor ran
  proxies,         \* proxies alive on each connection
  handling,        \* the adapter whose handler a dispatch thread runs
  proc,            \* what each thread is doing
  owner,           \* the bus: who owns each name
  heard,           \* the peers: what was announced at "/" and not withdrawn
  promised,        \* adapters registered with success, not unregistered since
  tainted,         \* addresses hit by one of the events described below
  failures

vars == <<current, services, servicesMutex, connectionsMutex, manager, conn, home,
          destroyed, proxies, handling, proc, owner, heard, promised, tainted, failures>>

busVars == <<owner, heard>>
mutexes == <<servicesMutex, connectionsMutex>>

Idle == [pc |-> "idle", adapter |-> None, address |-> None, conn |-> 0, after |-> "drop"]
NewManager ==
  [table |-> [x \in Addresses |-> <<>>],     \* dbusRegisteredObjectsTable_
   properties |-> [p \in Paths |-> <<>>],    \* its entries for Properties stubs
   count |-> [p \in Paths |-> 0],            \* managerStubs_: references
   exported |-> [p \in Paths \cup {Root} |-> {}]]  \* registeredDBusObjectPathsMap_
NewConnection ==
  [active |-> 0, open |-> FALSE, closing |-> FALSE, closer |-> None,
   names |-> [n \in Names |-> 0],            \* connectionNameCount_
   paths |-> [p \in Paths |-> 0]]            \* libdbusRegisteredObjectPaths_

Init ==
  /\ current = 0
  /\ services = [x \in Addresses |-> None]
  /\ servicesMutex = None /\ connectionsMutex = None
  /\ manager = [g \in Connections |-> NewManager]
  /\ conn = [g \in Connections |-> NewConnection]
  /\ home = [a \in Adapters |-> 0]
  /\ destroyed = {}
  /\ proxies = [g \in Connections |-> 0]
  /\ handling = [g \in Connections |-> None]
  /\ proc = [t \in Actors |-> Idle]
  /\ owner = [n \in Names |-> 0]             \* 0: no connection of this process
  /\ heard = [g \in Connections |-> {}]
  /\ promised = {} /\ tainted = {} /\ failures = 0

-----------------------------------------------------------------------------
(* Tables.                                                                 *)

\* The adapters that some table, container or other thread still refers to.
Referenced(t) ==
  Range(services) \cup Range(handling)
    \cup {proc[u].adapter : u \in Actors \ {t}}
    \cup UNION {Range(manager[g].table[x]) : g \in Connections, x \in Addresses}
    \cup UNION {Range(manager[g].properties[p]) : g \in Connections, p \in Paths}
    \cup UNION {manager[g].exported[p] : g \in Connections, p \in Paths \cup {Root}}

\* addDBusInterfaceHandler, removeDBusInterfaceHandler: several adapters may
\* have the same path and interface.
AddToRegisteredObjectsTable(handlers, a) == Append(handlers, a)
AddHandler(handlers, a) ==
  IF a \in Range(handlers) THEN handlers ELSE AddToRegisteredObjectsTable(handlers, a)
RemoveHandler(handlers, a) ==
  IF a \in Range(handlers)
    THEN RemoveAt(handlers, CHOOSE i \in DOMAIN handlers : handlers[i] = a) ELSE handlers

\* registerDBusStubAdapter of DBusObjectManager: a new adapter is in no list
\* yet, so it is always added; every registration gets a Properties stub of
\* its own, and the managing adapters of a path share a manager stub.
Entered(m, a) ==
  LET x == AddressOf[a]
      p == PathOf[x]
  IN [m EXCEPT !.table[x] = AddHandler(@, a),
               !.properties[p] = IF a \in Properties THEN AddHandler(@, a) ELSE @,
               !.count[p] = IF a \in Managing THEN @ + 1 ELSE @]

\* unregisterDBusStubAdapter succeeds if somebody is registered under the path
\* and interface of the adapter.
Leaves(m, a) ==
  /\ m.table[AddressOf[a]] # <<>>
  /\ a \in Managing => m.count[PathOf[AddressOf[a]]] > 0

\* What it takes out, also when it fails: the adapter, and with the last
\* managing adapter of the path the manager stub.  The Properties stub stays.
Left(m, a) ==
  LET x == AddressOf[a]
      p == PathOf[x]
      managing == a \in Managing /\ m.table[x] # <<>> /\ m.count[p] > 0
  IN [m EXCEPT !.table[x] = RemoveHandler(@, a),
               !.count[p] = IF managing THEN @ - 1 ELSE @,
               !.exported[p] = IF managing /\ m.count[p] = 1 THEN {} ELSE @]

\* registerObjectPath, unregisterObjectPath.
PathUsed(c, x) == [c EXCEPT !.paths[PathOf[x]] = @ + 1]
PathDropped(c, x) == \* mutant: the path goes with the first interface
  [c EXCEPT !.paths[PathOf[x]] = 0]
PathUnused(c, x) == [c EXCEPT !.paths[PathOf[x]] = IF @ > 0 THEN @ - 1 ELSE 0]

-----------------------------------------------------------------------------
(* Connections.                                                            *)

\* unregisterStub and unregisterManagedService unlock servicesMutex_ before they
\* call decrementConnection.
UnlockLater == \* mutant: never unlocked
  UNCHANGED servicesMutex
Unlock == servicesMutex' = None

Goto(t, state) == proc' = [proc EXCEPT ![t] = state]

\* getConnection: the open connection, or a new one; its users are counted.
GetConnectionUncounted(t, g) == \* mutant: counted only when it is opened
  /\ t \in Creators /\ connectionsMutex = None
  /\ g \in Connections
  /\ IF current # 0 THEN g = current
       ELSE /\ ~conn[g].open /\ ~conn[g].closing
            /\ \A h \in Connections : h < g => conn[h].closing
  /\ current' = g
  /\ conn' = [conn EXCEPT ![g].active = IF current # 0 THEN @ ELSE 1, ![g].open = TRUE]
GetConnection(t, g) ==
  /\ t \in Creators /\ connectionsMutex = None
  /\ g \in Connections
  /\ IF current # 0 THEN g = current
       ELSE /\ ~conn[g].open /\ ~conn[g].closing
            /\ \A h \in Connections : h < g => conn[h].closing
  /\ current' = g
  /\ conn' = [conn EXCEPT ![g].active = @ + 1, ![g].open = TRUE]

\* decrementConnection of the Factory: with the last user, the connection is
\* taken out of connections_ and disconnected, under connectionsMutex_.
Decrement(t) ==
  LET g == proc[t].conn
      last == conn[g].active <= 1
  IN /\ proc[t].pc = "decrement" /\ connectionsMutex = None
     /\ IF current # g
          THEN /\ Goto(t, [proc[t] EXCEPT !.pc = proc[t].after])
               /\ UNCHANGED <<current, conn, connectionsMutex>>
          ELSE /\ conn' = [conn EXCEPT ![g].active = @ - 1, ![g].closing = last,
                             ![g].names = IF last THEN [n \in Names |-> 0] ELSE @]
               /\ current' = IF last THEN 0 ELSE g
               /\ connectionsMutex' = IF last THEN t ELSE None
               /\ Goto(t, [proc[t] EXCEPT !.pc = IF last THEN "close" ELSE proc[t].after])
     /\ UNCHANGED <<services, servicesMutex, manager, home, destroyed, proxies,
                    handling, busVars, promised, tainted, failures>>

\* disconnect() waits until nothing is dispatched, unless it is called from
\* the dispatch thread, closes the connection and joins the thread.  The bus
\* takes the names back.
Close(t) ==
  LET g == proc[t].conn
      d == DispatcherOf[g]
  IN /\ proc[t].pc = "close"
     /\ t = d \/ (handling[g] = None /\ proc[d] = Idle)
     /\ conn' = [conn EXCEPT ![g].open = FALSE, ![g].closer = t]
     /\ owner' = [n \in Names |-> IF owner[n] = g THEN 0 ELSE owner[n]]
     /\ heard' = [heard EXCEPT ![g] = {}]
     /\ connectionsMutex' = None
     /\ Goto(t, [proc[t] EXCEPT !.pc = proc[t].after])
     /\ UNCHANGED <<current, services, servicesMutex, manager, home, destroyed,
                    proxies, handling, promised, tainted, failures>>

\* Factory::createProxy and the end of ~DBusProxy.
CreateProxy(t, g) ==
  /\ proc[t] = Idle
  /\ GetConnection(t, g)
  /\ proxies[g] < MaxProxies
  /\ proxies' = [proxies EXCEPT ![g] = @ + 1]
  /\ UNCHANGED <<services, mutexes, manager, home, destroyed, handling, proc,
                 busVars, promised, tainted, failures>>

DestroyProxy(t, g) ==
  /\ proc[t] = Idle /\ proxies[g] > 0
  /\ proxies' = [proxies EXCEPT ![g] = @ - 1]
  /\ Goto(t, [Idle EXCEPT !.pc = "decrement", !.conn = g])
  /\ UNCHANGED <<current, services, mutexes, manager, conn, home, destroyed,
                 handling, busVars, promised, tainted, failures>>

-----------------------------------------------------------------------------
(* Registration.  registerStubAdapter holds servicesMutex_ all the time.   *)

At(t, pc) == proc[t].pc = pc
Move(t, pc) == Goto(t, [proc[t] EXCEPT !.pc = pc])
Owning(t, pc) == At(t, pc) /\ servicesMutex = t

\* registerStub: connection and adapter.
RegisterStub(t, a) ==
  /\ proc[t] = Idle /\ home[a] = 0 /\ a \notin Managed
  /\ \E g \in Connections :
       /\ GetConnection(t, g)
       /\ home' = [home EXCEPT ![a] = g]
       /\ Goto(t, [pc |-> "insert", adapter |-> a, address |-> AddressOf[a],
                   conn |-> g, after |-> "return"])
  /\ UNCHANGED <<services, mutexes, manager, destroyed, proxies, handling,
                 busVars, promised, tainted, failures>>

\* registerStubAdapter: whether an adapter was inserted is not looked at.
Insert(t) ==
  LET x == proc[t].address
  IN /\ At(t, "insert") /\ servicesMutex = None
     /\ servicesMutex' = t
     /\ services' = IF services[x] = None
                      THEN [services EXCEPT ![x] = proc[t].adapter] ELSE services
     /\ tainted' = IF services[x] = None THEN tainted ELSE tainted \cup {x}
     /\ Move(t, "export")
     /\ UNCHANGED <<current, connectionsMutex, manager, conn, home, destroyed,
                    proxies, handling, busVars, promised, failures>>

\* libdbus fails to send a signal, or the bus to release a name.
Fail(x) == /\ failures < MaxFailures
           /\ failures' = failures + 1 /\ tainted' = tainted \cup {x}
Works == UNCHANGED <<failures, tainted>>

\* What an adapter offers: the interface of its address and, if it is managing,
\* ObjectManager.  Its Properties are announced too, but never withdrawn, and
\* GetManagedObjects does not list them.
Interfaces(a) ==
  {[path |-> PathOf[AddressOf[a]], interface |-> i] :
     i \in {AddressOf[a]} \cup (IF a \in Managing THEN {"ObjectManager"} ELSE {})}
PropertiesOf(a) ==
  IF a \in Properties
    THEN {[path |-> PathOf[AddressOf[a]], interface |-> "Properties"]} ELSE {}

\* The answer to GetManagedObjects of the object manager stub of path p.
GetManagedObjects(g, p) == UNION {Interfaces(a) : a \in manager[g].exported[p]}

\* The answer to Introspect: the interfaces of a path, and the nodes below "/"
\* (a path stands for the nodes that lead to it).
Introspect(g, p) ==
  {x \in Addresses : PathOf[x] = p /\ manager[g].table[x] # <<>>}
    \cup (IF manager[g].count[p] > 0 THEN {"ObjectManager"} ELSE {})
    \cup (IF manager[g].properties[p] # <<>> THEN {"Properties"} ELSE {})
IntrospectRoot(g) == {p \in Paths : Introspect(g, p) # {}}

\* registerDBusStubAdapter, unregisterDBusStubAdapter of the object manager
\* stub of path p at connection g, and its signals; peers follow those of "/".
IsExported(g, p, a) == a \in manager[g].exported[p]
List(g, p, a) == manager' = [manager EXCEPT ![g].exported[p] = @ \cup {a}]
Unlisted(g, p, a) == manager' = [manager EXCEPT ![g].exported[p] = @ \ {a}]
EmitInterfacesAdded(g, p, a) ==
  heard' = IF p = Root /\ conn[g].open
             THEN [heard EXCEPT ![g] = @ \cup Interfaces(a) \cup PropertiesOf(a)] ELSE heard
EmitInterfacesRemovedPartly(g, p, a) == \* mutant: ObjectManager stays announced
  heard' = IF p = Root /\ conn[g].open
             THEN [heard EXCEPT ![g] = @ \ {[path |-> PathOf[AddressOf[a]],
                                            interface |-> AddressOf[a]]}] ELSE heard
EmitInterfacesRemoved(g, p, a) ==
  heard' = IF p = Root /\ conn[g].open
             THEN [heard EXCEPT ![g] = @ \ Interfaces(a)] ELSE heard

\* exportManagedDBusStubAdapter: an adapter that is listed already is not
\* announced again; it is taken off the list if the signal cannot be sent.
Export(g, p, a, done) ==
  \/ done /\ IsExported(g, p, a) /\ Works /\ UNCHANGED <<manager, heard>>
  \/ done /\ ~IsExported(g, p, a) /\ Works
       /\ List(g, p, a) /\ EmitInterfacesAdded(g, p, a)
  \/ ~done /\ ~IsExported(g, p, a) /\ conn[g].open
       /\ Fail(AddressOf[a]) /\ UNCHANGED <<manager, heard>>

\* unexportManagedDBusStubAdapter: a signal that cannot be sent puts the
\* adapter back into the list.
Unexport(g, p, a, done) ==
  \/ done /\ IsExported(g, p, a) /\ Works
       /\ Unlisted(g, p, a) /\ EmitInterfacesRemoved(g, p, a)
  \/ ~done /\ IsExported(g, p, a) /\ conn[g].open
       /\ Fail(AddressOf[a]) /\ UNCHANGED <<manager, heard>>
  \/ ~done /\ ~IsExported(g, p, a) /\ Works /\ UNCHANGED <<manager, heard>>

ExportStub(t) ==
  /\ Owning(t, "export")
  /\ \E done \in BOOLEAN :
       /\ Export(proc[t].conn, Root, proc[t].adapter, done)
       /\ Move(t, IF done THEN "enter" ELSE "retract")
  /\ UNCHANGED <<current, services, mutexes, conn, home, destroyed, proxies,
                 handling, owner, promised>>

Enter(t) ==
  LET g == proc[t].conn
  IN /\ Owning(t, "enter")
     /\ manager' = [manager EXCEPT ![g] = Entered(@, proc[t].adapter)]
     /\ conn' = [conn EXCEPT ![g] = PathUsed(@, proc[t].address)]
     /\ Move(t, "request")
     /\ UNCHANGED <<current, services, mutexes, home, destroyed, proxies, handling,
                    busVars, promised, tainted, failures>>

\* requestServiceNameAndBlock: the bus is asked for the first of the stubs
\* that share a name, and refuses it if another process has it.  With the name
\* the registration has succeeded; a managed service counts its connection then.
RequestName(t) ==
  LET g == proc[t].conn
      a == proc[t].adapter
      n == NameOf[proc[t].address]
      first == conn[g].names[n] = 0
  IN /\ Owning(t, "request")
     /\ \E taken \in BOOLEAN :
          LET refused == first /\ (taken \/ owner[n] \notin {0, g} \/ ~conn[g].open)
              done == ~refused /\ a \notin Managed
          IN /\ owner' = IF first /\ ~refused THEN [owner EXCEPT ![n] = g] ELSE owner
             /\ conn' = IF refused THEN conn ELSE [conn EXCEPT ![g].names[n] = @ + 1]
             /\ servicesMutex' = IF done THEN None ELSE t
             /\ promised' = IF done THEN promised \cup {a} ELSE promised
             /\ Move(t, CASE done -> "drop"
                          [] ~refused /\ ~done -> "count"
                          [] refused /\ a \notin Managed -> "unexport"
                          [] refused /\ a \in Managed -> "withdraw")
     /\ UNCHANGED <<current, services, connectionsMutex, manager, home, destroyed, proxies,
                    handling, heard, tainted, failures>>

\* incrementConnection: nothing is counted if the connection has been closed.
CountManaged(t) ==
  LET g == proc[t].conn
  IN /\ Owning(t, "count") /\ connectionsMutex = None
     /\ conn' = IF current = g THEN [conn EXCEPT ![g].active = @ + 1] ELSE conn
     /\ tainted' = IF current = g THEN tainted ELSE tainted \cup {proc[t].address}
     /\ servicesMutex' = None
     /\ promised' = promised \cup {proc[t].adapter}
     /\ Move(t, "drop")
     /\ UNCHANGED <<current, services, connectionsMutex, manager, home, destroyed, proxies,
                    handling, busVars, failures>>

\* The name was refused: the steps are undone, those of registerStub in the
\* order unexport, unregister, unregisterManagedService, erase.
RollbackExport(t) ==
  /\ Owning(t, "unexport")
  /\ \E done \in BOOLEAN : Unexport(proc[t].conn, Root, proc[t].adapter, done)
  /\ Move(t, "withdraw")
  /\ UNCHANGED <<current, services, mutexes, conn, home, destroyed, proxies,
                 handling, owner, promised>>

Withdraw(t) ==
  LET g == proc[t].conn
      a == proc[t].adapter
  IN /\ Owning(t, "withdraw")
     /\ manager' = [manager EXCEPT ![g] = Left(@, a)]
     /\ conn' = IF Leaves(manager[g], a)
                  THEN [conn EXCEPT ![g] = PathUnused(@, proc[t].address)] ELSE conn
     /\ Goto(t, [proc[t] EXCEPT !.pc = IF a \in Managed THEN "erase" ELSE "retract",
                                !.after = "erase"])
     /\ UNCHANGED <<current, services, mutexes, home, destroyed, proxies, handling,
                    busVars, promised, tainted, failures>>

\* unregisterManagedService of the address: it releases the name of whatever
\* adapter is found, if somebody is registered under its path and interface.
NameReleasedUnchecked(c, n) == \* mutant: also when nothing is counted
  [c EXCEPT !.names[n] = @ - 1]
NameReleased(c, n) ==
  [c EXCEPT !.names[n] = IF @ > 0 THEN @ - 1 ELSE 0]
RetractedKept(x) == \* mutant: the entry of services_ stays
  LET a == services[x]
      g == home[a]
      n == NameOf[x]
      last == conn[g].names[n] = 1
  IN /\ manager' = [manager EXCEPT ![g] = Left(@, a)]
     /\ UNCHANGED services
     /\ \/ /\ conn' = [conn EXCEPT ![g] = NameReleased(PathUnused(@, x), n)]
           /\ owner' = IF last /\ owner[n] = g THEN [owner EXCEPT ![n] = 0] ELSE owner
           /\ Works
        \/ /\ last /\ Fail(x)
           /\ conn' = [conn EXCEPT ![g] = PathUnused(@, x)]
           /\ UNCHANGED owner
Retracted(x) ==
  LET a == services[x]
      g == home[a]
      n == NameOf[x]
      last == conn[g].names[n] = 1
  IN /\ manager' = [manager EXCEPT ![g] = Left(@, a)]
     /\ services' = [services EXCEPT ![x] = None]
     /\ \/ /\ conn' = [conn EXCEPT ![g] = NameReleased(PathUnused(@, x), n)]
           /\ owner' = IF last /\ owner[n] = g THEN [owner EXCEPT ![n] = 0] ELSE owner
           /\ Works
        \/ /\ last /\ Fail(x)
           /\ conn' = [conn EXCEPT ![g] = PathUnused(@, x)]
           /\ UNCHANGED owner

Retract(t) ==
  LET x == proc[t].address
      a == services[x]
      alone == proc[t].after = "drop"     \* not part of registerStubAdapter
  IN /\ Owning(t, "retract")
     /\ IF a # None /\ Leaves(manager[home[a]], a)
          THEN /\ Retracted(x)
               /\ IF alone THEN Unlock ELSE UNCHANGED servicesMutex
               /\ Goto(t, [proc[t] EXCEPT !.pc = "decrement", !.conn = home[a]])
          ELSE /\ manager' = IF a # None THEN [manager EXCEPT ![home[a]] = Left(@, a)]
                               ELSE manager
               /\ Move(t, IF alone THEN "return" ELSE proc[t].after)
               /\ UNCHANGED <<services, servicesMutex, conn, owner>> /\ Works
     /\ UNCHANGED <<current, connectionsMutex, home, destroyed, proxies, handling,
                    heard, promised>>

Erase(t) ==
  /\ Owning(t, "erase")
  /\ services' = [services EXCEPT ![proc[t].address] = None]
  /\ servicesMutex' = None
  /\ Move(t, "drop")
  /\ UNCHANGED <<current, connectionsMutex, manager, conn, home, destroyed, proxies,
                 handling, busVars, promised, tainted, failures>>

Return(t) ==
  /\ Owning(t, "return")
  /\ servicesMutex' = None
  /\ Move(t, "drop")
  /\ UNCHANGED <<current, services, connectionsMutex, manager, conn, home, destroyed,
                 proxies, handling, busVars, promised, tainted, failures>>

\* registerManagedService: the connection is that of the managing stub, and
\* is counted only after the name was acquired.
RegisterManaged(t, a, parent) ==
  /\ proc[t] = Idle /\ t \in Creators /\ home[a] = 0 /\ a \in Managed
  /\ parent \in promised \cap Managing
  /\ home' = [home EXCEPT ![a] = home[parent]]
  /\ Goto(t, [pc |-> "enlist", adapter |-> a, address |-> AddressOf[a],
              conn |-> home[parent], after |-> "drop"])
  /\ UNCHANGED <<current, services, mutexes, manager, conn, destroyed, proxies,
                 handling, busVars, promised, tainted, failures>>

Enlist(t) ==
  LET x == proc[t].address
      g == proc[t].conn
  IN /\ At(t, "enlist") /\ servicesMutex = None
     /\ IF services[x] = None
          THEN /\ servicesMutex' = t
               /\ services' = [services EXCEPT ![x] = proc[t].adapter]
               /\ manager' = [manager EXCEPT ![g] = Entered(@, proc[t].adapter)]
               /\ conn' = [conn EXCEPT ![g] = PathUsed(@, x)]
               /\ Move(t, "request")
          ELSE /\ Move(t, "drop")
               /\ UNCHANGED <<services, servicesMutex, manager, conn>>
     /\ UNCHANGED <<current, connectionsMutex, home, destroyed, proxies, handling,
                    busVars, promised, tainted, failures>>

\* exportManagedDBusStubAdapter, unexportManagedDBusStubAdapter of the object
\* manager, for the managing stubs of path p.
ExportManaged(t, p, a) ==
  /\ proc[t] = Idle /\ a \in promised \cap Managed
  /\ manager[home[a]].count[p] > 0
  /\ \E done \in BOOLEAN : Export(home[a], p, a, done)
  /\ UNCHANGED <<current, services, mutexes, conn, home, destroyed, proxies, handling,
                 proc, owner, promised>>

UnexportManaged(t, p, a) ==
  /\ proc[t] = Idle /\ a \in Managed \ destroyed /\ home[a] # 0
  /\ manager[home[a]].count[p] > 0 /\ a \in manager[home[a]].exported[p]
  /\ \E done \in BOOLEAN : Unexport(home[a], p, a, done)
  /\ Goto(t, [Idle EXCEPT !.pc = "drop", !.adapter = a])
  /\ UNCHANGED <<current, services, mutexes, conn, home, destroyed, proxies, handling,
                 owner, promised>>

\* unregisterManagedService, called with the adapter in hand.
UnregisterManaged(t, a) ==
  /\ proc[t] = Idle /\ a \in Managed \cap promised
  /\ Goto(t, [pc |-> "unlist", adapter |-> a, address |-> AddressOf[a], conn |-> 0,
              after |-> "drop"])
  /\ UNCHANGED <<current, services, mutexes, manager, conn, home, destroyed, proxies,
                 handling, busVars, promised, tainted, failures>>

\* What it finds under the address may be a stub that was registered since the
\* service was unregistered by another thread.
Unlist(t) ==
  LET x == proc[t].address
      a == services[x]
  IN /\ At(t, "unlist") /\ servicesMutex = None
     /\ servicesMutex' = t
     /\ promised' = promised \ {a}
     /\ tainted' = IF a \in Managed \cup {None} THEN tainted ELSE tainted \cup {x}
     /\ Move(t, "retract")
     /\ UNCHANGED <<current, services, connectionsMutex, manager, conn, home, destroyed,
                    proxies, handling, busVars, failures>>

-----------------------------------------------------------------------------
(* Unregistration.                                                         *)

\* The application unregisters an address.
UnregisterStub(t, x) ==
  /\ proc[t] = Idle /\ services[x] # None
  /\ Goto(t, [Idle EXCEPT !.pc = "unregister", !.address = x])
  /\ UNCHANGED <<current, services, mutexes, manager, conn, home, destroyed, proxies,
                 handling, busVars, promised, tainted, failures>>

\* unregisterStub up to the object manager, for the adapter that is found under
\* the address.  A managed service is taken out of the object manager only: it
\* is not listed at "/".  ~DBusStubAdapter does the same.
Leave(t) ==
  LET x == proc[t].address
      a == services[x]
      g == home[a]
      leaves == Leaves(manager[g], a)
  IN /\ proc[t].pc \in {"unregister", "destroy"} /\ servicesMutex = None
     /\ IF a = None
          THEN Goto(t, Idle) /\ UNCHANGED <<servicesMutex, manager, conn, promised, tainted>>
          ELSE /\ servicesMutex' = t
               /\ manager' = [manager EXCEPT ![g] = Left(@, a)]
               /\ conn' = IF leaves THEN [conn EXCEPT ![g] = PathUnused(@, x)] ELSE conn
               /\ Goto(t, [pc |-> IF leaves THEN "release" ELSE "return", adapter |-> a,
                           address |-> x, conn |-> g, after |-> "drop"])
               /\ promised' = IF At(t, "destroy") THEN promised
                                ELSE {b \in promised : AddressOf[b] # x}
               /\ tainted' = IF At(t, "destroy") \/ a \in Managed
                               THEN tainted \cup {x} ELSE tainted
     /\ UNCHANGED <<current, services, connectionsMutex, home, destroyed, proxies,
                    handling, busVars, failures>>

\* releaseServiceName: unregisterStub gives up if the bus does not release it.
Release(t) ==
  LET g == proc[t].conn
      n == NameOf[proc[t].address]
      counted == conn[g].names[n] > 0
      last == conn[g].names[n] = 1
  IN /\ Owning(t, "release")
     /\ \/ /\ counted
           /\ conn' = [conn EXCEPT ![g] = NameReleased(@, n)]
           /\ owner' = IF last /\ owner[n] = g THEN [owner EXCEPT ![n] = 0] ELSE owner
           /\ Move(t, "leave")
           /\ Works
        \/ /\ ~counted \/ last
           /\ IF counted THEN Fail(proc[t].address) ELSE Works
           /\ Move(t, "return")
           /\ UNCHANGED <<conn, owner>>
     /\ UNCHANGED <<current, services, mutexes, manager, home, destroyed, proxies,
                    handling, heard, promised>>

\* unregisterStubAdapter, and the entry of services_ if that succeeds.
Forget(t) ==
  /\ Owning(t, "leave")
  /\ \E done \in BOOLEAN :
       /\ Unexport(proc[t].conn, Root, proc[t].adapter, done)
       /\ services' = IF done THEN [services EXCEPT ![proc[t].address] = None]
                        ELSE services
       /\ Move(t, IF done THEN "decrement" ELSE "drop")
  /\ Unlock
  /\ UNCHANGED <<current, connectionsMutex, conn, home, destroyed, proxies, handling,
                 owner, promised>>

\* The thread lets go of its adapter.  If it was the last, ~DBusStubAdapter
\* runs, and unregisters whatever it finds under the address it had.
Drop(t) ==
  LET a == proc[t].adapter
  IN /\ At(t, "drop")
     /\ IF a = None \/ a \in Referenced(t)
          THEN Goto(t, Idle) /\ UNCHANGED destroyed
          ELSE /\ destroyed' = destroyed \cup {a}
               /\ Goto(t, [Idle EXCEPT !.pc = "destroy", !.address = AddressOf[a]])
     /\ UNCHANGED <<current, services, mutexes, manager, conn, home, proxies, handling,
                    busVars, promised, tainted, failures>>

-----------------------------------------------------------------------------
(* Calls of peers.                                                         *)

\* handleMessage: the first adapter of the path and interface gets the call.
\* setDispatching lets no dispatch begin on a connection that is closing.
Receive(g, x) ==
  /\ conn[g].open /\ ~conn[g].closing
  /\ handling[g] = None /\ proc[DispatcherOf[g]] = Idle
  /\ conn[g].paths[PathOf[x]] > 0 /\ manager[g].table[x] # <<>>
  /\ handling' = [handling EXCEPT ![g] = Head(manager[g].table[x])]
  /\ UNCHANGED <<current, services, mutexes, manager, conn, home, destroyed, proxies,
                 proc, busVars, promised, tainted, failures>>

\* The handler returns, and the dispatch thread lets go of the adapter.
Reply(g) ==
  LET d == DispatcherOf[g]
  IN /\ handling[g] # None /\ proc[d] = Idle
     /\ handling' = [handling EXCEPT ![g] = None]
     /\ Goto(d, [Idle EXCEPT !.pc = "drop", !.adapter = handling[g]])
     /\ UNCHANGED <<current, services, mutexes, manager, conn, home, destroyed, proxies,
                    busVars, promised, tainted, failures>>

-----------------------------------------------------------------------------
\* What a thread may begin: dispatch threads do so in a handler only.
May(t) == t \in Threads \/ \E g \in Connections : DispatcherOf[g] = t /\ handling[g] # None

Begin(t) ==
  /\ May(t)
  /\ \/ \E a \in Adapters : RegisterStub(t, a)
     \/ \E a, b \in Adapters : RegisterManaged(t, a, b)
     \/ \E p \in Paths, a \in Adapters : ExportManaged(t, p, a) \/ UnexportManaged(t, p, a)
     \/ \E x \in Addresses : UnregisterStub(t, x)
     \/ \E a \in Adapters : UnregisterManaged(t, a)
     \/ \E g \in Connections : CreateProxy(t, g) \/ DestroyProxy(t, g)

Continue(t) ==
  \/ Insert(t) \/ ExportStub(t) \/ Enter(t) \/ RequestName(t) \/ CountManaged(t)
  \/ RollbackExport(t) \/ Withdraw(t) \/ Retract(t) \/ Erase(t)
  \/ Return(t) \/ Release(t) \/ Forget(t) \/ Decrement(t) \/ Close(t)
  \/ Drop(t) \/ Leave(t) \/ Enlist(t) \/ Unlist(t)

Next ==
  \/ \E t \in Actors : Begin(t) \/ Continue(t)
  \/ \E g \in Connections, x \in Addresses : Receive(g, x)
  \/ \E g \in Connections : Reply(g)

Spec == Init /\ [][Next]_vars

-----------------------------------------------------------------------------
(* Properties.                                                             *)

Lines == {"idle", "insert", "export", "enter", "request", "count",
          "unexport", "withdraw", "retract", "erase", "return", "release", "leave",
          "decrement", "close", "drop", "destroy", "unregister", "enlist", "unlist"}

\* What the tables of a manager, a connection and a thread hold.
Manager ==
  [table : [Addresses -> Seq(Adapters)], properties : [Paths -> Seq(Adapters)],
   count : [Paths -> Nat], exported : [Paths \cup {Root} -> SUBSET Adapters]]
Connection ==
  [active : Int, open : BOOLEAN, closing : BOOLEAN, closer : Actors \cup {None},
   names : [Names -> Nat], paths : [Paths -> Nat]]
Process ==
  [pc : Lines, adapter : Adapters \cup {None}, address : Addresses \cup {None},
   conn : {0} \cup Connections, after : {"drop", "return", "erase"}]
Interface == [path : Paths, interface : Addresses \cup {"ObjectManager", "Properties"}]

\* Every variable has its type.
TypeOK ==
  /\ current \in {0} \cup Connections
  /\ services \in [Addresses -> Adapters \cup {None}]
  /\ servicesMutex \in Actors \cup {None} /\ connectionsMutex \in Actors \cup {None}
  /\ manager \in [Connections -> Manager]
  /\ conn \in [Connections -> Connection]
  /\ home \in [Adapters -> {0} \cup Connections] /\ destroyed \subseteq Adapters
  /\ proxies \in [Connections -> Nat]
  /\ handling \in [Connections -> Adapters \cup {None}]
  /\ proc \in [Actors -> Process]
  /\ owner \in [Names -> {0} \cup Connections]
  /\ heard \in [Connections -> SUBSET Interface]
  /\ promised \subseteq Adapters /\ tainted \subseteq Addresses
  /\ failures \in 0..MaxFailures

\* Nothing special happened to an address that shares a name or a path with x,
\* and no thread is registering or unregistering one.
Settled(x) ==
  \A y \in Addresses :
    NameOf[y] = NameOf[x] \/ PathOf[y] = PathOf[x]
      => y \notin tainted /\ \A t \in Actors : proc[t].address # y

Entry(x) == [path |-> PathOf[x], interface |-> x]
At_(x) == {a \in Adapters : AddressOf[a] = x}

\* A registered address is in every table, once, its object is registered with
\* libdbus, its name is owned and, unless it is a managed service, peers have
\* heard of it.
Offered(x) ==
  LET a == services[x]
      g == home[a]
  IN /\ a \in promised
     /\ manager[g].table[x] = <<a>>
     /\ conn[g].paths[PathOf[x]] > 0
     /\ conn[g].names[NameOf[x]] > 0 /\ owner[NameOf[x]] = g
     /\ a \notin Managed => a \in manager[g].exported[Root] /\ Entry(x) \in heard[g]
     /\ x \in Introspect(g, PathOf[x]) /\ PathOf[x] \in IntrospectRoot(g)
     /\ a \in Managing => "ObjectManager" \in Introspect(g, PathOf[x])

\* An address that is not registered has left no trace, except for the
\* Properties stubs.
Absent(x) ==
  /\ At_(x) \cap promised = {}
  /\ \A g \in Connections :
       /\ manager[g].table[x] = <<>>
       /\ manager[g].exported[Root] \cap At_(x) = {} /\ Entry(x) \notin heard[g]

\* The tables of Factory, of the object manager, of its root stub, of the
\* connection, the bus and the peers agree about each address once it is
\* settled, whatever registrations of other threads, refused names or closing
\* connections happened before (registerStubAdapter and unregisterStub).
TablesAgree ==
  \A x \in Addresses :
    Settled(x) => IF services[x] = None THEN Absent(x) ELSE Offered(x)

Users(g, S) == Cardinality({x \in S : services[x] # None /\ home[services[x]] = g})
OfPath(p) == {x \in Addresses : PathOf[x] = p}

\* What the peers' view is exact about: not Properties, which are never
\* withdrawn, and not the ObjectManager of a path that managing adapters of
\* several interfaces share, which is withdrawn with the first.
Followed(entries) ==
  {e \in entries :
     /\ e.interface # "Properties"
     /\ e.interface = "ObjectManager" =>
          Cardinality({AddressOf[a] : a \in Managing} \cap OfPath(e.path)) = 1}

\* What is counted: an interface is registered once, a path of libdbus has one
\* reference for every registered interface, a manager stub one for every
\* managing adapter of its path, a bus name one for every registered address.
\* Peers that follow the signals know what GetManagedObjects lists, and
\* Introspect describes the paths that libdbus routes to this process (and
\* Properties stubs that were left behind).
CountsExact ==
  \A g \in Connections :
    /\ \A p \in Paths : (\A x \in OfPath(p) : Settled(x)) =>
         /\ \A x \in OfPath(p) : Len(manager[g].table[x]) <= 1
         /\ conn[g].paths[p]
              = Cardinality({x \in OfPath(p) : manager[g].table[x] # <<>>})
         /\ manager[g].count[p]
              = Cardinality({x \in OfPath(p) :
                              \E i \in DOMAIN manager[g].table[x] :
                                manager[g].table[x][i] \in Managing})
         /\ conn[g].paths[p] > 0 <=> ~(Introspect(g, p) \subseteq {"Properties"})
    /\ \A n \in Names :
         LET S == {x \in Addresses : NameOf[x] = n}
         IN (\A x \in S : Settled(x)) /\ ~conn[g].closing
              => conn[g].names[n] = Users(g, S)
    /\ conn[g].open /\ tainted = {} =>
         Followed(heard[g]) = Followed(GetManagedObjects(g, Root))

\* A connection stays open as long as somebody uses it: proxies, and adapters
\* that are registered.  It is closed under a running handler only by the
\* handler itself (disconnect).
ConnectionKept ==
  /\ \A g \in Connections :
       /\ proxies[g] > 0 => current = g /\ conn[g].open /\ ~conn[g].closing
       /\ handling[g] # None /\ ~conn[g].open => conn[g].closer = DispatcherOf[g]
  /\ \A x \in Addresses : Settled(x) /\ services[x] # None =>
       LET g == home[services[x]]
       IN current = g /\ conn[g].open /\ ~conn[g].closing

\* All of it: registrations, unregistrations and their rollbacks leave exact
\* tables and exact counts, and the connection that they need.
RegistrationsAgree == TablesAgree /\ CountsExact /\ ConnectionKept

\* The thread that thread t waits for: the owner of a mutex, or a thread that
\* dispatches on the connection t closes.
WaitsFor(t) ==
  {u \in Actors \ {t} :
     \/ proc[t].pc \in {"insert", "enlist", "unlist", "unregister", "destroy"}
          /\ servicesMutex = u
     \/ proc[t].pc \in {"decrement", "count"} /\ connectionsMutex = u
     \/ proc[t].pc = "close" /\ u = DispatcherOf[proc[t].conn]
          /\ (handling[proc[t].conn] # None \/ proc[u] # Idle)}

\* The thread is about to count a user of a connection, or to take one off, that
\* Factory no longer has.
Late(t) == proc[t].pc \in {"count", "decrement"} /\ current # proc[t].conn

\* No threads wait for each other in a circle, and none for itself:
\* servicesMutex_, connectionsMutex_ and the end of the dispatch, for which
\* disconnect waits with connectionsMutex_ held (decrementConnection), are
\* never waited for in an order that closes one.  Handlers that get a connection
\* are left out (Creators), and so are threads that come late to a connection
\* somebody else has closed meanwhile: both wait for connectionsMutex_ while its
\* owner may wait for them.
NobodyStuck ==
  \A S \in SUBSET Actors :
    S # {} => \E t \in S : WaitsFor(t) \cap S = {} \/ Late(t)

=============================================================================

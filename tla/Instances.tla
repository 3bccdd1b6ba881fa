------------------------------ MODULE Instances ------------------------------
(***************************************************************************)
(* How a DBusProxyManager watches the instances that a remote manager has: *)
(* the event that tells its listeners about instances that come and go     *)
(* (DBusInstanceAvailabilityStatusChangedEvent) and the status queries     *)
(* (isServiceInstanceAlive).  Both are fed by the InterfacesAdded and      *)
(* InterfacesRemoved signals, on two ways: the registry keeps a cache from *)
(* which it answers the queries, the event keeps a table of its own, and   *)
(* the connection hands each signal to the registry first.                 *)
(*                                                                         *)
(* Threads: the application, which adds and removes listeners; one thread  *)
(* for each query; the loop, which dispatches what has arrived.  A service *)
(* process acquires the names, exports the instances and may die and start *)
(* again.  The registry is reduced to what the queries read: who owns a    *)
(* name, and one cached path per name and owner; the calls that resolve a  *)
(* path (the root's object manager, then the instance's) are one request.  *)
(* ServiceRegistry models these parts in detail.                           *)
(***************************************************************************)
EXTENDS Naturals, FiniteSets, Sequences, SequencesExt

CONSTANTS
  Instances,      \* the instances, each with a name and a path of its own
  Manager,        \* the name, and the path, of their manager
  Queries,        \* threads that ask for the status of an instance, once
  Listeners,      \* listeners of the event
  MaxGenerations, \* bound: how often the service is started
  MaxChanges,     \* bound: what the service does
  MaxToggles,     \* bound: additions and removals of listeners
  MaxFailures,    \* bound: calls that are given up
  None

Names == Instances \cup {Manager}
Generations == 1 .. MaxGenerations

ASSUME InstancesAssumption ==
  /\ IsFiniteSet(Instances) /\ Manager \notin Instances
  /\ MaxGenerations \in Nat \ {0} /\ MaxChanges \in Nat
  /\ MaxToggles \in Nat /\ MaxFailures \in Nat

VARIABLES
  service,      \* the service process: its generation, names and instances
  requests,     \* calls that are not answered
  inbox,        \* what the connection will dispatch, in the order of arrival
  turn,         \* which handlers get the signal at the head of the inbox
  reg,          \* the registry
  proxied,      \* the instances for which there is a proxy, too
  event,        \* the event
  query,        \* the queries
  holder,       \* a query that has left with dbusServicesMutex_ locked
  ended,        \* whether the client is beyond what can be modelled
  history       \* what the properties need to know

bus == <<service, requests, inbox>>
vars == <<bus, turn, reg, proxied, event, query, holder, ended, history>>

(* A cached path: whether the interface is listed, the calls it waits for, *)
(* and who may wait for its promise: nobody yet, a query that will not be  *)
(* told (it has taken the future itself), or one that will.                *)
Absent == [state |-> "absent", listed |-> FALSE, pending |-> 0, future |-> "none"]
Paths == [state : {"absent", "RESOLVING", "RESOLVED"}, listed : BOOLEAN,
          pending : 0 .. 255, future : {"none", "taken", "kept"}]

OwnerRequest(n) == [kind |-> "owner", name |-> n, gen |-> 0]
PathRequest(n, g) == [kind |-> "path", name |-> n, gen |-> g]
ListRequest == [kind |-> "list", name |-> Manager, gen |-> 0]
Request == [kind : {"owner", "path", "list"}, name : Names, gen : 0 .. MaxGenerations]

(* What arrives: a name has got or lost its owner, a path or a list has    *)
(* been answered, an instance has been added or removed.                   *)
Message == [kind : {"owned", "lost", "path", "list", "added", "removed"},
            gen : 0 .. MaxGenerations, names : SUBSET Names, found : SUBSET Names]
About(kind, g, n) == [kind |-> kind, gen |-> g, names |-> {n}, found |-> {}]
Answer(kind, g, n, found) == [kind |-> kind, gen |-> g, names |-> {n}, found |-> found]

(* A query: the path it has found, and whether that was dropped since; and *)
(* whether the instance was gone when it began (history).                  *)
Idle == [pc |-> "idle", instance |-> None, gen |-> 0, torn |-> FALSE, gone |-> FALSE,
         answer |-> FALSE]

Announced(kind, g, order) == [k \in DOMAIN order |-> About(kind, g, order[k])]

TypeOK ==
  /\ service \in [gen : 0 .. MaxGenerations, up : BOOLEAN,
                  names : SUBSET Names, managed : SUBSET Instances]
  /\ service.managed \subseteq service.names
  /\ requests \in Seq(Request) /\ inbox \in Seq(Message)
  /\ turn \in {"first", "second"}
  /\ turn = "second" => inbox # <<>> /\ Head(inbox).kind \in {"added", "removed"}
  /\ reg \in [owned : [Generations -> SUBSET Names], mapped : [Names -> 0 .. MaxGenerations],
              paths : [Generations -> [Instances -> Paths]], watched : SUBSET Generations]
  /\ proxied \subseteq Instances
  /\ event \in [pc : {"idle", "added", "removed"}, caller : Listeners \cup {None},
                installed : SUBSET {"added", "removed"}, listening : SUBSET Listeners,
                interfaces : SUBSET Instances, heard : [Listeners -> SUBSET Instances]]
  /\ query \in [Queries -> [pc : {"idle", "waiting", "thrown", "done"},
                            instance : Instances \cup {None}, gen : 0 .. MaxGenerations,
                            torn : BOOLEAN, gone : BOOLEAN, answer : BOOLEAN]]
  /\ holder \in Queries \cup {None}
  /\ ended \in {"no", "terminated", "undefined"}
  /\ history \in [unseen : SUBSET Instances, gone : SUBSET Instances,
                  since : [Listeners -> SUBSET Instances], failed : BOOLEAN,
                  doubled : SUBSET Instances, dropped : SUBSET Instances,
                  changes : Nat, toggles : Nat, failures : Nat]

(* The client may start while the service is up; it asks for the owners of *)
(* the names that its proxies wait for.                                    *)
Init ==
  /\ \E managed \in SUBSET Instances :
       service \in {[gen |-> 0, up |-> FALSE, names |-> {}, managed |-> {}],
                    [gen |-> 1, up |-> TRUE, names |-> {Manager} \cup managed,
                     managed |-> managed]}
  /\ proxied \in SUBSET Instances
  /\ requests = <<OwnerRequest(Manager)>>
                  \o SetToSeq({OwnerRequest(i) : i \in proxied})
  /\ inbox = <<>> /\ turn = "first"
  /\ reg = [owned |-> [g \in Generations |-> {}], mapped |-> [n \in Names |-> 0],
            paths |-> [g \in Generations |-> [i \in Instances |-> Absent]], watched |-> {}]
  /\ event = [pc |-> "idle", caller |-> None, installed |-> {}, listening |-> {},
              interfaces |-> {}, heard |-> [l \in Listeners |-> {}]]
  /\ query = [q \in Queries |-> Idle]
  /\ holder = None /\ ended = "no"
  /\ history = [unseen |-> {}, gone |-> {}, since |-> [l \in Listeners |-> {}],
                failed |-> FALSE, doubled |-> {}, dropped |-> {},
                changes |-> 0, toggles |-> 0, failures |-> 0]

-----------------------------------------------------------------------------
(* The service and the daemon, as the client sees them.                    *)

Running == ended = "no"
Change == Running /\ history.changes < MaxChanges

(* The manager comes first; some names may follow at once.                 *)
Start ==
  LET g == service.gen + 1
  IN /\ ~service.up /\ g <= MaxGenerations /\ Change
     /\ \E named \in SUBSET Instances :
          /\ service' = [gen |-> g, up |-> TRUE, names |-> {Manager} \cup named,
                         managed |-> {}]
          /\ \E order \in SetToSeqs(named) :
               inbox' = inbox \o Announced("owned", g, <<Manager>> \o order)
     /\ history' = [history EXCEPT !.changes = @ + 1]
     /\ UNCHANGED <<requests, turn, reg, proxied, event, query, holder, ended>>

(* An instance has its name before it is exported, and keeps it longer.    *)
Acquire(i) ==
  /\ service.up /\ i \notin service.names /\ Change
  /\ service' = [service EXCEPT !.names = @ \cup {i}]
  /\ inbox' = Append(inbox, About("owned", service.gen, i))
  /\ history' = [history EXCEPT !.changes = @ + 1]
  /\ UNCHANGED <<requests, turn, reg, proxied, event, query, holder, ended>>

Release(i) ==
  /\ i \in service.names \ service.managed /\ Change
  /\ service' = [service EXCEPT !.names = @ \ {i}]
  /\ inbox' = Append(inbox, About("lost", service.gen, i))
  /\ history' = [history EXCEPT !.changes = @ + 1]
  /\ UNCHANGED <<requests, turn, reg, proxied, event, query, holder, ended>>

(* A signal is delivered if the registry or the event has asked for it.    *)
Signalled(kind) == service.gen \in reg.watched \/ kind \in event.installed
Signal(kind, i) ==
  inbox' = IF Signalled(kind) THEN Append(inbox, About(kind, service.gen, i)) ELSE inbox

Export(i) ==
  /\ service.up /\ i \in service.names \ service.managed /\ Change
  /\ service' = [service EXCEPT !.managed = @ \cup {i}]
  /\ Signal("added", i)
  /\ query' = [q \in Queries |-> IF query[q].instance = i
                                   THEN [query[q] EXCEPT !.gone = FALSE] ELSE query[q]]
  /\ history' = [history EXCEPT !.changes = @ + 1, !.gone = @ \ {i}]
  /\ UNCHANGED <<requests, turn, reg, proxied, event, holder, ended>>

Unexport(i) ==
  /\ i \in service.managed /\ Change
  /\ service' = [service EXCEPT !.managed = @ \ {i}]
  /\ Signal("removed", i)
  /\ history' = [history EXCEPT !.changes = @ + 1,
                   !.unseen = IF "removed" \in event.installed THEN @ ELSE @ \cup {i}]
  /\ UNCHANGED <<requests, turn, reg, proxied, event, query, holder, ended>>

(* The process ends: the daemon takes its names away, in some order, and   *)
(* nobody says that the instances are gone.                                *)
Die ==
  /\ service.up /\ Change
  /\ service' = [service EXCEPT !.up = FALSE, !.names = {}, !.managed = {}]
  /\ \E order \in SetToSeqs(service.names) :
       inbox' = inbox \o Announced("lost", service.gen, order)
  /\ history' = [history EXCEPT !.changes = @ + 1, !.unseen = @ \cup service.managed]
  /\ UNCHANGED <<requests, turn, reg, proxied, event, query, holder, ended>>

(* Requests are answered in their order; one to a process that is gone, or *)
(* to a name without an owner, with an error, which counts as an empty     *)
(* answer.                                                                 *)
AnswerNext ==
  LET r == Head(requests)
      alive == service.up /\ (r.kind = "path" => r.gen = service.gen)
  IN /\ Running /\ requests # <<>>
     /\ requests' = Tail(requests)
     /\ inbox' = CASE r.kind = "owner" ->
                        IF r.name \in service.names
                          THEN Append(inbox, About("owned", service.gen, r.name)) ELSE inbox
                   [] r.kind = "path" ->
                        Append(inbox, Answer("path", r.gen, r.name,
                                             IF alive THEN service.managed \cap {r.name}
                                             ELSE {}))
                   [] r.kind = "list" ->
                        Append(inbox, Answer("list", 0, Manager, service.managed))
     /\ UNCHANGED <<service, turn, reg, proxied, event, query, holder, ended, history>>

(* The call that lists the instances takes too long.                       *)
GiveUp ==
  /\ Running /\ requests # <<>> /\ Head(requests).kind = "list"
  /\ history.failures < MaxFailures
  /\ requests' = Tail(requests)
  /\ inbox' = Append(inbox, Answer("list", 0, Manager, {}))
  /\ history' = [history EXCEPT !.failures = @ + 1, !.failed = TRUE]
  /\ UNCHANGED <<service, turn, reg, proxied, event, query, holder, ended>>

-----------------------------------------------------------------------------
(* The registry, under dbusServicesMutex_.                                 *)

Unlocked == holder = None

(* resolveObjectPathWithObjectManager.                                     *)
Resolving(entry) == [entry EXCEPT !.state = "RESOLVING", !.pending = (@ + 1) % 256]

(* getDBusObjectPathCacheReference: only the first path of an owner asks   *)
(* for the signals of its managers.  The manager's path is cached as long  *)
(* as its name is known.                                                   *)
Uncached(g) ==
  Manager \notin reg.owned[g] /\ \A i \in Instances : reg.paths[g][i].state = "absent"

(* onDBusServiceAvailable: names that a proxy waits for have their path    *)
(* cached.                                                                 *)
OnNameOwned(g, n) ==
  LET new == n \in proxied /\ reg.paths[g][n].state = "absent"
  IN /\ reg' = [reg EXCEPT
                  !.owned[g] = @ \cup {n},
                  !.mapped[n] = g,
                  !.paths[g] = [i \in Instances |-> IF new /\ i = n THEN Resolving(Absent)
                                                                   ELSE @[i]],
                  !.watched = IF (new \/ n = Manager) /\ Uncached(g)
                                THEN @ \cup {g} ELSE @]
     /\ requests' = IF new THEN Append(requests, PathRequest(n, g)) ELSE requests
     /\ UNCHANGED <<query, history>>

(* removeUniqueName: with its last name the record of the owner is erased, *)
(* else the paths cached for the name.  dbusServiceNameMap_ still points   *)
(* to the record, and a query to the path; the answer to a call for such a *)
(* path will be taken for one to the next call.                            *)
OnNameLost(g, n) ==
  LET last == reg.owned[g] \subseteq {n}
      dropped == {i \in Instances : n \in reg.owned[g] /\ (last \/ i = n)}
  IN /\ reg' = [reg EXCEPT
                  !.owned[g] = @ \ {n},
                  !.paths[g] = [i \in Instances |-> IF i \in dropped THEN Absent ELSE @[i]],
                  !.watched = IF last THEN @ \ {g} ELSE @]
     /\ query' = [q \in Queries |->
          IF query[q].pc = "waiting" /\ query[q].gen = g
               /\ query[q].instance \in dropped
            THEN [query[q] EXCEPT !.torn = TRUE] ELSE query[q]]
     /\ history' = [history EXCEPT !.dropped = @ \cup
          {i \in dropped : reg.paths[g][i].state = "RESOLVING"}]
     /\ UNCHANGED requests

\* mutant: the counter is taken down before the path is looked for
OnPathAnsweredAnyway(g, n, found) ==
  LET entry == reg.paths[g][n]
      pending == entry.pending - 1
  IN /\ reg' = [reg EXCEPT !.paths[g][n] =
                  [entry EXCEPT !.listed = @ \/ n \in found, !.pending = pending,
                                !.state = IF pending = 0 THEN "RESOLVED" ELSE @]]
     /\ UNCHANGED <<requests, query, history>>

(* onGetManagedObjectsCallbackResolve: what is listed is added, nothing is *)
(* ever taken away.                                                        *)
OnPathAnswered(g, n, found) ==
  LET entry == reg.paths[g][n]
      pending == (entry.pending + 255) % 256
  IN /\ reg' = IF entry.state = "absent" THEN reg
               ELSE [reg EXCEPT !.paths[g][n] =
                      [entry EXCEPT !.listed = @ \/ n \in found, !.pending = pending,
                                    !.state = IF pending = 0 THEN "RESOLVED" ELSE @]]
     /\ UNCHANGED <<requests, query, history>>

\* mutant: nothing is taken away
RegistryToldAdditions(kind, g, i) ==
  reg' = IF g \in reg.watched /\ reg.paths[g][i].state = "RESOLVED" /\ kind = "added"
           THEN [reg EXCEPT !.paths[g][i].listed = TRUE] ELSE reg

(* onSignalDBusMessage: a path that is being resolved ignores signals.     *)
RegistryTold(kind, g, i) ==
  reg' = IF g \in reg.watched /\ reg.paths[g][i].state = "RESOLVED"
           THEN [reg EXCEPT !.paths[g][i].listed = kind = "added"] ELSE reg

-----------------------------------------------------------------------------
(* The event.                                                              *)

(* notifyListeners waits for a listener that is being added (the event's   *)
(* base class holds a mutex during onFirstListenerAdded).                  *)
Settled == event.pc = "idle"

(* addInterface and removeInterface say whether anything changed; only     *)
(* then are the listeners notified.                                        *)
Added(is) ==
  event' = [event EXCEPT
    !.interfaces = @ \cup is,
    !.heard = [l \in Listeners |-> IF l \in event.listening
                                     THEN @[l] \cup (is \ event.interfaces) ELSE @[l]]]
Removed(i) ==
  event' = [event EXCEPT
    !.interfaces = @ \ {i},
    !.heard = [l \in Listeners |-> IF l \in event.listening /\ i \in event.interfaces
                                     THEN @[l] \ {i} ELSE @[l]]]

(* Whether listeners learn that an instance is gone, and it is.            *)
TellsGone(i) ==
  /\ i \in event.interfaces \ service.managed
  /\ "removed" \in event.installed /\ event.listening # {}
  /\ \A k \in DOMAIN inbox :
       i \notin inbox[k].found /\ (inbox[k].kind = "added" => i \notin inbox[k].names)

(* onInterfacesAddedSignal, onInterfacesRemovedSignal.                     *)
EventTold(kind, i) ==
  /\ Settled
  /\ IF kind \notin event.installed THEN UNCHANGED event
     ELSE IF kind = "added" THEN Added({i}) ELSE Removed(i)
  /\ history' = [history EXCEPT
       !.gone = IF kind = "removed" /\ TellsGone(i) THEN @ \cup {i} ELSE @,
       !.unseen = IF kind = "removed" /\ kind \notin event.installed
                    THEN @ \cup {i} ELSE @]

-----------------------------------------------------------------------------
(* The loop dispatches what has arrived.                                   *)

TheName(m) == CHOOSE n \in m.names : TRUE

Receive(kinds) ==
  /\ Running /\ inbox # <<>> /\ Head(inbox).kind \in kinds
  /\ inbox' = Tail(inbox)

DispatchToRegistry ==
  LET m == Head(inbox)
      n == TheName(m)
  IN /\ Receive({"owned", "lost", "path"}) /\ Unlocked
     /\ CASE m.kind = "owned" -> OnNameOwned(m.gen, n)
          [] m.kind = "lost" -> OnNameLost(m.gen, n)
          [] m.kind = "path" -> OnPathAnswered(m.gen, n, m.found)
     /\ UNCHANGED <<service, turn, proxied, event, holder, ended>>

\* mutant: the handlers of members come first
MembersFirst(step, kind, g, i) ==
  \/ step = "second" /\ RegistryTold(kind, g, i) /\ UNCHANGED <<event, history>>
  \/ step = "first" /\ EventTold(kind, i) /\ UNCHANGED reg

(* onLibdbusSignalFilter: the handlers of object managers come first, then *)
(* those of the path, the interface and the member.                        *)
Told(step, kind, g, i) ==
  \/ step = "first" /\ RegistryTold(kind, g, i) /\ UNCHANGED <<event, history>>
  \/ step = "second" /\ EventTold(kind, i) /\ UNCHANGED reg

DispatchSignalFirst ==
  LET m == Head(inbox)
  IN /\ Running /\ inbox # <<>> /\ m.kind \in {"added", "removed"}
     /\ turn = "first" /\ Unlocked
     /\ turn' = "second"
     /\ Told(turn, m.kind, m.gen, TheName(m))
     /\ UNCHANGED <<bus, proxied, query, holder, ended>>

DispatchSignalSecond ==
  LET m == Head(inbox)
  IN /\ turn = "second" /\ Receive({"added", "removed"})
     /\ turn' = "first"
     /\ Told(turn, m.kind, m.gen, TheName(m))
     /\ UNCHANGED <<service, requests, proxied, query, holder, ended>>

(* The answer to getAvailableServiceInstancesAsync, an error as well: the  *)
(* dictionary is translated and every instance in it added.  (What the     *)
(* registry does with it is settled at once and changes nothing here.)     *)
DispatchList ==
  /\ Receive({"list"}) /\ Unlocked /\ Settled
  /\ Added(Head(inbox).found)
  /\ UNCHANGED <<service, requests, turn, reg, proxied, query, holder, ended, history>>

Dispatch ==
  DispatchToRegistry \/ DispatchSignalFirst \/ DispatchSignalSecond \/ DispatchList

-----------------------------------------------------------------------------
(* The application adds and removes listeners of the event.                *)

Toggle == history.toggles < MaxToggles

Joins(l) ==
  history' = [history EXCEPT !.toggles = @ + 1, !.since[l] = event.interfaces]

\* mutant: additions are not subscribed to
AddFirstDeaf(l) ==
  /\ Running /\ Settled /\ Toggle /\ event.listening = {}
  /\ event' = [event EXCEPT !.pc = "added", !.caller = l]
  /\ Joins(l)
  /\ UNCHANGED <<bus, turn, reg, proxied, query, holder, ended>>

(* onFirstListenerAdded: first the handlers, then the question; the        *)
(* listener is in the list when it returns.                                *)
AddFirst(l) ==
  /\ Running /\ Settled /\ Toggle /\ event.listening = {}
  /\ event' = [event EXCEPT !.pc = "added", !.caller = l, !.installed = @ \cup {"added"}]
  /\ Joins(l)
  /\ UNCHANGED <<bus, turn, reg, proxied, query, holder, ended>>

InstallRemoved ==
  /\ Running /\ event.pc = "added"
  /\ event' = [event EXCEPT !.pc = "removed", !.installed = @ \cup {"removed"}]
  /\ UNCHANGED <<bus, turn, reg, proxied, query, holder, ended, history>>

AskForInstances ==
  /\ Running /\ event.pc = "removed"
  /\ requests' = Append(requests, ListRequest)
  /\ event' = [event EXCEPT !.pc = "idle", !.caller = None,
                            !.listening = @ \cup {event.caller}, !.heard[event.caller] = {}]
  /\ UNCHANGED <<service, inbox, turn, reg, proxied, query, holder, ended, history>>

(* A listener that is not the first is told nothing of what is there.      *)
AddAnother(l) ==
  /\ Running /\ Settled /\ Toggle /\ event.listening # {} /\ l \notin event.listening
  /\ event' = [event EXCEPT !.listening = @ \cup {l}, !.heard[l] = {}]
  /\ Joins(l)
  /\ UNCHANGED <<bus, turn, reg, proxied, query, holder, ended>>

(* onLastListenerRemoved leaves the table of interfaces as it is.          *)
Leave(l) ==
  /\ Running /\ Settled /\ Toggle /\ l \in event.listening
  /\ event' = [event EXCEPT !.listening = @ \ {l},
                            !.installed = IF event.listening = {l} THEN {} ELSE @,
                            !.heard[l] = {}]
  /\ history' = [history EXCEPT !.toggles = @ + 1, !.since[l] = {}]
  /\ UNCHANGED <<bus, turn, reg, proxied, query, holder, ended>>

-----------------------------------------------------------------------------
(* getServiceInstanceAvailabilityStatus: a thread asks the registry.       *)

Found(g) == g # 0 /\ reg.owned[g] # {}

(* findCachedDbusService has no record: once the name is resolved, or is   *)
(* found to have no owner, the destructors of the local records fulfil a   *)
(* promise that is fulfilled already, and that ends the program.  A record *)
(* that has been erased is read nevertheless.                              *)
LookUnknown(q, i) ==
  /\ Running /\ Unlocked /\ query[q].pc = "idle" /\ ~Found(reg.mapped[i])
  /\ ended' = IF reg.mapped[i] = 0 THEN "terminated" ELSE "undefined"
  /\ UNCHANGED <<bus, turn, reg, proxied, event, query, holder, history>>

(* The query goes on with the path that it has found or made.              *)
Continue(q, i, pc) ==
  /\ Running /\ Unlocked /\ query[q].pc = "idle" /\ Found(reg.mapped[i])
  /\ query' = [query EXCEPT ![q].pc = pc, ![q].instance = i, ![q].gen = reg.mapped[i],
                             ![q].gone = i \in history.gone]

Resolve(i, entry) ==
  LET g == reg.mapped[i]
  IN /\ reg' = [reg EXCEPT !.paths[g][i] = Resolving(entry)]
     /\ requests' = Append(requests, PathRequest(i, g))

(* The path is not cached: it is now, but nobody asks for the signals.     *)
LookAbsent(q, i) ==
  LET entry == reg.paths[reg.mapped[i]][i]
  IN /\ Continue(q, i, "waiting") /\ entry.state = "absent"
     /\ Resolve(i, [Absent EXCEPT !.future = "kept"])
     /\ UNCHANGED <<service, inbox, turn, proxied, event, holder, ended, history>>

(* The path is being resolved: its promise gives its future away once.     *)
LookUnresolved(q, i) ==
  LET entry == reg.paths[reg.mapped[i]][i]
  IN /\ Continue(q, i, "waiting") /\ entry.state = "RESOLVING" /\ entry.future = "none"
     /\ Resolve(i, [entry EXCEPT !.future = "taken"])
     /\ history' = [history EXCEPT !.doubled = @ \cup {i}]
     /\ UNCHANGED <<service, inbox, turn, proxied, event, holder, ended>>

(* A second future cannot be had: the exception leaves the mutex locked.   *)
LookTwice(q, i) ==
  LET entry == reg.paths[reg.mapped[i]][i]
  IN /\ Continue(q, i, "thrown") /\ entry.state = "RESOLVING" /\ entry.future # "none"
     /\ holder' = q
     /\ UNCHANGED <<bus, turn, reg, proxied, event, ended, history>>

LookResolved(q, i) ==
  LET entry == reg.paths[reg.mapped[i]][i]
  IN /\ Continue(q, i, "waiting") /\ entry.state = "RESOLVED"
     /\ UNCHANGED <<bus, turn, reg, proxied, event, holder, ended, history>>

(* The path is resolved, or the promise is fulfilled, or a second has      *)
(* passed: the path is read, under the mutex again.  It may be gone.       *)
Read(q) ==
  LET entry == reg.paths[query[q].gen][query[q].instance]
  IN /\ Running /\ Unlocked /\ query[q].pc = "waiting"
     /\ \E answer \in IF query[q].torn THEN BOOLEAN
                      ELSE {entry.state = "RESOLVED" /\ entry.listed} :
          query' = [query EXCEPT ![q] = [Idle EXCEPT !.pc = "done", !.answer = answer]]
     /\ UNCHANGED <<bus, turn, reg, proxied, event, holder, ended, history>>

Look(q, i) ==
  \/ LookUnknown(q, i) \/ LookAbsent(q, i) \/ LookUnresolved(q, i)
  \/ LookTwice(q, i) \/ LookResolved(q, i)

-----------------------------------------------------------------------------
Next ==
  \/ Start \/ Die
  \/ \E i \in Instances : Acquire(i) \/ Release(i) \/ Export(i) \/ Unexport(i)
  \/ AnswerNext \/ GiveUp
  \/ Dispatch
  \/ \E l \in Listeners : AddFirst(l) \/ AddAnother(l) \/ Leave(l)
  \/ InstallRemoved \/ AskForInstances
  \/ \E q \in Queries : Read(q) \/ \E i \in Instances : Look(q, i)

Spec == Init /\ [][Next]_vars

-----------------------------------------------------------------------------
(* Properties.                                                             *)

(* When all that has arrived is dispatched and the listeners' question is  *)
(* answered, the event's table has every instance that the manager has,    *)
(* unless the answer was lost; what it has too many was taken away when    *)
(* nobody listened or by the end of a process.  And a listener was told of *)
(* each instance what the table says, if it listened when it came.         *)
AtRest == inbox = <<>> /\ Settled /\ \A k \in DOMAIN requests : requests[k].kind # "list"
EventsAgree ==
  event.listening # {} =>
    /\ AtRest =>
         /\ ~history.failed => service.managed \subseteq event.interfaces
         /\ event.interfaces \subseteq service.managed \cup history.unseen
    /\ \A l \in event.listening :
         /\ event.heard[l] \subseteq event.interfaces
         /\ event.interfaces \subseteq event.heard[l] \cup history.since[l]

(* Who has been told by the event that an instance is gone, and asks then, *)
(* is not told that it is there: the registry heard of it first.           *)
StatusTrue ==
  [][\A q \in Queries :
       /\ query[q].pc = "waiting" /\ query'[q].pc = "done"
       /\ query[q].gone /\ ~query[q].torn
       /\ query[q].gen \in reg.watched /\ query[q].instance \notin history.doubled
       => ~query'[q].answer]_vars

(* When all that has arrived is dispatched, what a query would read of a   *)
(* resolved path is what the service has there, whether a query or a proxy *)
(* had it resolved, and whatever came and went meanwhile; but for paths    *)
(* that were asked for twice, or dropped while they were being resolved,   *)
(* because the answers to two calls were not told apart.                   *)
CacheTrue ==
  inbox = <<>> =>
    \A g \in reg.watched, i \in Instances :
      reg.paths[g][i].state = "RESOLVED" /\ i \notin history.doubled \cup history.dropped =>
        (reg.paths[g][i].listed <=> g = service.gen /\ i \in service.managed)
=============================================================================

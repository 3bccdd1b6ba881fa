# CommonAPI C++ D-Bus runtime: a verification development

This directory holds TLA+ specifications of `capicxx-dbus-runtime`, the D-Bus
binding of CommonAPI C++. Each module is translated from the sources (paths
below are relative to `src/CommonAPI/DBus/` and `include/CommonAPI/DBus/`);
`PROJECT.json` maps every definition to the lines it stands for. TLC checks the
modules on small instances, TLAPS proves theorems about nine of them for every
value of their constants.

## 1. Inventory

The runtime is a library that is linked into a process. It has no process of
its own: its code runs on application threads (calls, registration, connect
and disconnect), on the thread that runs the main loop (the library's own
`DBusMainLoop`, started by `connect(true)`, or the host's), on one *enforcer*
thread per connection, and on one availability-timeout thread per proxy.

| Component | State | Operations | Used by / uses | Module |
|---|---|---|---|---|
| `DBusConnection`: asynchronous calls | handlers with execution flags, pending calls, `timeoutMap_`, `timeoutInfiniteAsyncHandlers_`, `mainloopTimeouts_`, `asyncHandlersToDelete_` | send with reply handler, dispatch, reply callback, enforce timeouts, delete handlers | proxies send; the main loop dispatches; libdbus owns the pending calls | `AsyncCalls` |
| `DBusConnection`: life cycle | `connection_`, `isDisconnecting_`, `isDispatching_`, `dispatchThread_`, `activeConnections_`, counted bus names | connect, disconnect, setDispatching, increment/decrementConnection, request/release name | factory, object manager, proxies | `AsyncCalls`, `Services`, `MainLoop` |
| `DBusConnection`: signals | match rules with counts, signal tables (members, object manager), filter count, state handlers | add/remove handler, filter, notify | events of proxies, service registry | `SignalSubscriptions`, delivery in `Instances` |
| `DBusConnection`: object paths | counted registrations with libdbus | register/unregister object path | object manager | `Services` |
| Main loop and contexts | registered sources, watches and timeouts, sets in use, deferred deletions, wakeup event, function queue | prepare, poll, check, dispatch, register/deregister, stop, wakeup, push | every connection registers its sources | `MainLoop` |
| `DBusServiceRegistry` | unique names and their records, well-known name map, object path caches, interface listeners, pending `GetManagedObjects` calls | name owner changed, interfaces added/removed, subscribe/unsubscribe listener, query alive | daemon proxy signals in, proxies and availability events out | `ServiceRegistry`, `Instances` |
| `DBusProxy` | availability status, waiting callbacks with timeouts, queue of signal handlers | isAvailable(Blocking/Async), status change, destructor | service registry, connection | `ProxyAvailability`, `ProxyEvents` |
| Events and attributes of proxies | subscription state of each event, selective subscriptions | subscribe, unsubscribe, first/last listener hooks, initial values | proxies, connection | `ProxyEvents` |
| Remote calls: proxy helpers and stub dispatchers | calls in progress, replies kept for later, attribute values | call (blocking, asynchronous, fire and forget), dispatch, reply, get/set/notify an attribute | proxies, stubs | `RemoteCalls` |
| Instance availability events, proxy managers | known instances, listeners | listen, list, query a status | service registry | `Instances` |
| `DBusObjectManager`, `DBusObjectManagerStub` | registered adapters by (path, interface), managed objects with counts | register/unregister with rollback, look up an adapter, export/unexport, list, introspect | stub adapters, connection | `Services` |
| `Factory` | connections, services | register/unregister stub, create proxy, get/release connection | CommonAPI core | `Services` |
| Streams, messages, deployments | a buffer with a position | align, read, write, sign | stubs and proxies | `Streams` |
| Addresses and translator | two maps of addresses, the configuration | translate, insert, forget | factory, proxies, registry | `Addresses` |
| `DBusDaemonProxy`, `CompletionHelper` | none; threads to join at exit | calls to the daemon; join | registry; connection | none |

### What is hard, and what makes each component correct

- **Asynchronous calls.** A handler is a raw pointer that up to six containers
  and four kinds of threads hand on; the key of `timeoutMap_` is an address
  that malloc reuses. Correct: a call is answered at most once, a handler
  always has exactly one owner that will delete it, nobody follows a pointer to
  a deleted handler, the reference of a pending call is returned exactly once,
  every call with a timeout is answered, every answered handler is deleted.
- **Life cycle.** `disconnect()` may run on the dispatching thread or on
  another; it waits for a dispatch and joins two threads. Correct: it returns,
  and a connection stays open while somebody uses it.
- **Signals.** Two tables with two mutexes share one filter count. Correct: as
  long as a handler is registered its match rule and the filter are installed,
  and both are removed with the last.
- **Main loop.** Sources are deregistered while they are dispatched, and by
  other threads. Correct: no source is used after its deletion, no wakeup is
  lost.
- **Service registry.** Replies to `GetManagedObjects` and signals about names
  arrive in any order. Correct: a listener is told about every change of the
  instance it waits for, and the last thing it is told is true.
- **Proxy availability.** A timeout thread, a status change and a request race
  for the same callback. Correct: it is called exactly once, and truthfully.
- **Events.** A subscription and a status change overlap. Correct: the handler
  is installed while the service is available and somebody listens, the stub
  and the proxy agree about selective subscriptions, every listener is answered.
- **Remote calls.** Several threads answer a kept call; clients and the
  application change an attribute together. Correct: one reply per call, a
  status that says what happened, observers that know the last value.
- **Registration.** Multi-step with rollback, on three kinds of threads.
  Correct: the tables, the bus and the peers agree afterwards; no deadlock.
- **Instances.** A list, signals and queries tell of the same instances.
  Correct: they agree about what the service has.
- **Streams.** Alignment and length arithmetic. Correct: what is written is
  well formed and read back; a literal of an enumeration or an alternative of a
  D-Bus variant that the reader does not have is refused, not misread. Ordinary
  variants promise less: the reader trusts their index (section 4).
- **Addresses.** The translator remembers, and forgets what others still use.
  Correct: users find what they filed under an address.

`PROJECT.json` lists each hazard with its line under `hazards`. Where the code
does not withstand it, so that the properties have to except it, or where the
model does not reach it, the entry says so in its note, and names a property only
for the rest of the hazard, if there is any.

## 2. Plan

Done, in this order:

1. `AsyncCalls` with the abstract specification `AsyncCallContract`, and
   `AsyncCallsProofs`, which include the refinement.
2. `SignalSubscriptions`: match rules, filter count, the two handler tables,
   reconnect; `SignalSubscriptionsProofs`.
3. `ServiceRegistry`: names, object path caches, pending calls, listeners;
   `ServiceRegistryProofs`.
4. `ProxyAvailability` with the abstract specification `AvailabilityContract`;
   the proofs, which include the refinement, are in `ServiceRegistryProofs`,
   which extends both models: a proxy is a listener of the registry.
5. `ProxyEvents`: events of all kinds over changes of the status;
   `ProxyEventsProofs`.
6. `MainLoop`: sources, deferred deletion, wakeups, with liveness.
7. `Services`: factory, object manager, object paths, connection counting;
   `ServicesSteps` and `ServicesProofs`.
8. `RemoteCalls`: a proxy's calls and a stub's dispatchers together;
   `RemoteCallsProofs`.
9. `Streams`: both streams and the signatures of variants.
10. `Addresses`; the proofs are in `ServicesProofs`, which extends both models:
    the paths and names of services are what the translator answers.
11. `Instances`: instance events and status queries over the registry;
    `InstancesProofs`.

Left, in the order of their worth: `PendingExact` of `ServiceRegistry` without
`Reclaims`; two disconnects of one connection at once, with
`CompletionHelper`.

## 3. What is modelled

### AsyncCalls

State: the fields of `DBusConnection` of the same name, the flags of
`DBusProxyAsyncCallbackHandler`, the reference counts of the pending calls
(`attached` for libdbus' table, `appRef` for ours, the reference libdbus takes
while it notifies in `main.pending`), and per thread a program counter with its
local variables.

| Code | Actions |
|---|---|
| `sendDBusMessageWithReplyAsync` 853-952 | `SendRefused`, `SendFailed`, `Send`, `PushFailure`, `RegisterTimeout`, `DeleteStale`, `NotifyAfterSend`, `RegisterInfinite` |
| `pushDBusMessageReplyToMainLoop`, `dispatchDBusMessageReply` | `PushReply`, `PopReply` |
| `isDispatchReady`, `singleDispatch`, `setDispatching` | `IsDispatchReady`, `TakeTimeouts`, `DeliverTimeout`, `DeleteDelivered`, `BeginDispatch`, `EndDispatch` |
| `onLibdbusPendingCallNotifyThunk` 628-645, called by libdbus; `dbus_connection_dispatch` (external) | `CompletePendingCall`; `DispatchOther` |
| `onLibdbusPendingCall` 589-626 | `StartExecution`, `OnDBusMessageReply`, `FinishExecution`, `NotifyAfterReply` |
| `enforceAsynchronousTimeouts` 650-851 | `EnforcerCheck`, `EnforcerTimedOut`, `EnforcerNotified`, `ExpireUnstarted`, `ExpireRunning`, `CollectFinished`, `SkipEntry`, `EnforceInfinite`, `CleanupEntry`, `CleanupInfinite`, `EnforcerDelete` |
| `deleteAsyncHandlers` | `PopDelete`, `EnforcerDelete` |
| `disconnect` 402-481 | `DisconnectBegin` (by the application, or by the main loop thread inside a callback), `DisconnectWait`, `DisconnectClose`, `DisconnectJoinMain`, `DisconnectCancel`, `DisconnectRelease` |
| `connect` 345-400 | `Connect` |

An action is a critical section, a callback of the user or a call into libdbus.
Time is abstracted to "the time point of an entry has passed" (`Elapse`).
`CONSTANT Addresses` says which addresses the allocator may return for the
pending call of each call, so that reuse can be allowed or excluded;
`OwnLoop` distinguishes `connect(true)` from a host main loop. Definitions
commented "Seeded fault" are not part of the specification: each is a variant
of the definition that follows it, with which the corresponding property fails.

`AsyncCallContract` is the abstract specification: accepted, answered at most
once while live, deleted only after the answer unless the connection closes.
`AsyncCalls` implements it with `closing <- Closing`
(`isDisconnecting \/ enforcerThreadCancelled`).

Simplifications: lists of handlers are sets (their order is not relied upon);
any number of queued `deleteAsyncHandlers` is one flag; one disconnect at a
time and one dispatching thread; `connect()` is one step; `connection_` is
released in one step although 478-480 are outside `connectionGuard_`; the main
loop context outlives the calls (the branches for an expired context at 712 and
908 are left out); a host main loop stays attached across a reconnect, an own
main loop is restarted with an empty queue once the old one has stopped;
`wait_for` uses the entries it was computed from, spurious wakeups are left
out; unsynchronised accesses of the two lists during the cleanup at 829-847 are
taken as atomic; a message without a `DBusMessage` is not sent.

### SignalSubscriptions

State: the two handler tables, the reference counts of both maps of match
rules in one function `refs`, the counter, and what libdbus and the bus hold:
how often the filter is in libdbus' list, how often the bus has each rule. Each
of the actors `member`, `om` and `link` has a program counter and the rule it
works on; a handler table's mutex admits one operation on it, hence one actor
per table.

| Code | Actions |
|---|---|
| `addSignalMemberHandler`, `addLibdbusSignalMatchRule` (tuple) 1462-1526 | `AddMember`, `AddFirstMember`, `AddFilter`, `AddMemberMatch`, `CountMember` |
| `removeSignalMemberHandler`, `removeLibdbusSignalMatchRule` (tuple) | `RemoveMember`, then `RemoveMatch`, `Uncount`, `EraseRule` |
| `addObjectManagerSignalMemberHandler`, `addLibdbusSignalMatchRule` (string) 1339-1364 | `AddOM`, `AddFirstOM`, `AddFilterIfNone`, `AddMatch`, `CountOM` |
| `removeObjectManagerSignalMemberHandler`, `removeLibdbusSignalMatchRule` (string) 1372-1387 | `RemoveOM`, then `RemoveMatch`, `Uncount`, `EraseRule` |
| `connect`, `initLibdbusSignalFilterAfterConnect` | `Connect`, `InitRule`, `AddFilterIfNone`, `AddMatch`, `CountInit`, `InitEnd` |
| `disconnect` | `DisconnectBegin`, `DisconnectEnd` |

`CONSTANT Overlap` says which operations may be under way together: the run
excludes overlaps, the theorems hold for any. `MatchFails` says which rules the
bus may refuse. Definitions that precede the action they differ from, such as
`AddOMUncounted` or `DisconnectKeepsCount`, are variants with a plausible mistake;
no specification uses them, in this module as in the others.

Simplifications: `dbus_connection_add_filter` does not run out of memory;
changes of a table that follow a call into libdbus under the same mutex are
made with its first step, except where an early return decides about them
(`CountOM`); an entry of the object manager table is found by its identity;
delivery of a signal to the handlers, which works on a copy of weak pointers,
is left out (it is part of `Instances`), and so is the call that follows a
selective subscription (part of `ProxyEvents`).

### ServiceRegistry

State: `reg` is the registry, one record whose fields are its tables, because
one handler calls the next with `dbusServicesMutex_` held and each is an
operator from one registry to the next. `names` and `records` are
`dbusServiceListenersMap` (state and unique name of a service; state of an
interface), `owned` and `caches` are `dbusUniqueNamesMap_` (a record exists
while it owns a name), `watches` is how often the registry is entered as
signal handler of an owner, `phase` and `told` follow each listener, `sent`
holds the requests on their way. The rest is the bus: who owns a name, what a
peer has registered with its object managers, and `inbox`, what the connection
will dispatch.

| Code | Definitions |
|---|---|
| `subscribeAvailabilityListener` 108-211 | `Subscribe`: `SubscribeUnknown`, `SubscribeNotAvailable`, `SubscribeResolved`, `SubscribeKnown`, each ending in `Enlist` |
| `unsubscribeAvailabilityListener` 213-309 | `Unsubscribe`, and `RemoveListener` on the main loop |
| `getAvailableServiceInstancesAsync` 474-508 | `Refresh` (its reply) |
| `onDBusDaemonProxyNameOwnerChangedEvent`, `onGetNameOwnerCallback` | `OnNameOwnerChanged`, `OnGetNameOwner` with `ServiceAvailable`, `ServiceNotAvailable`, `CheckServiceWasAvailable`, `InsertServiceNameMapping`, `RemoveUniqueName` |
| `onGetManagedObjectsCallbackResolve` 834-937 | `OnManagedObjects` with `ManagedObjectsFound` |
| `onSignalDBusMessage` 510-605 | `OnInterfacesChanged` with `ObjectChanged` |
| `getDBusObjectPathCacheReference`, `resolveObjectPathWithObjectManager` | `CachePaths` |
| the four `notifyDBus...` functions | `TellOwned`, `Tell` |

The bus is external: everything a connection receives comes through the daemon
and is dispatched in the order in which the daemon forwarded it; the daemon
answers `GetNameOwner` itself and forwards the other requests, and a peer
answers its requests in their order (`InTurn`). A signal arrives only when
the rule of its sender was added before it was sent. A peer that dies is a peer
whose names are released and whose objects go. Each request is answered or
given up.

Simplifications: `isServiceInstanceAlive`, `dbusServiceNameMap_` and the
promises, which nothing else reads, are in `Instances`. Left out are
predefined services, which nothing in the repository sets, the destructor and a
connection that is not connected. `CachePaths` works on all observed paths of a
service at once; the order of their requests is that of a hash table. A second
entry of the registry for one owner delivers a signal twice, which changes
nothing the first time did not. The loop at 994-1027 steps twice after it has
erased a path whose listeners are all leaving; that takes a path that is
resolved before the owner of its service is known, which happens only after a
timeout.

### ProxyAvailability

State: `availabilityStatus_`, the requests in `timeouts_`, whether their time
has passed, the availability thread with its locals (what its `wait_for` was
computed from, the callbacks it collected), the threads in `isAvailableAsync`,
in `isAvailableBlocking` and in a status change, and the life of the proxy.

| Code | Actions |
|---|---|
| `isAvailableAsync` 242-292 | `AskFirst` (the list is empty), `JoinFirst`, `Joined`, `StartThread`; `AskMore`, `NotifyAdded`; `AskInCallback` (from a callback of the thread itself) |
| `availabilityTimeoutThreadHandler` 51-182 | `BeginThread`, `WakeUp`, `ScanEntry`, `ScanDone`, `BeginCallback`, `EndCallback`, `EndIteration` |
| `isAvailableBlocking` 228-240 | `Block` |
| `onDBusServiceInstanceStatus` 341-434 | `SetStatus`, `NotifyChanged`, `WakeBlocked` |
| `~DBusProxy` 202-219 | `Destroy`, `NotifyCancelled`, `JoinThread` |

`AvailabilityContract` is the abstract specification: a request that was asked
is settled once, with "available" only while the service is and with "not
available" only after its time has passed, and told once what it was settled
with. The destructor is not run from the availability thread.

### ProxyEvents

State: the tables of one proxy (`signalMemberHandlerQueue_`,
`selectiveBroadcastHandlers`, listeners of the status event), those of its
connection (`dbusSignalHandlers_`, `signalStateHandlers_`), what is on its way
to the service and back, what the stub sends to us, and what listeners were
told.

| Code | Actions |
|---|---|
| `DBusEvent` first/added/last listener hooks 130-156 | `OnFirstListenerAdded`, `OnListenerAdded`, `OnLastListenerRemoved` |
| `addSignalMemberHandler`, `...ToQueue`, `removeSignalMemberHandler` of proxy and connection | `AddHandler`, `InstallHandler`, `AddToQueue`, `RemoveFromQueue`, `RemoveHandler` |
| `getCurrentValueForSignalListener`, `signalInitialValueCallback`, `notifySpecificListener` | `GetCurrentValue`, `ValueReceived`, `NotifySpecificListener` |
| selective subscriptions of proxy and connection | `InsertSelectiveSubscription`, `SetSubscriptionToken`, `RequestSubscription`, `SubscriptionAnswered`, `Unsubscribe`, `CallUnsubscribe`, `EraseEntry` |
| `onDBusServiceInstanceStatus` 341-429 | `StatusReported`, `AddQueuedHandlers`, `SendPendingSubscriptions`, `RemoveQueuedHandlers` |
| events of freedesktop attributes | `SubscribeInternal`, `UnsubscribeInternal` |

The service, its stub and the bus are external; calls fail when the service
goes before it has answered. One application thread uses the events (two events
share no entry of any table); the loop thread handles replies, status changes
and pushed functions. The flag `outarg` (`DBusConnection.cpp:1124`) is never
initialised when the call fails: a free choice. Simplifications: the test of
`isAvailable` and the send are one step; the status is set and told in one
step; a failed reply to a get method cannot be deserialised; events outlive
their subscriptions.

### MainLoop

State: the registered sources, watches and timeouts, the sets that the loop is
about to dispatch, what was deleted, the wakeup event, the queue of a connection
with its event, and `todo`: what each thread has still to do, as a sequence of
elementary operations, each one critical section of the loop. A program (attach
a connection, disconnect it, push an entry, toggle a watch, register a timeout,
stop) is put there by `Begin...`, and its operations interleave with the
iterations of the loop.

| Code | Actions |
|---|---|
| `doSingleIteration` 226-319, `cleanup` | `Prepare`, `Poll`, `Check`, the dispatch steps, `Reap`, `Cleanup` |
| `prepare` 321-369 | `Prepare`, `Elapse` |
| `poll` 373-442 | `CopyFileDescriptors`, `Poll`, `UpdateFileDescriptors` |
| `dispatch` 485-531 | `DispatchTimeout`, `DispatchWatch`, `SkipWatch`, `BeginSources`, `DispatchSource`, `EndSources` |
| `DBusQueueWatch`, `DBusQueueDispatchSource`, `DBusWatch` | `Push`, `Signal`, `PopQueue`, `ProcessQueueEntry`, `DispatchAgain`, `HandleRead`, `HandleWrite` |
| register and unregister functions 617-711, `wakeup` | `Register`, `Unregister`, `RegisterFileDescriptor`, `UnregisterFileDescriptor`, `UseTimeout`, `Wakeup` |
| `DBusConnection` 211-345, 402-482 | `Attaching`, `Disconnect`, `AwaitDispatch`, `Join`, `Release`, `ReadWatch`, `WriteWatch`, `RemoveWatches` |

All sources have the default priority; no callback runs an iteration of its
own, so that `isExecuted_` and the membership of the sets are false whenever the
loop deletes; the own thread of a connection and the loop of an application are
both initial states; branches for Windows and the truncation of poll times to
`int` are left out.

### Services

State: the tables of `Factory` (`current` connection, `services_`), of the
`DBusObjectManager` of each connection (handlers, stubs of managed objects with
their counts, the table of registered objects), the counters of the connection
(users, names, paths), the mutexes that are held over several steps, and per
thread the line it is at. `heard` is what the peers were told by
`InterfacesAdded` and `InterfacesRemoved`.

| Code | Definitions |
|---|---|
| `registerStub`, `registerStubAdapter` 133-257 | `RegisterStub`, `Insert`, `ExportStub`, `Enter`, `RequestName`, `Return`, and back: `RollbackExport`, `Erase` |
| `registerManagedService`, `incrementConnection` 358-446 | `RegisterManaged`, `Enlist`, `CountManaged`, `Withdraw` |
| `unregisterStub`, `unregisterManagedService` | `UnregisterStub`, `Leave`, `Release`, `Forget`; `UnregisterManaged`, `Unlist`, `Retract`, `Unlock` |
| `getConnection`, `decrementConnection`, `disconnect` | `GetConnection`, `Decrement`, `Close` |
| `createProxy`, `~DBusProxy`, `~DBusStubAdapter` | `CreateProxy`, `DestroyProxy`, `Drop` |
| `DBusObjectManager::(un)registerDBusStubAdapter`, `handleMessage` | `Entered`, `Left`, `AddToRegisteredObjectsTable`, `Receive`, `Reply` |
| `DBusObjectManagerStub` | `Export`, `Unexport`, `List`, `Unlisted`, `EmitInterfacesAdded`, `EmitInterfacesRemoved`, `GetManagedObjects` |
| introspection | `Introspect`, `IntrospectRoot` (which nodes and interfaces, not the text) |

`unregisterManagedService` goes by the address. Two threads that unregister the
same service may find there, the second one, a stub that a third thread has
registered meanwhile: it is taken out of the object manager and its managing
stub goes on to list it. `Unlist` puts the address in `tainted` then. The
attempt to prove `RegistrationsAgree` showed this; it takes more threads than
the run has.

Steps under `servicesMutex_` that nothing can see apart are merged. That
another process has a name is the free choice of `RequestName`. A path stands
for the nodes that lead to it. Left out: the destructor of an adapter whose
last reference goes inside `Retract` or `Erase`, the use of an invalid
reference at `DBusFactory.cpp:428`; the erase of an erased iterator (249) does
nothing.

### RemoteCalls

State: for each call what it asks for, where it is, its reply, status and
result; the messages on the wire; the static mutexes of the proxy helpers; the
stub's `pending_` table, its dispatcher and the jobs of application threads; the
attribute with what was signalled last; the connections of both sides.

| Code | Actions |
|---|---|
| `callMethod`, `callMethodWithReply`, `callMethodAsync` (each also with error events) | `Begin`, `IssueSend`, `IssueSync`, `IssueAsync`, `Defer`, `Resolve`, `Finish` |
| `DBusProxyAsyncCallbackHandler` | `AsyncStatus`, `Complete` |
| method dispatchers with and without reply | `DispatchFire`, `DispatchMethod`, `DispatchDeclared`, `DispatchInline`, `MethodReturns` |
| `sendReply`, `sendErrorReply` 566-579, 734-831 | `BeginReply`, `BeginError`, `FinishReply`, `FinishError` (unlocked in between) |
| attribute dispatchers | `DispatchGet`, `DispatchSet`, `ConfirmSet`, `ReadToFire`, `FireChanged`, and `BeginChange`, `FinishChange` by the application |
| `org.freedesktop.DBus.Properties` | `FreedesktopGet`, `FreedesktopGetAll`, `SendPropertiesChangedSignal`, `Reject` |

The generated code of a stub is external: it may answer a call at once, later,
twice or never. Its lock hook is taken to be real (the default does nothing).
Left out: a call deferred while its connection goes (its promise is dropped), an
expired connection in `sendReply` (the kept message stays), the use of an
erased iterator at 652-657, the deadlock of `isAvailableAsync` called back
under the static `callMethodAsync_mutex_` (`DBusProxy.cpp:269`).

### Streams

Types are records; `Write`, `Read` and `Signature` have one alternative per
overload and work on sequences of bytes, so that writer, reader and a reader
that knows D-Bus alone (`WellFormed`) can disagree. A scenario is a message:
what is sent, and what the reader, perhaps of another version of the
interface, expects. Numbers that are sent are below 2^24, and bytes that are taken
for a larger one count as 2^24 (`Large`); a value read after an error, and a
text read from bytes that are none, are unspecified. The module declares recursive operators and has no theorems.

### Addresses

State: both directions of the translation, the sections of the configuration,
and for each user (a thread that builds proxies or registers stubs) where it is
and under which addresses it has filed what. `translate` is two steps, because
it unlocks between `unversioned_` and the insertion (`FindUnversioned`,
`InsertUnversioned`, `Told`); `ReadSection`, `Build`, `Construct`, `Subscribe`,
`Unsubscribe`, `Register`, `Unregister`, `ForgetAddress` and `Announce` are the
operations of the users. A name is the sequence of its parts. `services_` of
the factory is `stubServices`, since `Services` has a variable `services`. Left
out: the type of the bus, names that are too long, the peer interface, the
domain.

### Instances

State: the registry reduced to what a query reads (owners, the name mapping,
one cached path per name and owner), the event's table `interfaces_` with its
listeners, one record per query, the service process, and what the connection
will dispatch. A signal is handled by the registry first and the handlers of
the event second (`DispatchSignalFirst`, `DispatchSignalSecond`).

| Code | Actions |
|---|---|
| `isServiceInstanceAlive` 311-444 | `Look` (`LookUnknown`, `LookAbsent`, `LookUnresolved`, `LookTwice`, `LookResolved`) and, after the wait, `Read` |
| `onDBusServiceAvailable`, `removeUniqueName`, `onGetManagedObjectsCallbackResolve`, `onSignalDBusMessage` | `OnNameOwned`, `OnNameLost`, `OnPathAnswered`, `RegistryTold` |
| `onFirstListenerAdded`, `onLastListenerRemoved` 112-148 | `AddFirst`, `InstallRemoved`, `AskForInstances`; `Leave` |
| `onInterfacesAddedSignal`, `...Removed`, `serviceInstancesAsyncCallback` | `EventTold` with `Added`, `Removed`; `DispatchList` |

The two calls that resolve a path are one request; the event of CommonAPI core
holds its mutex while the first listener is added, so that notifications wait;
match rules take effect at once. Left out: the blocking list (it changes
nothing), predefined services, the event's destructor.

## 4. Runs

Deadlock is checked in `signals`. Elsewhere the environment stops at a bound, or
may stop for good, and the runs say so.

| Run | Instance | Distinct states |
|---|---|---|
| `async` | 2 calls, one without a timeout, 2 senders, an address for each, host loop, 1 connect | 72,096 |
| `async_liveness` | 2 calls, 1 sender, one address for both, own loop, 2 connects | 135,381 |
| `signals` | 3 signals on 2 rules, one selective, 3 entries of 2 names, 2 handlers, 2 connects | 436,910 |
| `registry` | 2 services, 2 owners, a manager and an instance below it, 3 listeners, 4 events | 1,283,218 |
| `proxy_availability` | 2 requests, 1 thread that asks (and callbacks), 2 that block | 187,582 |
| `proxy_events` | an event of each kind, 2 listeners, the service comes and goes (2 changes) | 1,546,066 |
| `main_loop` | 1 connection, 2 threads, 1 entry, 1 timeout, 1 message, 1 write watch, 3 programs | 467,815 |
| `services` | 3 adapters at 2 addresses of one path and name, 1 thread and the handlers of 2 connections, 1 proxy, 1 failure | 1,823,684 |
| `remote_calls` | pairs of calls of every kind, 1 thread beside the dispatcher, 2 answers, 1 failure, 1 lost connection, 1 change of the status | 902,782 |
| `streams` | every pair of 59 values behind 8 alignments; 30 readers of other versions | 234,392 |
| `addresses` | 2 threads that build proxies, 1 that registers stubs, 10 configurations, 4 users built | 1,012,590 |
| `instances` | 1 instance and its manager, 2 queries, 2 listeners, a restart, 3 changes, 1 call given up | 1,856,815 |

All properties hold. What each says, why its bounds are enough, and where it
stops holding (all of it found by TLC with the exception or the bound removed):

### `async`, `async_liveness`

`Ownership`: every live handler has one holder that will delete it, and the
reference of a pending call is held exactly by whoever relies on it.
`NoDanglingHandler`: nobody can reach a deleted handler. `ImplementsContract`:
accepted, answered at most once, deleted only after the answer unless the
connection closes. `CallsComplete`: calls with a timeout are answered, their
handlers deleted, `disconnect()` returns, also from a callback.
`StaleEntryFinished`: the entry found under a reused key is a finished one.
Two calls suffice for a reused address (an old and a new entry); the second
connect separates a fresh connection from a reconnected one. An instance with
three calls and two addresses, 6.3 million states, shows nothing else.

Boundaries:
- *Key reuse* (`DBusConnection.cpp:928-941`). With two senders and one address:
  between the send and the registration of a call its reply may be processed
  and its pending call freed; another sender gets the same address and
  registers first, and the late registration deletes the handler of a call that
  is still waiting. Hence own addresses in `async`, one sender in
  `async_liveness`.
- *Reconnect* (457, 849). `enforcerThreadCancelled_` is set by `disconnect()`
  and never reset: the enforcer of the next `connect()` ends at once, deletes
  the handlers of calls registered meanwhile, and enforces no timeout. The
  properties count such a connection as one that is being closed (`Closing`).

### `signals`

`References`: the counts of both maps of match rules are the numbers of users.
`RulesAgree`: at rest the filter, the counter and the rules of the bus follow
the tables, over any sequence of operations with one reconnect. Two signals on
one rule and one of its own, two entries of one name and one of another: the
least that has a first, a second and a last of everything.

Boundaries: with operations of the two tables overlapping, the filter is lost
when the last proxy rule is removed between the test and the increment of the
counter by the registry (1343-1360, 1378-1383); one filter more is left by each
further last removal and first addition of a proxy rule while a name is
observed (1476; the property allows it); a rule that is counted between the
reset of the counter (419) and the end of `disconnect()` makes the next
connection skip the filter; a rule refused in `connect()` stays in the map.

### `registry`

`OwnersTracked`: names, owners and watches agree. `PendingExact`: every call
that a path or a name waits for is under way and counted, so that nothing waits
for ever; the counter is a `uint8_t` (`Calls = 256`). `ListenersInformed`: what
is announced is cached, listeners follow the cache, and at rest they have been
told the truth. Two owners, so that one loses one of two names and a name
moves; a manager and an instance below it, the least for which a path needs a
second call; two listeners of the instance, the second of which finds what the
first left.

Boundaries: an owner that gives a name up and claims it again while
`GetManagedObjects` is under way (`Reclaims`): the old reply is counted for the
new record (860), the counter goes to 255, and a listener may never be told
that its instance is there. An object registered at the root below another one
gets a second call although the first reply was complete, and a signal in
between is dropped (589). Listeners on one path for two services of one owner:
the path goes with the first service (1233).

### `proxy_availability`

`ThreadReady`: a waiting request has a thread that serves it, and the thread
object is neither replaced while joinable nor joined twice.
`ImplementsContract`: the abstract specification. `RequestsComplete`: every
request is answered unless the proxy goes, `isAvailableAsync` returns, and a
blocked thread is woken. Two requests are the least with which a callback asks
again while a caller waits; the notification wakes one blocked thread only
(`notify_one`), hence two of them. Boundary: with two threads that ask and
three requests both may start a thread (267-280) and `std::terminate` is
called: the theorem assumes one.

### `proxy_events`

`SubscriptionsMatch`: queue, handlers, subscriptions at the stub and status
agree at rest. `ListenersServed`: listeners get their value, the answer to
their subscription, and the status. Two listeners are a first and a last; two
changes are a service that comes and goes, or goes and comes. Excepted, because
TLC shows that they fail: a handler added while a status change passes over the
queue (`overtaken`, `DBusProxy.cpp:522`: it is never installed, or remains); a
broadcast that was refused once (`denied`, 442: the entry stays and the stub is
asked again); all but the last listener of a selective broadcast, which alone
is answered; and a subscription that the stub keeps because the proxy was told
it is unavailable before it unsubscribed (467).

### `main_loop`

`NothingFreedIsUsed`: no deleted source, watch or timeout is dispatched,
handled or unregistered by anybody, and a queue entry is processed, cleared or
dropped once. `LoopResponds`: entries are taken, `stop()` is obeyed, timeouts
fire. One object of each kind suffices to be unregistered in each phase of an
iteration; the second thread races the first. Excepted (`Deaf`, and
`timeout.counted`): `registerWatch`, `registerTimeout` and
`unregisterDispatchSource` do not wake a loop that is polling. Two connections
on one loop are not in the run: the iterator of 244 then steps over the second
queue source.

### `services`

`RegistrationsAgree`: once no thread works on an address, the factory, the
object manager, its stubs, the connection's counts, the bus and what the peers
heard agree; the counts are exact; a connection stays open for its users.
`NobodyStuck`: no threads wait for each other in a circle. The two adapters at
one address make a second registration fail; the managed one shares path and
name with them, so that everything counted has two users; two connections let a
thread come late to a closed one. Excepted:
- addresses in `tainted`: registered twice at once, with a signal that could
  not be sent or a name that could not be released, hit by the destructor of an
  older adapter (`DBusStubAdapter.cpp:23`), registered as managed on a
  connection that was closed meanwhile (`DBusFactory.cpp:402`), managed but
  unregistered through `unregisterStub`, or not managed but unregistered through
  `unregisterManagedService`;
- handlers that call `getConnection` (`Creators`) and threads that come `Late`
  to a closed connection: `decrementConnection` disconnects with
  `connectionsMutex_` held and waits for the handler (448, `DBusConnection.cpp:426`):
  a deadlock;
- `Properties` entries, which are announced and never withdrawn nor listed, and
  whose node remains in the introspection of `/`; and the `ObjectManager`
  interface of a path that several managing interfaces share, withdrawn with
  the first (`Followed`).

The comments in `DBusObjectManagerStub.hpp` say what `export` and `unexport`
return; the code returns true for an adapter that is exported already, and
false (having registered it again) when the signal of `unexport` fails.

### `remote_calls`

`AnswersTrue`: a call has at most one reply, which is the stub's first answer,
and its status says what happened. `ObserversAgree`: when nobody changes the
attribute, its value was signalled last. `CallsReturn`: every call ends. Pairs
of calls are what a mutex per function, a table of kept calls and an attribute
can confuse. Excepted: a blocking call with declared errors and no result
reports SUCCESS when there is no connection (`Unnoticed`,
`DBusProxyHelper.hpp:387-412`); two threads that answer one call at the same
time (`contested`, `DBusStubAdapterHelper.hpp:569-578`, 741-750); a stub whose
reply fails is reported as not available, as libdbus answers for it (`failed`;
a blocking call reports a remote error instead); a set whose reply fails is not
signalled (`unfired`, 1075, 1125); `Properties.Set` reports the value asked for
even if the stub refused it; an error in `Properties` has no reply, and the
call ends with its timeout (`DBusFreedesktopPropertiesStub.cpp:109`).

### `streams`

`WellFormed`: the bytes are what D-Bus makes of the signature, and the stacks
of positions are empty again. `ReadsExact`: the reader gets what was sent, and
an error exactly if an argument is missing or it does not know the literal of an
enumeration or the signature in a D-Bus variant. Messages are told apart by their
declared signatures, hence sender and reader may differ in literals and in the
alternatives of variants, which these do not show. Eight prefixes give every
alignment; a pair puts each type behind each.

Excepted (`Mistaken`): a message from its first ordinary variant on whose index
denotes no alternative of the reader, or one with another signature. `readValue`
takes the index from the sender, which counts the alternatives from the last, and
skips the signature (`DBusInputStream.hpp:174-180`, 230-238). A reader with more
alternatives in front reads what was sent: 2 sent as `Variant<Word, String>` is
read by `Variant<Byte, Word, String>`. Any other may misread it with no error: a
text sent as the same variant is read by `Variant<String, Word>` as a number, and
by `Variant<String>` the number is left to what is read next. The run has both
sorts of readers; without the exception TLC shows the second sort misreading.
`WellFormed` holds for all of them.

Excepted in `WellFormed`: `alignVector` pads arrays of `RangedInteger` and of D-Bus variants to
8 (`Overaligned`; own readers agree, others do not). Left out of the scenarios:
a polymorphic struct inside a variant (its signature and its data differ, and a
vector of them dereferences null), and one whose serial number the reader does
not know, which the generated code decides about. A `RangedInteger` out of its range is read as
it was sent: the reader tests the value it had before
(`DBusInputStream.hpp:114`). After an error a writer may put the length of an
enclosing array in the wrong place; such a body is never sent.

### `addresses`

`AnswersFounded`: every answer follows from the configuration or from the
default rules. `UsersAgree`: a user finds its subscription or registration
under the address it filed it under. Four users let one forget what two others
use, and a fourth ask anew. Excepted: addresses forgotten while used
(`disturbed`, 451; a compatible interface, a managed instance learned from a
signal, or a stub being built may get another answer, and a stub can then not
be unregistered), two addresses that share a D-Bus address (`Aliased`, 106),
and a configured address that is refused because its place was taken (`late`,
206).

### `instances`

`EventsAgree`: the event's table follows the manager's instances. `CacheTrue`:
with everything that arrived dispatched, a resolved path of an owner whose
signals are watched lists what the service has, whoever had it resolved. `StatusTrue`: who was told by the event that an instance is
gone, and asks then, is not told that it is there (the registry hears of it
first).
A restart separates two owners of a name; two queries are the least that share
a resolution. (With one listener change more: 5,526,842 states, nothing else.)
Excepted, from TLC's counterexamples: removals while nobody listens and the
death of the process (`unseen`: `interfaces_` is not cleared, and nobody is
told NOT_AVAILABLE after a crash); a list call that times out is reported as
SUCCESS with an empty list (`failed`); a later listener is not told what is
there (`since`); a query for a path that a proxy is still resolving starts a
second resolution, a removal between the answers is dropped, and the interface
stays cached for good (`doubled`, `DBusServiceRegistry.cpp:394`, 589); a path
that is dropped while it is being resolved, and cached again for the same
owner: the late answer to the first call counts for the second (`dropped`, 834;
needs five changes of the service, and was found by the proof); paths
of an owner whose signals are not watched (409); a call for the instances of a
path that is given up although the service lives, which the model leaves out: the
callback logs that there is no object manager and counts the path as resolved
(`DBusServiceRegistry.cpp:915-923`), so that it lists less than the service has, and
`CacheTrue` (run and theorem) says nothing of it; an entry erased while a query
waits on it (`torn`); a query for a name never seen, whose copied record shares
a promise (`DBusServiceRegistry.hpp:135-138`), ends the process; a second query
on a resolving path throws with `dbusServicesMutex_` locked (322).

### Fairness

- `AsyncCalls`: weak fairness for each sender inside its call, for the main
  loop thread, for the enforcer, for a running `disconnect()` and for time:
  threads that the operating system schedules and callbacks that return. Strong
  fairness for popping each kind of element of the main loop queue, because an
  iteration visits every ready source, and for `DisconnectCancel`, because the
  enforcer releases `enforcerThreadMutex_` in each wait. No reply has to
  arrive; no call has to be made.
- `ProxyAvailability`: weak fairness for the thread, the joins, the wakeups and
  time; strong fairness for the steps that acquire
  `availabilityTimeoutThreadMutex_`, which the thread releases in each wait and
  around each callback. Nobody has to ask, and the status need not change.
- `MainLoop`: weak fairness for the loop's thread and for each thread inside
  a program it has begun.
- `RemoteCalls`: weak fairness for a call's own steps and for its timeout,
  which libdbus (blocking calls) or the enforcer (`CallsComplete` of
  `AsyncCalls`) provides. Nothing is assumed of the service.

The other runs check safety only.

## 5. Proofs

`AsyncCallsProofs` proves, for all sets of calls, threads and addresses, any
reuse of addresses and any number of reconnects, `Spec => []P` for

- `TypeCorrect`: `TypeOK`;
- `AtMostOneAnswer`: `AnsweredAtMostOnce`;
- `ReferenceKept`: `PendingReferenceHeld`;
- `OneHolder`: `SingleHolder`;
- `NoneForgotten`: `NoHandlerForgotten`;
- `HandlerAlwaysOwned` and `OwnershipKept`: `Ownership`, their conjunction.

The assumptions are those of `CallsAssumption`. None of the properties is
inductive; `IndInv` strengthens them in named parts:

- `LocalsSet`: the locals of a thread are set where its program counter says so;
- `FreshUnknown`: a call not yet made occurs nowhere;
- `ListsDisjoint`, `MapExclusive`, `SendersExclusive`: the containers and the
  senders own disjoint sets of handlers (together: `SingleHolder`);
- `NotifyDataInjective`, `AttachedPending`: pending calls still in libdbus'
  table belong to different calls, none of them answered;
- `ReferenceClaims`: who relies on the reference of a pending call, and that no
  two do;
- `ReplyInProgress`, `Unanswered`: where the execution flags stand relative to
  the main loop thread, and that a handler on its way to an answer has none;
- `ClosingKnown`, `HandlersHeld`: deletion outside of the main loop happens
  only when closing, and every live handler has a holder until then.

There is one lemma per group of parts (`TypeStep`, `LocalsStep`, ...,
`HeldStep`), each with one step per action that touches the part and one for
the actions that frame it; `Inductive` combines them.

The second half of `AsyncCallsProofs` builds on that invariant and proves three
properties that do not hold without a condition (section 4 says what happens then):

- `NothingDangles` (`NoDanglingHandler`) and `RefinesContract`
  (`ImplementsContract`) under `NoKeyRace` and `ConnectedOnce`;
- `StaleIsFinished` (`StaleEntryFinished`) under `NoKeyRace`, for any number of
  reconnects.

`NoKeyRace` says that no address can be handed out to two calls, or that one
thread sends, however often it gets an address again; `ConnectedOnce` is
`MaxConnects = 1`. `async` is an instance of the first with two senders,
`async_liveness` of the second with one. `Strong` adds to `IndInv`:

- `SentKnown`: a sender that is about to register still knows the pending call
  by its address, hence what it replaces is finished;
- `ExecutionKnown`: the execution flags follow the main loop thread, and a
  finished call was answered;
- `GivenUp`, `DroppedGivenUp`: a call that timed out is in no container it was
  taken from, is not left to the main loop thread for deletion, and only its
  reply is dropped;
- `DispatchEnds`: when the enforcer is cancelled, no dispatch is under way but
  the one whose callback disconnects;
- `Collected`: what is collected for deletion was answered, unless the enforcer
  was cancelled, and is not in the hands of the main loop thread;
- `HeldAreLive`: whoever holds a handler holds one that lives.

`ContractStep` maps the 13 actions that touch handlers, answers or `Closing` to
steps of the contract, and the others to stutters.

`SignalSubscriptionsProofs` proves, for all signals, rules, names, any `Overlap`
and any `MatchFails`, `TypeCorrect` and `ReferencesExact` (`References`). Its
`IndInv` adds `ProcShape` (each actor works on rules of its own kind) and
splits the counts by table (`MemberCounts`, `OMCounts`): a rule that is being
removed has no signal left, a name that is being added has no entry yet, which
is what makes its first reference a one. `SignalChanged`, `EntryAdded` and
`EntryRemoved` compute the cardinalities. That is the part of this component
that is right under concurrency; filter and counter are not, and are
model-checked without overlaps.

For operations that do not overlap (`Sequential`: `Overlap` and `MatchFails`
are empty, and there are fewer rules than the counter can count) it also proves
`RulesAlwaysAgree` (`RulesAgree`), through any number of reconnects. `SeqInv`
adds to `IndInv` that at most one actor is at work (`Alone`), how far the loop
over the rules has come when the link is restored (`Visited`), whose rule is in
the tables (`Entered`), and that counter, bus and filter follow them up to what
the one actor has still to do (`CountFollows`, `BusFollows`, `FilterFollows`).

`ServiceRegistryProofs` proves, for all services, owners, objects and listeners,
any layout of the paths, and also with `Reclaims`, `TypeCorrect`,
`OwnersAlwaysAgree` (`OwnersAgree`), `CachedAlwaysWatched` (`CachedIsWatched`)
and their conjunction `OwnersAlwaysTracked` (`OwnersTracked`). The assumptions
are those of `RegistryAssumption`. `IndInv` adds `Named`: a service has an
owner exactly while it is resolved, so that the owner of which a lost name is
taken away is the one that lists it. It is stated of a state of the registry
(`Sound(r)`), because the operations are functions: there is one lemma per
function saying what it leaves alone (`...Frame`) or that it keeps the
invariant (`...Sound`), and one lemma per action that cites them. Between the
steps of a function the invariant does not hold: `ServiceAvailableSound`
carries over what is true after the name was inserted and before the owner it
is taken from has lost it.

`ServiceRegistryProofs` also holds the theorems about `ProxyAvailability`: for
all requests and threads (under `AvailabilityAssumption`),
`AvailabilityTypeCorrect` (`ProxyTypeOK`), `RequestsServed` (`WaitingIsServed`)
and `RefinesContract` (`ImplementsContract`): the initial states are those of
`AvailabilityContract`, and every step is one of its steps or leaves the states
of all requests alone. For one thread that asks (`OneCaller`) it proves
`ThreadHandledSafely` (`NoTerminate`) and with it `ThreadAlwaysReady`
(`ThreadReady`). The inductive invariant `AvailabilityInv` says that a request
is in one place (`OnePlace`: on its way into `timeouts_`, in it, or among the
callbacks), that only the callback that is running has been told
(`CallbackTold`), and how the thread object follows the thread
(`ThreadObject`). `ContractStep` finds for each action the one request whose
state it changes.

`ServicesSteps` and `ServicesProofs` prove, for all adapters, addresses and
names, any number of threads, of connections opened one after the other, of
proxies and of failures (under `ServicesAssumption`: the sets are finite),
`TypeCorrect`, `RegistrationsAlwaysAgree` (`RegistrationsAgree`: the tables, the
counts, the bus and what the peers heard) and `NobodyEverStuck`
(`NobodyStuck`), from the inductive invariant `Inv` (`Inductive`). The
properties speak of addresses that no thread works on; `Inv` says what the
thread at each line has done already and has still to do.

- Who holds a mutex is at the lines that hold it (`MutexHeld`,
  `DisconnectHeld`), and a thread knows the adapter it works on, its address and
  its connection (`Shapes`). From these three alone `Circle` shows that threads
  do not wait for each other in a circle: while `connectionsMutex_` is held,
  the connection is no longer that of `Factory`, so that whoever waits for the
  mutex comes late, which the property excepts; who holds `servicesMutex_` and
  waits at all does the same; and who waits for a handler holds
  `connectionsMutex_`, so that there is one of them.
- An adapter is in the tables of one connection only, at its own address, and
  once (`Placed`), and is not there before `Enter` and after `Retract`
  (`Entering`).
- Only the connection of `Factory` is open and not about to be closed, and only
  it has proxies (`ConnectionsFit`); every user of it is counted (`UsersCounted`): the count is at least the proxies, the
  entries of `services_`, the threads that are about to take a user off or have
  just put one on, and the adapters that have lost their entry and are still in
  the tables. It is an inequality, because a count that is too high closes
  nothing: `decrementConnection` closes a connection when its count reaches 0,
  and then none of these is left.
- For an address that is not in `tainted`, the line of the thread there decides
  whether its adapter is in the table, on the list of `/` and known to the peers
  (`AllFit`); an entry on which no thread works is complete (`AllComplete`).
- The references of paths and names are the numbers of their addresses in the
  tables (`PathsCounted`, `NamesCounted`), cardinalities of sets that one address
  enters or leaves at a time (`PathsEnter`, `PathsLeave`, `NamesFollow`).

`ServicesSteps` says for each action once what it changes (`...Effect`) in terms
of a few forms (`EntersAt`, `LeavesAt`, `Announces`, `TakesBack`, `Becomes`),
and proves the parts up to `ConnectionsFit` and the forms of what the peers
know; `ServicesProofs` proves the others from the effects, each in four lemmas
(`...Continue` for the lines of a thread, `...Begin`, `...Dispatch`, `...Quiet`).

`ServicesProofs` also holds the theorems about `Addresses`: for all
configurations and users (under `WantedAssumption` and `BoundAssumption`),
`TypesAlwaysOK` (`TranslatorTypeOK`) and `AnswersAlwaysFounded`
(`AnswersFounded`): both maps, and what a thread carries
between the two locks of `translate`, hold only answers that the configuration
or the default gives.

`ProxyEventsProofs` proves, for any events of the four kinds, any number of
listeners and of changes of the service (under `EventsAssumption`; a proxy has
finitely many events), `TypeCorrect`, `SubscriptionsAlwaysMatch`
(`SubscriptionsMatch`) and `ListenersAlwaysServed` (`ListenersServed`). Both
properties speak of moments when nothing is under way, so that neither is
inductive: the invariant `Inv` says what each step still owes.

- The thread of the application is where an event of its kind can be, with a
  listener that is subscribed or, when it removes the last one, with none left
  (`AppInPlace`, `FirstAlone`); a listener belongs to one event (`TagsUnique`,
  `StatusTags`, `InternalTags`, `EntriesKnown`).
- `SubscriptionsMatch`: the flag of an attribute's tuple says whether its handler
  is there, and while the tuple is between `addSignalMemberHandler` and the queue,
  the flag it carries does (`QueueMatches`); the flag follows the status, but for
  the tuple that a change of the status overtook (`QueueFollows`). A handler
  goes with the last listener (`HandlersGone`) and is kept for the others
  (`HandlersKept`). The stub has dropped a selective event that nobody listens
  to and is not asked for it again, or an unsubscription is on its way behind
  everything that asks (`Withdrawn`). For a service that is gone, the report of
  it is on its way behind any report that it is there (`ReportsFollow`).
- `ListenersServed`: what a listener does not know yet is promised by something
  on its way: the value by its own request, by the one for everybody, by either
  answer, or by the loss of the service, after which the proxy asks again
  (`ValuesPromised`); the confirmation by a pushed function or by the change of
  the status that is being handled or has to come first (`StatesConfirmed`);
  the answer to a selective subscription by the call or its answer
  (`RequestsAnswered`); the status by a pushed function (`StatusTold`).

The handling of a status change takes several steps (`loop`), between which the
application goes on: the parts above say what holds in each of them, which is
where the exceptions of the properties come from. `Ordering` shows that the
order in which the tuples are visited reaches all of them, whatever it is; it is
why the events have to be finitely many.

`RemoteCallsProofs` proves, for all calls, threads, statuses and values (under
`ScenariosAssumption`, `BoundsAssumption` and `NoneAssumption`), `TypeCorrect`,
`CallersToldTheTruth` (`AnswersTrue`), `ObserversKnowTheValue`
(`ObserversAgree`) and `OutcomeFinal`: what a caller has been told about a call
never changes. `Inv` follows a call from end to end: it is on the wire at most
once (`WireOnce`), and its phase says where it can be (`Progress`); a call kept
for later is answered by one thread at a time (`Kept`), the dispatcher works on
one call (`Dispatching`), what was sent is what was answered first (`Replied`),
what arrived was sent (`Origin`), what the caller was told is what arrived or
the reason why nothing did (`Over`); the lock of the attribute has one holder
(`Locked`), and what the observers were told last is the value, unless a thread
has still to tell them (`Told`).

`InstancesProofs` proves, for all instances, queries and listeners and any
number of processes and changes (under `InstancesAssumption`), `TypeCorrect`,
`EventsAlwaysAgree` (`EventsAgree`), `CacheAlwaysTrue` (`CacheTrue`) and
`StatusAlwaysTrue` (`StatusTrue`, an action property). All three properties
speak of moments when nothing is on its way; the invariant says what is on its
way otherwise. Common to all are the types, `Addressed` (what a message, a call
and a query are about), `Down` (a process that has ended has nothing) and
`Handlers` (the event's handlers are there before its first listener).

- `EventsAgree`: an instance is in the table, or something on its way brings it
  and nothing behind that takes it away (`NoneMissing`); what is in the table or
  will be brought is there or will be taken away (`NoneTooMany`); the listeners
  have heard of what came after them (`ListenersTold`).
- `CacheTrue`: who owns names in the registry does, or the loss is on its way
  (`OwnersFollow`); signals arrive in the order of the processes (`InOrder`);
  who is watched owns a name (`WatchedIsOwned`); a path that is being resolved
  lists nothing (`Fresh`), and one call or one answer about it is on its way
  (`OneAnswer`). Then the last message about a path, behind the answer, is true,
  and if there is none, so is the path (`LastWordTrue`). Between the two
  handlers of one signal the registry has already heard it (`HeardFirst`).
- `StatusTrue`: what the event told to be gone is gone, nothing on its way brings
  it back, and no path lists it (`GoneForGood`); the queries that began then know
  (`QueriesKnow`).

`OneAnswer` is what fails for paths in `doubled` and `dropped`: the callback
finds the path by its name, so that an answer counts for whichever call the path
waits for. That a dropped path has to be excepted as well came out of the proof
attempt: `Fresh` and `OneAnswer` were not inductive for it, and TLC then showed
the counterexample with five changes.

Each conjunct has a lemma of its own with one step per action that can disturb
it; the other actions are framed. `Grows` and `Shrinks` say once what sending
and taking do to a sequence, so that no step reasons about `Append` or `Tail`.

Only model-checked, and why:

- all properties under fairness: out of the prover's reach;
- `Streams`: its operators are recursive over values, and so is what is to be
  shown of them; the prover supports neither;
- `NothingFreedIsUsed` of `MainLoop`: what a pass frees is computed by recursion
  over a sequence, and what such a function computes needs induction over data;
- `PendingExact` and `ListenersInformed` of `ServiceRegistry`: they count the
  members of a sequence that satisfy a condition (`SelectSeq`), which needs
  induction too; they depend on each other, and need owners that do not claim
  again and paths that services do not share;
- `UsersAgree` of `Addresses`, whose exceptions depend on the history of all
  earlier translations.

## 6. Not modelled

- `CompletionHelper` joins, at the exit of the process, threads that called
  `disconnect()` from a callback; it takes no part in the other protocols.
- `DBusDaemonProxy` wraps calls to the daemon; its answers and signals are
  inputs of `ServiceRegistry` and `Instances`.
- Two disconnects of one connection at once (`DBusConnection.cpp:414`), and a
  context of a main loop that expires before its connection.
- `fetchAllServiceNames`, construction and destruction of the registry, and
  `initLibdbusObjectPathHandlerAfterConnect` (1558).
- The tables of creation functions of `Factory`, the initialisation of the
  library, `DBusMultiEvent` and the client identifiers of stubs.
- Delivery of ordinary signals to typed callbacks; the texts of introspection;
  logging; branches for Windows.
- Third-party code: pugixml (the reading of a section is an input of
  `Addresses`), MurmurHash3, and the patches of libdbus, which is external with
  what the code relies on.
- The composition of all modules in one: they share the connection, but each
  states of its neighbours only what the code of both allows (a call ends by a
  reply or its timeout, a status comes and goes), and the product is out of
  TLC's reach.

------------------------- MODULE ProxyAvailability -------------------------
(***************************************************************************)
(* Who learns, and when, that the service of a DBusProxy is available:     *)
(* isAvailableAsync with its list of waiting requests and the thread that  *)
(* answers them, isAvailableBlocking, the status changes that the registry *)
(* reports, and the destructor.                                            *)
(*                                                                         *)
(* The availability thread holds availabilityTimeoutThreadMutex_ from its  *)
(* start, except while it waits and while it is in a callback; whoever     *)
(* wants to notify it has to take that mutex first.  A notification while  *)
(* nobody waits is lost.                                                   *)
(***************************************************************************)
EXTENDS Naturals, FiniteSets

CONSTANTS Requests,       \* calls of isAvailableAsync
          Callers,        \* application threads that make them
          Blockers,       \* threads in isAvailableBlocking
          DispatchThread, \* hasDispatchThread(): somebody runs the main loop
          NoRequest

ASSUME AvailabilityAssumption ==
  /\ NoRequest \notin Requests
  /\ DispatchThread \in BOOLEAN

VARIABLES status,       \* availabilityStatus_
          timeouts,     \* requests in timeouts_
          expired,      \* requests whose time point has passed
          thread,       \* availabilityTimeoutThread_: where it is
          joinable,     \* there is a thread object that was not joined
          wait,         \* the requests its wait_for was computed from
          scan,         \* entries of timeouts_ it still looks at
          waitTimedOut, \* whether wait_for returned cv_status::timeout
          callbacks,    \* its local list: requests with a decided answer
          answer,       \* the status decided for a request
          current,      \* the request whose callback is running
          told,         \* how often the callback of a request was called
          caller,       \* each caller in isAvailableAsync, and its request
          notifier,     \* the thread in onDBusServiceInstanceStatus
          blocked,      \* each blocker in isAvailableBlocking
          proxy,        \* life of the proxy, as its destructor goes on
          crashed       \* std::terminate was called

threadVars == <<thread, joinable, wait, scan, waitTimedOut, callbacks, answer,
                current, told>>
proxyVars == <<status, timeouts, expired, threadVars, caller, notifier, blocked,
              proxy, crashed>>

-----------------------------------------------------------------------------
AvailabilityStatuses == {"UNKNOWN", "AVAILABLE", "NOT_AVAILABLE"}

(* "none": never started; "starting": created, has not taken its mutex;    *)
(* "waiting" in wait_for; "woken" by a notification; "scan": walks over    *)
(* timeouts_; "callbacks": between two callbacks; "inCallback"; "ended".   *)
ThreadPcs == {"none", "starting", "waiting", "woken", "scan", "callbacks",
              "inCallback", "ended"}

CallerPcs == {"idle", "joining", "joined", "notify"}

(* A caller that is not inside isAvailableAsync.                           *)
Outside == [pc |-> "idle", request |-> NoRequest]

(* Requests whose call of isAvailableAsync has begun and whose entry is    *)
(* not in the list yet.                                                    *)
Entering == {caller[c].request :
               c \in {d \in Callers : caller[d].pc \in {"joining", "joined"}}}

(* Nothing has been done with the request.                                 *)
Fresh(r) ==
  /\ told[r] = 0 /\ answer[r] = "UNKNOWN"
  /\ r \notin timeouts \cup callbacks \cup Entering

(* availabilityTimeoutThreadMutex_ and timeoutsMutex_ can be locked.       *)
ThreadMutexFree == thread \in {"none", "starting", "waiting", "woken",
                               "inCallback", "ended"}
TimeoutsMutexFree == thread # "scan"

(* availabilityTimeoutCondition_.notify_all()                              *)
NotifyThread == thread' = IF thread = "waiting" THEN "woken" ELSE thread

IsAvailable == status = "AVAILABLE"

ProxyTypeOK ==
  /\ status \in AvailabilityStatuses
  /\ timeouts \in SUBSET Requests /\ expired \in SUBSET Requests
  /\ thread \in ThreadPcs
  /\ joinable \in BOOLEAN /\ waitTimedOut \in BOOLEAN /\ crashed \in BOOLEAN
  /\ wait \in SUBSET Requests /\ scan \in SUBSET timeouts
  /\ callbacks \in SUBSET Requests
  /\ answer \in [Requests -> AvailabilityStatuses]
  /\ current \in Requests \cup {NoRequest}
  /\ told \in [Requests -> Nat]
  /\ caller \in [Callers -> [pc : CallerPcs, request : Requests \cup {NoRequest}]]
  /\ notifier \in {"idle", "notifyThread", "wakeBlocked"}
  /\ blocked \in [Blockers -> {"outside", "waiting", "woken", "returned"}]
  /\ proxy \in {"alive", "cancelled", "joining", "gone"}

ProxyInit ==
  /\ status = "UNKNOWN"
  /\ timeouts = {} /\ expired = {}
  /\ thread = "none" /\ joinable = FALSE
  /\ wait = {} /\ scan = {} /\ waitTimedOut = FALSE
  /\ callbacks = {} /\ current = NoRequest
  /\ answer = [r \in Requests |-> "UNKNOWN"]
  /\ told = [r \in Requests |-> 0]
  /\ caller = [c \in Callers |-> Outside]
  /\ notifier = "idle"
  /\ blocked = [b \in Blockers |-> "outside"]
  /\ proxy = "alive"
  /\ crashed = FALSE

-----------------------------------------------------------------------------
(* isAvailableAsync on an application thread.                              *)

(* A new thread object replaces the old one; a joinable std::thread that   *)
(* is replaced calls std::terminate.                                       *)
StartThread ==
  /\ crashed' = joinable
  /\ thread' = "starting" /\ joinable' = TRUE

(* The list is empty and a thread is left from earlier requests: it is     *)
(* joined without timeoutsMutex_.  Two threads that join the same          *)
(* std::thread are undefined behaviour.                                    *)
JoinFirst(c, r) ==
  /\ caller[c] = Outside /\ Fresh(r) /\ proxy = "alive"
  /\ TimeoutsMutexFree /\ timeouts = {} /\ joinable
  /\ caller' = [caller EXCEPT ![c] = [pc |-> "joining", request |-> r]]
  /\ crashed' = \E d \in Callers : caller[d].pc = "joining"
  /\ UNCHANGED <<status, timeouts, expired, threadVars, notifier, blocked,
                 proxy>>

Joined(c) ==
  /\ caller[c].pc = "joining" /\ thread = "ended"
  /\ joinable' = FALSE
  /\ caller' = [caller EXCEPT ![c].pc = "joined"]
  /\ UNCHANGED <<status, timeouts, expired, thread, wait, scan, waitTimedOut,
                 callbacks, answer, current, told, notifier, blocked, proxy,
                 crashed>>

(* Seeded fault: the thread that is left is not joined.                    *)
AskFirstUnjoined(c, r) ==
  /\ caller[c] = Outside /\ Fresh(r) /\ proxy = "alive"
  /\ timeouts = {} /\ TimeoutsMutexFree
  /\ timeouts' = timeouts \cup {r}
  /\ StartThread
  /\ caller' = [caller EXCEPT ![c] = [pc |-> "notify", request |-> r]]
  /\ UNCHANGED <<status, expired, wait, scan, waitTimedOut, callbacks, answer,
                 current, told, notifier, blocked, proxy>>

(* With or without a join the first entry starts a thread.                 *)
AskFirst(c, r) ==
  /\ \/ caller[c] = Outside /\ Fresh(r) /\ proxy = "alive"
        /\ timeouts = {} /\ ~joinable
     \/ caller[c] = [pc |-> "joined", request |-> r]
  /\ TimeoutsMutexFree
  /\ timeouts' = timeouts \cup {r}
  /\ StartThread
  /\ caller' = [caller EXCEPT ![c] = [pc |-> "notify", request |-> r]]
  /\ UNCHANGED <<status, expired, wait, scan, waitTimedOut, callbacks, answer,
                 current, told, notifier, blocked, proxy>>

AskMore(c, r) ==
  /\ caller[c] = Outside /\ Fresh(r) /\ proxy = "alive"
  /\ TimeoutsMutexFree /\ timeouts # {}
  /\ timeouts' = timeouts \cup {r}
  /\ caller' = [caller EXCEPT ![c] = [pc |-> "notify", request |-> r]]
  /\ UNCHANGED <<status, expired, threadVars, notifier, blocked, proxy,
                 crashed>>

(* "notify availability thread that new timeout was added"                 *)
NotifyAdded(c) ==
  /\ caller[c].pc = "notify" /\ ThreadMutexFree
  /\ NotifyThread
  /\ caller' = [caller EXCEPT ![c] = Outside]
  /\ UNCHANGED <<status, timeouts, expired, joinable, wait, scan, waitTimedOut,
                 callbacks, answer, current, told, notifier, blocked, proxy,
                 crashed>>

(* isAvailableAsync in the callback of another request: the thread finds   *)
(* itself in availabilityTimeoutThread_, joins and starts nothing, and its *)
(* notification reaches nobody.                                            *)
AskInCallback(r) ==
  /\ thread = "inCallback" /\ Fresh(r) /\ proxy = "alive"
  /\ timeouts' = timeouts \cup {r}
  /\ UNCHANGED <<status, expired, threadVars, caller, notifier, blocked,
                 proxy, crashed>>

-----------------------------------------------------------------------------
(* availabilityTimeoutThreadHandler                                        *)

(* Seeded fault: the timeout is never computed.                            *)
LoopForever(finish) ==
  IF proxy # "alive" \/ finish
  THEN thread' = "ended" /\ UNCHANGED wait
  ELSE thread' = "waiting" /\ wait' = {}

(* Thread start or end of an iteration: leave, or wait for the entry that  *)
(* expires first.  The first iteration looks at nothing and is skipped.    *)
Loop(finish) ==
  IF proxy # "alive" \/ finish
  THEN thread' = "ended" /\ UNCHANGED wait
  ELSE thread' = "waiting" /\ wait' = timeouts

BeginThread ==
  /\ thread = "starting"
  /\ Loop(FALSE)
  /\ UNCHANGED <<status, timeouts, expired, joinable, scan, waitTimedOut,
                 callbacks, answer, current, told, caller, notifier, blocked,
                 proxy, crashed>>

(* wait_for returns: the first of the entries it was computed from has     *)
(* expired, or somebody notified; after a notification it reports a        *)
(* timeout nevertheless if that moment has passed.                         *)
WakeUp(timeout) ==
  /\ timeout <=> wait \cap expired # {}
  /\ IF timeout THEN thread \in {"waiting", "woken"} ELSE thread = "woken"
  /\ thread' = "scan" /\ scan' = timeouts /\ waitTimedOut' = timeout
  /\ UNCHANGED <<status, timeouts, expired, joinable, wait, callbacks, answer,
                 current, told, caller, notifier, blocked, proxy, crashed>>

(* Seeded fault: the iterator stays on the erased entry.                   *)
ScanEntryStuck(r) ==
  /\ thread = "scan" /\ r \in scan /\ IsAvailable
  /\ callbacks' = callbacks \cup {r}
  /\ answer' = [answer EXCEPT ![r] = "AVAILABLE"]
  /\ timeouts' = timeouts \ {r}
  /\ UNCHANGED <<status, expired, thread, joinable, wait, scan, waitTimedOut,
                 current, told, caller, notifier, blocked, proxy, crashed>>

(* Seeded fault: one expired entry answers them all.                       *)
ScanEntryAll(r) ==
  /\ thread = "scan" /\ r \in scan
  /\ scan' = scan \ {r}
  /\ IF IsAvailable \/ waitTimedOut
     THEN /\ callbacks' = callbacks \cup {r}
          /\ answer' = [answer EXCEPT ![r] =
               IF IsAvailable THEN "AVAILABLE" ELSE "NOT_AVAILABLE"]
          /\ timeouts' = timeouts \ {r}
     ELSE UNCHANGED <<callbacks, answer, timeouts>>
  /\ UNCHANGED <<status, expired, thread, joinable, wait, waitTimedOut, current,
                 told, caller, notifier, blocked, proxy, crashed>>

(* An entry moves to the callbacks: with the status as it is now if it has *)
(* expired, else only if the service is available.                         *)
ScanEntry(r) ==
  /\ thread = "scan" /\ r \in scan
  /\ scan' = scan \ {r}
  /\ IF IsAvailable \/ (waitTimedOut /\ r \in expired)
     THEN /\ callbacks' = callbacks \cup {r}
          /\ answer' = [answer EXCEPT ![r] =
               IF IsAvailable THEN "AVAILABLE" ELSE "NOT_AVAILABLE"]
          /\ timeouts' = timeouts \ {r}
     ELSE UNCHANGED <<callbacks, answer, timeouts>>
  /\ UNCHANGED <<status, expired, thread, joinable, wait, waitTimedOut, current,
                 told, caller, notifier, blocked, proxy, crashed>>

ScanDone ==
  /\ thread = "scan" /\ scan = {}
  /\ thread' = "callbacks"
  /\ UNCHANGED <<status, timeouts, expired, joinable, wait, scan, waitTimedOut,
                 callbacks, answer, current, told, caller, notifier, blocked,
                 proxy, crashed>>

(* threadLock is released, the promise set and the callback called.        *)
BeginCallback(r) ==
  /\ thread = "callbacks" /\ r \in callbacks
  /\ thread' = "inCallback" /\ current' = r
  /\ told' = [told EXCEPT ![r] = @ + 1]
  /\ UNCHANGED <<status, timeouts, expired, joinable, wait, scan, waitTimedOut,
                 callbacks, answer, caller, notifier, blocked, proxy,
                 crashed>>

EndCallback ==
  /\ thread = "inCallback"
  /\ thread' = "callbacks" /\ current' = NoRequest
  /\ callbacks' = callbacks \ {current}
  /\ UNCHANGED <<status, timeouts, expired, joinable, wait, scan, waitTimedOut,
                 answer, told, caller, notifier, blocked, proxy, crashed>>

(* Seeded fault: the thread ends with its last callback.                   *)
EndIterationUnchecked ==
  /\ thread = "callbacks" /\ callbacks = {}
  /\ thread' = "ended"
  /\ UNCHANGED <<status, timeouts, expired, joinable, wait, scan, waitTimedOut,
                 callbacks, answer, current, told, caller, notifier, blocked,
                 proxy, crashed>>

(* Seeded fault: the thread waits for further requests.                    *)
EndIterationEndless ==
  /\ thread = "callbacks" /\ callbacks = {}
  /\ Loop(FALSE)
  /\ UNCHANGED <<status, timeouts, expired, joinable, scan, waitTimedOut,
                 callbacks, answer, current, told, caller, notifier, blocked,
                 proxy, crashed>>

(* The thread ends with its last entry; it decides under timeoutsMutex_.   *)
EndIteration ==
  /\ thread = "callbacks" /\ callbacks = {}
  /\ Loop(timeouts = {})
  /\ UNCHANGED <<status, timeouts, expired, joinable, scan, waitTimedOut,
                 callbacks, answer, current, told, caller, notifier, blocked,
                 proxy, crashed>>

-----------------------------------------------------------------------------
(* onDBusServiceInstanceStatus: the status is set, the thread notified,    *)
(* listeners and signal handlers are served (module ProxyEvents), and one  *)
(* of the blocked threads is woken.                                        *)

SetStatus(s) ==
  /\ notifier = "idle" /\ proxy = "alive"
  /\ status' = s
  /\ notifier' = IF s # status THEN "notifyThread" ELSE "wakeBlocked"
  /\ UNCHANGED <<timeouts, expired, threadVars, caller, blocked, proxy,
                 crashed>>

NotifyChanged ==
  /\ notifier = "notifyThread" /\ ThreadMutexFree
  /\ NotifyThread
  /\ notifier' = "wakeBlocked"
  /\ UNCHANGED <<status, timeouts, expired, joinable, wait, scan, waitTimedOut,
                 callbacks, answer, current, told, caller, blocked, proxy,
                 crashed>>

(* Seeded fault: nobody is woken.                                          *)
WakeNobody ==
  /\ notifier = "wakeBlocked"
  /\ notifier' = "idle"
  /\ UNCHANGED <<status, timeouts, expired, threadVars, caller, blocked, proxy,
                 crashed>>

WakeBlocked ==
  /\ notifier = "wakeBlocked"
  /\ notifier' = "idle"
  /\ LET waiting == {b \in Blockers : blocked[b] = "waiting"} IN
       \/ waiting = {} /\ UNCHANGED blocked
       \/ \E b \in waiting : blocked' = [blocked EXCEPT ![b] = "woken"]
  /\ UNCHANGED <<status, timeouts, expired, threadVars, caller, proxy,
                 crashed>>

(* isAvailableBlocking: without a dispatch thread it cannot wait.          *)
Block(b) ==
  /\ \/ blocked[b] = "outside" /\ proxy = "alive"
     \/ blocked[b] = "woken"
  /\ blocked' = [blocked EXCEPT ![b] =
       IF IsAvailable \/ (~DispatchThread /\ @ = "outside")
       THEN "returned" ELSE "waiting"]
  /\ UNCHANGED <<status, timeouts, expired, threadVars, caller, notifier,
                 proxy, crashed>>

-----------------------------------------------------------------------------
(* ~DBusProxy, when no other thread uses the proxy any more.  Requests     *)
(* that are still waiting are dropped with the list.                       *)

Destroy ==
  /\ proxy = "alive" /\ notifier = "idle"
  /\ \A c \in Callers : caller[c] = Outside
  /\ \A b \in Blockers : blocked[b] \in {"outside", "returned"}
  /\ proxy' = "cancelled"
  /\ UNCHANGED <<status, timeouts, expired, threadVars, caller, notifier,
                 blocked, crashed>>

NotifyCancelled ==
  /\ proxy = "cancelled" /\ ThreadMutexFree
  /\ NotifyThread
  /\ proxy' = "joining"
  /\ UNCHANGED <<status, timeouts, expired, joinable, wait, scan, waitTimedOut,
                 callbacks, answer, current, told, caller, notifier, blocked,
                 crashed>>

JoinThread ==
  /\ proxy = "joining" /\ (joinable => thread = "ended")
  /\ proxy' = "gone"
  /\ UNCHANGED <<status, timeouts, expired, threadVars, caller, notifier,
                 blocked, crashed>>

(* The time point of a request passes.                                     *)
Elapse(r) ==
  /\ r \in (timeouts \cup Entering) \ expired
  /\ expired' = expired \cup {r}
  /\ UNCHANGED <<status, timeouts, threadVars, caller, notifier, blocked,
                 proxy, crashed>>

-----------------------------------------------------------------------------
CallerNext ==
  \E c \in Callers :
    \/ \E r \in Requests : JoinFirst(c, r) \/ AskFirst(c, r) \/ AskMore(c, r)
    \/ Joined(c) \/ NotifyAdded(c)

ThreadNext ==
  \/ BeginThread \/ ScanDone \/ EndCallback \/ EndIteration
  \/ \E timeout \in BOOLEAN : WakeUp(timeout)
  \/ \E r \in Requests : ScanEntry(r) \/ BeginCallback(r)

StatusNext ==
  \/ \E s \in {"AVAILABLE", "NOT_AVAILABLE"} : SetStatus(s)
  \/ NotifyChanged \/ WakeBlocked
  \/ \E b \in Blockers : Block(b)

DestroyNext == Destroy \/ NotifyCancelled \/ JoinThread

(* A process that has called std::terminate does nothing more.             *)
ProxyNext ==
  /\ ~crashed
  /\ \/ CallerNext \/ ThreadNext \/ StatusNext \/ DestroyNext
     \/ \E r \in Requests : AskInCallback(r) \/ Elapse(r)

ProxySpec == ProxyInit /\ [][ProxyNext]_proxyVars

(* Threads that can go on do, a mutex that is free again and again is had  *)
(* in the end, and time passes.  Nobody has to ask, the status need not    *)
(* change or may change for ever, and the proxy may live for ever.         *)
FairSpec ==
  /\ ProxySpec
  /\ WF_proxyVars(~crashed /\ ThreadNext)
  /\ \A c \in Callers :
       /\ WF_proxyVars(~crashed /\ Joined(c))
       /\ SF_proxyVars(~crashed /\ NotifyAdded(c))
       /\ SF_proxyVars(~crashed /\ \E r \in Requests :
                    caller[c] = [pc |-> "joined", request |-> r] /\ AskFirst(c, r))
  /\ SF_proxyVars(~crashed /\ NotifyChanged)
  /\ WF_proxyVars(~crashed /\ WakeBlocked)
  /\ \A b \in Blockers : WF_proxyVars(~crashed /\ blocked[b] = "woken" /\ Block(b))
  /\ SF_proxyVars(~crashed /\ NotifyCancelled)
  /\ WF_proxyVars(~crashed /\ JoinThread)
  /\ \A r \in Requests : WF_proxyVars(~crashed /\ Elapse(r))

-----------------------------------------------------------------------------
(* Properties.                                                             *)

(* A request that waits has a thread that will answer it: the thread does  *)
(* not end between the moment a caller finds the list in use and adds its  *)
(* entry, and who finds it empty starts a new one.                         *)
WaitingIsServed ==
  timeouts # {} /\ proxy = "alive" => thread \notin {"none", "ended"}

(* The thread object is never replaced while it is joinable, nor joined    *)
(* twice, as long as one application thread asks and callbacks may ask too.*)
NoTerminate == ~crashed

(* The availability thread is there when it is needed and handled by one   *)
(* party at a time.                                                        *)
ThreadReady == WaitingIsServed /\ NoTerminate

(* What became of a request, in the words of the contract.                 *)
StateOf(r) ==
  IF told[r] > 1 THEN "told again"
  ELSE IF told[r] = 1 THEN "told"
  ELSE IF r \in callbacks THEN "settled"
  ELSE IF r \in timeouts \cup Entering THEN "asked"
  ELSE "none"

RequestState == [r \in Requests |-> StateOf(r)]

Contract == INSTANCE AvailabilityContract WITH request <- RequestState

(* Each request is settled once, truthfully, and told once what it was     *)
(* settled with, whatever the thread, the status and other requests do.    *)
ImplementsContract == Contract!ContractSpec

(* Every request is answered, at the latest when its time is over, unless  *)
(* the proxy is destroyed: lost notifications delay answers only.          *)
EveryRequestAnswered ==
  \A r \in Requests :
    r \in timeouts \cup Entering ~> told[r] > 0 \/ proxy # "alive"

(* isAvailableAsync returns although it joins the thread, whose callbacks  *)
(* may add requests in the meantime.                                       *)
AsyncCallReturns ==
  \A c \in Callers : caller[c] # Outside ~> caller[c] = Outside

(* When the service becomes available and stays so, a blocked thread       *)
(* returns (one: notify_one wakes no other).                               *)
OneBlockedReturns ==
  (\E b \in Blockers : blocked[b] = "waiting") /\ IsAvailable
    ~> (\E b \in Blockers : blocked[b] = "returned") \/ ~IsAvailable

(* All three ways of asking for the availability come to their end.        *)
RequestsComplete == EveryRequestAnswered /\ AsyncCallReturns /\ OneBlockedReturns
=============================================================================
